SPECIFICATION Spec
CONSTANTS
    p1 = p1
    p2 = p2
    None = None
    Payloads = {p1, p2}
    RuntimeCount = 2
    MaxRevision = 2
    MaxStreams = 2
    MaxFaults = 1
    MaxRestores = 1
CHECK_DEADLOCK FALSE
INVARIANTS
    AppliedIsTrue
    StoresSound
PROPERTIES
    NeverBackwards
