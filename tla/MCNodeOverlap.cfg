SPECIFICATION Spec
CONSTANTS
    Clients = {c1}
    MaxEdits = 2
    MaxFaults = 0
    Overlap = TRUE
    None = None
CHECK_DEADLOCK FALSE
PROPERTIES
    AdvanceProves
