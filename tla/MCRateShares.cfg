SPECIFICATION Spec
CONSTANTS
    Members = {1, 2}
    Bounds <- WideAndNarrow
    MinimumBurst = 1
    MaxRevision = 3
    MaxFlight = 2
    MaxChanges = 2
    None = None
CHECK_DEADLOCK FALSE
INVARIANTS
    Covered
    BoundHolds
PROPERTIES
    NeverOverIssued
