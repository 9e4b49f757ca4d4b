SPECIFICATION FairSpec
CONSTANTS
    n1 = n1
    n2 = n2
    Nodes = {n1}
    Native = {}
    MaxTerm = 2
    MaxRevision = 4
    MaxDeployments = 4
    MaxFlight = 1
    PlannerRates = {0, 1}
    MaxRates = 2
    MaxChanges = 1
    MaxOther = 0
    Expiring = FALSE
CHECK_DEADLOCK FALSE
PROPERTIES
    StopsAdvance
