SPECIFICATION FleetSpec
CONSTANTS
    n1 = n1
    n2 = n2
    w1 = w1
    w2 = w2
    Nodes = {n1, n2}
    Native = {n2}
    MaxTerm = 2
    MaxRevision = 3
    MaxDeployments = 4
    MaxFlight = 2
    PlannerRates = {0, 1}
    MaxRates = 2
    MaxChanges = 2
    MaxOther = 1
    Expiring = TRUE
    CreditGrants = {1}
    CreditWorkers = {w1, w2}
    Target = 1
    LowWater = 0
    Quota = 2
    CreditRates = 1
    CreditDeployments = 2
    CreditFaults = 0
    Blocking = TRUE
    Overrun = TRUE
SYMMETRY WorkerSymmetry
CHECK_DEADLOCK FALSE
INVARIANTS
    PlanSound
    TermsInTurn
    StopsHold
    CreditSound
