SPECIFICATION Spec
CONSTANTS
    g1 = g1
    g2 = g2
    c1 = c1
    c2 = c2
    t1 = t1
    None = None
    Grants = {g1}
    Clients = {c1, c2}
    Terms = {t1}
    MaxUint64 = 7
    MinimumReservationBlock = 1
    MaximumReservationBlock = 2
    MaxChunk = 2
    MaxNow = 1
    Deployments <- OneGrantDeployments
    CreditBatches <- OneGrantCredits
    AuthorityBatches <- OneGrantAuthority
INVARIANTS
    NoOverspend
    AccountsSound
PROPERTIES
    AuthorityNeverRegresses
    SuspendedStaysSilent
