SPECIFICATION Spec
CONSTANTS
    g1 = g1
    g2 = g2
    c1 = c1
    c2 = c2
    t1 = t1
    None = None
    Grants = {g1, g2}
    Clients = {c1, c2}
    Terms = {t1}
    MaxUint64 = 6
    MinimumReservationBlock = 1
    MaximumReservationBlock = 2
    MaxChunk = 1
    MaxNow = 0
    Deployments <- TwoGrantDeployments
    CreditBatches <- TwoGrantCredits
    AuthorityBatches <- TwoGrantAuthority
INVARIANTS
    Reopenable
    LookupServesDurableGrant
