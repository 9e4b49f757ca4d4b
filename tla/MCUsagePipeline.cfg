SPECIFICATION Spec
CONSTANTS
    g1 = g1
    g2 = g2
    None = None
    Awaited = Awaited
    Grants = {g1, g2}
    Meters <- GrantMeters
    Issued <- TwoAndOne
    MaxIncarnation = 2
    BatchLimit = 2
    SpoolLimit = 2
    ChunkLimit = 2
    PendingLimit = 2
    MaxFaults = 2
CHECK_DEADLOCK FALSE
INVARIANTS
    NothingDiscarded
    ConsumptionExact
PROPERTIES
    SpoolsSound
    BillingImplemented
