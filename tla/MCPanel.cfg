SPECIFICATION PanelSpec
CONSTANTS
    c1 = c1
    c2 = c2
    p1 = p1
    p2 = p2
    n1 = n1
    n2 = n2
    nothing = nothing
    Sessions = {b1}
    Handlers = {h1, h2}
    MaxVersion = 2
    OpsQueue = 2
    BroadcastQueue = 2
    SendQueue = 1
    Attempts = 2
    MaxPanics = 1
    Stoppable = TRUE
    Subscribers = {mail, telegram}
    MaxSubs = 2
    MaxEvents = 3
    BufferSize = 2
    EventQueue = 2
    SlowIds = {mail}
    Callers = {traffic, admin, node}
    MaxWrites = 2
    WriterStarts = 2
    WriterQueue = 1
    AcctIds = {s1, s2}
    MaxTraffic = 3
    MaxNet = 2
    MaxStarts = 2
    MaxFaults = 2
    Reorder = FALSE
    Milli = 2
    MaxRoundTrip = 3
    MaxReal = 4
    Readers = {r1}
    Requests = {q1}
    ClockFaults = 1
    MaxCancels = 1
    NodeClients = {c1, c2}
    ConfigEdits = 3
    ConfigFaults = 1
    Overlap = FALSE
    NoConfig = nothing
    BanClients = {c1, c2}
    BanSources = {s1}
    Ports = {p1, p2}
    PortsOf <- HostPorts
    BanTime = 2
    BanMaxTime = 3
    MaxActs = 2
    MaxFails = 1
    MaxFlushes = 0
    SharedPush = FALSE
CHECK_DEADLOCK FALSE
INVARIANTS
    
    WritesAnswered
    RadiusExact
    TrafficExact
PROPERTIES
    
    
    
    TimeTrusted
