SPECIFICATION Spec
CONSTANTS
    p1 = p1
    p2 = p2
    g1 = g1
    c1 = c1
    n1 = n1
    n2 = n2
    nothing = nothing
    awaited = awaited
CHECK_DEADLOCK FALSE
PROPERTIES
    DeliveryImplemented
    EventuallyBilled
    BothSidesAgree
