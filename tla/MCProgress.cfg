SPECIFICATION Spec
CONSTANTS
    n1 = n1
    w1 = w1
    b1 = b1
    b2 = b2
    h1 = h1
    mail = mail
    telegram = telegram
    traffic = traffic
    admin = admin
    c1 = c1
    s1 = s1
    p1 = p1
    p2 = p2
    nothing = nothing
CHECK_DEADLOCK FALSE
PROPERTIES
    Released
    
    
    QueuesServe
    
