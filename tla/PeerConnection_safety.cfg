SPECIFICATION Spec
CONSTANTS
    Links = {k1, k2, k3, k4}
    NoLink = NoLink
    HandlerCount = 1
    QueueMax = 2
    DropCloses = TRUE
    MayRaise = FALSE
    MayClose = TRUE
SYMMETRY Symmetry
INVARIANTS
    TypeOK
    
    
    PooledIsRead
    SessionsBounded

    
    
