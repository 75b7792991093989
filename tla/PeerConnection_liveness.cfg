SPECIFICATION FairSpec
CONSTANTS
    Links = {k1, k2, k3}
    NoLink = NoLink
    HandlerCount = 1
    QueueMax = 1
    DropCloses = TRUE
    MayRaise = FALSE
    MayClose = TRUE
PROPERTIES
    
    HandshakeResolves
    ManagerCloseEnds
