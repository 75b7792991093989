SPECIFICATION FairSpec
CONSTANTS
    g = g  a = a  d = d  e = e  c1 = c1  c2 = c2  h1 = h1  h2 = h2
    Headers <- MCHeaders
    Genesis = g
    Parent <- MCParent
    Work <- MCWork
    Clients = {c1, c2}
    Hosts = {h1, h2}
    Host <- MCHost
    HeadersClient = c1
    MaxRound = 1
    ListLimit = 4
    StopIncluded = TRUE
    MaxEvents = 2
CHECK_DEADLOCK FALSE
PROPERTY BlocksArriveAfterLoss
