SPECIFICATION FairSpec
CONSTANTS
    Calls = {c1, c2}
    Txs = {t1, t2}
    Malformed = {t2}
    Peers = {p1, p2}
    HandlerCount = 1
    QueueMax = 1
    Reuse = "while"
PROPERTIES
    CallEnds
    HandlersFreed
CHECK_DEADLOCK FALSE
