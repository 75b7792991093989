SPECIFICATION Spec
CONSTANTS
    Calls = {c1, c2}
    Txs = {t1, t2}
    Malformed = {}
    Peers = {p1, p2}
    HandlerCount = 1
    QueueMax = 1
    Reuse = "while"
SYMMETRY Symmetry
INVARIANTS
    TypeOK
    PolledEntry
    ConcurrentUsage
    RelaysExact
CHECK_DEADLOCK FALSE
