SPECIFICATION FairSpec
CONSTANTS
    HandlerCount = 3
    InvCap = 2
    HeadersCap = 1
    MaxHeaders = 2
    MaxRemote = 3
    MaxListings = 1
    MaxLosses = 2
INVARIANTS TypeOK AnswerIsOwn QuietMeansSynced
PROPERTY TipFollowed
CHECK_DEADLOCK FALSE
