SPECIFICATION Spec
CONSTANTS
    Limit = 4
    Header = 2
    MaxSize = 13
    MayExtend = TRUE
INVARIANTS
    TypeOK
    ChunksExact
    BlockComplete
    BufferBounded
    AcceptsNarrow
CHECK_DEADLOCK FALSE
