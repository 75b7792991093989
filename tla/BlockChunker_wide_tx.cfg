SPECIFICATION Spec
CONSTANTS
    Limit = 4
    Header = 2
    MaxSize = 13
    MayExtend = FALSE
INVARIANTS
    AcceptsAll
CHECK_DEADLOCK FALSE
