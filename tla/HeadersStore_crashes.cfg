SPECIFICATION Spec
CONSTANTS
    g = g  a = a  b = b  d = d  e = e  k = k  x = x
    Headers <- MCHeaders
    Genesis = g
    Parent <- MCParent
    Work <- MCWork
    Invalid = {x}
    MaxBatch = 3
    Uses = {TRUE, FALSE}
    TornWrites = TRUE
INVARIANTS TypeOK  ReorgExact TipContinuous
 
CHECK_DEADLOCK FALSE
