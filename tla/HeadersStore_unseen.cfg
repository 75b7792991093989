SPECIFICATION Spec
CONSTANTS
    g = g  a = a  b = b  d = d  e = e  k = k  x = x
    Headers <- MCHeaders
    Genesis = g
    Parent <- MCParent
    Work <- MCWork
    Invalid = {}
    MaxBatch = 3
    Uses = {TRUE}
    TornWrites = FALSE
INVARIANT ReorgsReported
