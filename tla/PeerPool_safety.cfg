SPECIFICATION Spec
CONSTANTS
    h1 = h1
    h2 = h2
    h3 = h3
    Listed <- ThreeHosts
    Unlisted = {h4}
    Banned = {}
    Named = {h2}
    Concurrency = 1
    WaitFor = 2
    Persist = TRUE
    EarlyAddr = TRUE
    MayLose = TRUE
    MaxIndex = 5
INVARIANTS
    TypeOK
    
    
    

