CONSTANTS
    NBlocks = 11
    Parent <- ForkTree
    Start = 4
    BackStep = 1
    TipStep = 2
    SyncFrom = 1
    Indexed = {5, 9}
    MaxInitFault = 1
    MaxFault = 2
    MaxScript = 1
    MaxStale = 1
SPECIFICATION Spec
INVARIANTS
    TypeOK
    TipUnique
    MainIsChain
    GapIsTail
    
PROPERTIES
    TipNeverFalls
    ImplementsMainChain
    ChainIsFollowed
    
