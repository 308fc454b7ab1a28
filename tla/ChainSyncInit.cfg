CONSTANTS
    NBlocks = 3
    Parent <- Line
    Start = 2
    BackStep = 2
    TipStep = 2
    SyncFrom = 1
    Indexed = {}
    MaxInitFault = 1
    MaxFault = 0
    MaxScript = 0
    MaxStale = 0
SPECIFICATION Spec
PROPERTIES
    BackfillReachesGenesis
