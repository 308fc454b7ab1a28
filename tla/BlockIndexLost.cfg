CONSTANTS
    NBlocks = 2
    NumTx <- MCNumTx3
    BlockCacheNumber = 2
    DownloadPool = 2
    ProcessPool = 2
    CheckPool = 2
    CheckGate = 2
    QueueMax = 2
    BulkNumber = 2
    StepNumber = 2
    MaxFaults <- MCLost
    MaxKinds = 3
SPECIFICATION Spec
INVARIANTS DoubleCheckComplete
