CONSTANTS
    NBlocks = 2
    NumTx <- MCNumTx
    BlockCacheNumber = 2
    DownloadPool = 1
    ProcessPool = 1
    CheckPool = 1
    CheckGate = 1
    QueueMax = 2
    BulkNumber = 2
    StepNumber = 2
    MaxFaults <- MCLive
    MaxKinds = 2
SPECIFICATION Spec
INVARIANTS CompletedIsRecoverable 
  
