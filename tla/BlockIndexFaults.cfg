CONSTANTS
    NBlocks = 2
    NumTx <- MCNumTx
    BlockCacheNumber = 2
    DownloadPool = 2
    ProcessPool = 2
    CheckPool = 1
    CheckGate = 2
    QueueMax = 2
    BulkNumber = 2
    StepNumber = 2
    MaxFaults <- MCFaults
    MaxKinds = 2
SPECIFICATION Spec
INVARIANTS TypeOK CompletedIsStored CheckedIsStored 
  
