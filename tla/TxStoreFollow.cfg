CONSTANTS
    Tx <- Two
    Coin <- OneCoin
    Ins <- DuelIns
    Outs <- DuelOuts
    NBlocks = 1
    Block <- FirstMined
    Ageing = {2}
    Source = {"sync"}
    MaxFault = 0
    MaxEvict = 1
SPECIFICATION Spec
PROPERTIES
    MempoolIsIndexed
    DroppedIsDeleted
