CONSTANTS
    Tx <- Rivals
    Coin <- OneCoin
    Ins <- RivalIns
    Outs <- RivalOuts
    NBlocks = 1
    Block <- RivalBlock
    Ageing = {}
    Source = {"zmq"}
    MaxFault = 1
    MaxEvict = 0
SPECIFICATION Spec
INVARIANTS
    TypeOK
    
    
    SpendIsHidden
    UnspentIsShown
PROPERTIES
    SpentIsMarked
