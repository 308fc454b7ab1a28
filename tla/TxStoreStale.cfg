CONSTANTS
    Tx <- One
    Coin <- OneCoin
    Ins <- OneIns
    Outs <- OneOuts
    NBlocks = 1
    Block <- OneBlock
    Ageing = {}
    Source = {"http"}
    MaxFault = 0
    MaxEvict = 0
SPECIFICATION Spec
PROPERTIES
    ConfirmedNeverDeleted
