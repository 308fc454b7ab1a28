CONSTANTS
    k1 = k1
    k2 = k2
    Tx <- Two
    Key = {k1, k2}
    Table <- MCTable
    Pays <- MCPays
    NBlocks = 1
    Block <- MCBlock
    Mem = {1}
    Take = 2
    NPass = 2
    MaxAdd = 1
    MaxFaults <- MCFaults
    MaxKinds = 1
SPECIFICATION Spec
PROPERTIES PaymentIsTold
