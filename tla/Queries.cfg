CONSTANTS
    N = 4
    Kind = {"utxo", "ft", "history", "blocks", "balance"}
    Height <- MCHeight
    Digits <- MCDigits
    PageSize = 2
    Writers = 2
    MaxChange = 3
SPECIFICATION Spec
INVARIANTS TypeOK  HistoryComplete HeightsComplete  BalanceExact
PROPERTIES ListEnds
