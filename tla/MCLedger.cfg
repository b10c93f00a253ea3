SPECIFICATION MCSpec
CONSTANTS
    None = None
    Accounts = {a, b}
    TxIds = {1, 2}
    Types = {"TRANSFER", "TRADE"}
    Amounts = {3}
    Dates = {1, 2}
    Openings = {0, 10}
    EditKinds = {"put", "recalculate"}
    Editors = {h1, h2}
    MaxFaults = 2
SYMMETRY LedgerSymmetry
INVARIANTS
    TypeOK
    BalanceSound
    ChainSound
    LedgersAgree
