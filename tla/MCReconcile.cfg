SPECIFICATION Spec
CONSTANTS
    None = None
    h1 = h1  h2 = h2  t1 = t1  t2 = t2  r1 = r1  r2 = r2
    TxIds <- TwoTxIds
    RowIds <- TwoRowIds
    food = food  other = other
    Budgets = {food, other}
    Uncategorized = other
    Expenses <- WholeExpenses
    Dates = {1, 2}
    Lines <- TwoLines
    Files <- SmallAndLarge
    Endings <- Overdrawn
    Handlers = {h1}
    Overlap = {"match"}
    MaxFaults = 1
    MaxEdits = 2
CHECK_DEADLOCK FALSE
SYMMETRY Symmetry
INVARIANTS
    StoredAsPrinted
PROPERTIES
    CertifiedAtZero
    MergeIsNeutral
    AdjustmentBalances
    EvidenceIsKept
