SPECIFICATION HooksSpec
CONSTANTS
    Subjects = {"totals", "chain", "holdings", "budgets"}
    None = None
    Null = NoValue
    Nil = Nothing
    a1 = a1  a2 = a2  i1 = i1  i2 = i2  h1 = h1  h2 = h2
    p1 = p1  p2 = p2  t1 = t1  t2 = t2  x1 = x1  e1 = e1  e2 = e2
    Accounts <- TwoAccounts
    Ids <- TwoIds
    ImportedIds <- OneImported
    Handlers <- TwoHandlers
    Types = {"EXPENSE", "TRANSFER"}
    Amounts = {3}
    Openings = {10}
    Requests = {"create", "update", "delete", "recalculate", "deleteImported"}
    Overlap = FALSE
    MaxFaults = 1
    ChainAccounts <- TwoAccounts
    ChainIds = {1, 2, 3}
    ChainDates = {1, 2}
    ChainAmounts = {1, 3}
    Opening = 10
    MaxSlips = 1
    Places <- TwoPlaces
    TradeIds <- TwoTrades
    TransferIds <- OneTransfer
    Quantities = {1, 2}
    Prices = {3}
    Fees = {0, 1}
    MaxRequests = 5
    Expenses <- TwoExpenses
    Sums = {2, 5}
    BudgetAmounts = {4}
    MaxDeaths = 1
SYMMETRY Symmetry
INVARIANTS
    HooksTypeOK
    
    LinksAreCovered
PROPERTIES
    ImplementsBook
    NextCreateHeals
    HoldingFollowsRows
    TransfersMoveCost
    OnlyTheUserLowers
