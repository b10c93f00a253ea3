SPECIFICATION Spec
CONSTANTS
    t1 = t1  t2 = t2  t3 = t3  d1 = d1  d2 = d2  e1 = e1  s1 = s1  s2 = s2
    Txs <- ThreeTxs
    DebtIds <- OneDebt
    Expenses <- OneExpense
    Slots <- TwoSlots
    Amounts = {1, 5}
    Balances = {2}
    Frequencies = {"MONTHLY"}
    Apr = 30000
    Requests = {"create", "amount", "delete", "deleteAccount", "link", "edit", "wipe", "deleteDebt", "extra"}
    None = None
SYMMETRY Symmetry
INVARIANTS NeverUnderstated PaidOffOwesNothing
CHECK_DEADLOCK FALSE
