SPECIFICATION Spec
CONSTANTS
    None = None
    t1 = t1  t2 = t2  h1 = h1  h2 = h2
    Workloads <- All
    MonthLength = 2
    MatchWindow = 2
    Weekly = FALSE
    WholeMonths = TRUE
SYMMETRY ScheduleSymmetry
INVARIANTS
    PaidHasPayment
    SettledWithinWindow
    RowsTellThePayment
PROPERTIES
    PaidBillStaysPaid
    HistoryIsKept
