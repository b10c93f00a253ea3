------------------------------- MODULE MCGate -------------------------------
(* An instance for TLC of what the TypeScript backend keeps beside its      *)
(* rows: the totals (Gate), the chain (Chain), the holdings (Holdings) and  *)
(* the linked budgets (BudgetLinks). None is read to write another, so the  *)
(* runs explore one of them at a time and never their product.              *)
EXTENDS Gate, Chain, Holdings, BudgetLinks, TLC

CONSTANTS a1, a2, i1, i2, h1, h2, p1, p2, t1, t2, x1, e1, e2, Subjects

TwoAccounts == {a1, a2}
TwoIds == {i1, i2}
OneImported == {i1}
TwoHandlers == {h1, h2}
TwoPlaces == {p1, p2}
TwoTrades == {t1, t2}
OneTransfer == {x1}
TwoExpenses == {e1, e2}

VARIABLE subject

HooksInit ==
    /\ Init /\ ChainInit /\ HoldingsInit /\ BudgetInit
    /\ subject \in Subjects
    /\ subject # "holdings" => asset = CHOOSE x \in {"STOCK", "BITCOIN"} : TRUE
    /\ subject # "budgets" =>
        /\ expenses \in {[e \in Expenses |-> CHOOSE x \in Expense : ~x.paused /\ ~x.archived /\ ~x.linked]}
        /\ version.amount = CHOOSE n \in BudgetAmounts : TRUE

TotalsNext == subject = "totals" /\ Next /\ UNCHANGED <<chainVars, holdingsVars, budgetVars>>
RunningNext == subject = "chain" /\ ChainNext /\ UNCHANGED <<vars, holdingsVars, budgetVars>>
UnitsNext ==
    /\ subject = "holdings"
    /\ HoldingsNext \/ (requests = MaxRequests /\ UNCHANGED holdingsVars)
    /\ UNCHANGED <<vars, chainVars, budgetVars>>
LinkedNext == subject = "budgets" /\ BudgetNext /\ UNCHANGED <<vars, chainVars, holdingsVars>>

HooksNext == (TotalsNext \/ RunningNext \/ UnitsNext \/ LinkedNext) /\ UNCHANGED subject

hooksVars == <<vars, chainVars, holdingsVars, budgetVars, subject>>

HooksSpec == HooksInit /\ [][HooksNext]_hooksVars

HooksTypeOK == TypeOK /\ ChainTypeOK /\ HoldingsTypeOK /\ BudgetTypeOK

Symmetry ==
    Permutations(Accounts) \cup Permutations(Handlers) \cup Permutations(Places)
        \cup Permutations(TradeIds) \cup Permutations(Expenses)
=============================================================================
