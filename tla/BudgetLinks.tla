----------------------------- MODULE BudgetLinks -----------------------------
(* A category budget and the expenses linked to it, as the TypeScript       *)
(* backend recomputes the one from the others (lib/budget-linking.ts, lib/  *)
(* expense-budget-recompute.ts, routes/budget-links.ts).                    *)
(*                                                                          *)
(* A route first commits its change and then reads everything and writes    *)
(* the budget: it may die in between, and where the recomputation is only   *)
(* triggered, a failure of it is logged and the request succeeds. Requests  *)
(* come one at a time. The budget is monthly; an expense is monthly or      *)
(* annual for good, its amount a multiple of twelve and the same in every   *)
(* month (no amountSchedule), so the calendar alone changes nothing here.   *)
EXTENDS Integers, FiniteSets, FiniteSetsExt

CONSTANTS
    Expenses,
    Sums,           \* amounts of an expense by the month
    BudgetAmounts,  \* amounts a user gives the budget
    MaxDeaths       \* bound on the recomputations that fail

ASSUME BudgetLinksAssumption ==
    /\ IsFiniteSet(Expenses)
    /\ Sums \subseteq Nat /\ BudgetAmounts \subseteq Nat /\ MaxDeaths \in Nat

VARIABLES
    expenses,  \* amount by the month, frequency, pausedUntil, archivedAt, link
    version,   \* the latest BudgetVersion
    mark,      \* CategoryBudget.highWaterMark
    due,       \* a request has committed its change and not yet recomputed
    behind,    \* history: what should have been recomputed was not
    deaths

budgetVars == <<expenses, version, mark, due, behind, deaths>>

Expense == [monthly : Sums, frequency : {"MONTHLY", "ANNUAL"}, paused : BOOLEAN, archived : BOOLEAN,
            linked : BOOLEAN]
Version == [amount : Nat, monthlyEquivalent : Nat, manualOverride : BOOLEAN]

LinkedNow == {e \in Expenses : expenses[e].linked}
ActiveLinks == {e \in LinkedNow : ~expenses[e].paused /\ ~expenses[e].archived}

(* computeDerivedBaseline.                                                  *)
Baseline == MapThenSumSet(LAMBDA e : expenses[e].monthly, ActiveLinks)

BudgetInit ==
    /\ expenses \in [Expenses -> {x \in Expense : ~x.paused /\ ~x.archived /\ ~x.linked}]
    /\ \E n \in BudgetAmounts :
        version = [amount |-> n, monthlyEquivalent |-> n, manualOverride |-> FALSE]
    /\ mark = 0 /\ due = FALSE /\ behind = FALSE /\ deaths = 0

----------------------------------------------------------------------------
(* The routes that change what a budget is derived from.                    *)
Commit(e, x) ==
    /\ ~due /\ expenses' = [expenses EXCEPT ![e] = x]
    /\ UNCHANGED <<version, mark, behind>>

(* POST and DELETE of a link.                                               *)
LinkExpense(e) ==
    /\ ~expenses[e].linked /\ due' = TRUE
    /\ Commit(e, [expenses[e] EXCEPT !.linked = TRUE]) /\ UNCHANGED deaths

UnlinkExpense(e) ==
    /\ expenses[e].linked /\ due' = TRUE
    /\ Commit(e, [expenses[e] EXCEPT !.linked = FALSE]) /\ UNCHANGED deaths

(* POST /links/bulk: the ones that are free, recomputed once.               *)
BulkLink ==
    /\ ~due /\ due' = TRUE
    /\ expenses' = [e \in Expenses |-> [expenses[e] EXCEPT !.linked = TRUE]]
    /\ UNCHANGED <<version, mark, behind, deaths>>

(* triggerBudgetRecompute: only what has a link is recomputed.              *)
Triggered(e, x) ==
    /\ due' = expenses[e].linked /\ UNCHANGED deaths
    /\ Commit(e, x)

EditExpense(e, n) == Triggered(e, [expenses[e] EXCEPT !.monthly = n])

Pause(e) == Triggered(e, [expenses[e] EXCEPT !.paused = TRUE])

(* Wrong: resuming recomputes nothing.                                      *)
ResumeUntriggered(e) ==
    /\ expenses[e].paused /\ due' = FALSE /\ UNCHANGED deaths
    /\ Commit(e, [expenses[e] EXCEPT !.paused = FALSE])

Resume(e) == expenses[e].paused /\ Triggered(e, [expenses[e] EXCEPT !.paused = FALSE])

Unarchive(e) == expenses[e].archived /\ Triggered(e, [expenses[e] EXCEPT !.archived = FALSE])

(* Archiving unlinks, in a later write that a death may prevent, and so the *)
(* trigger that follows finds no link.                                      *)
Archive(e) ==
    /\ ~expenses[e].archived /\ due' = FALSE
    /\ \/ /\ Commit(e, [expenses[e] EXCEPT !.archived = TRUE, !.linked = FALSE])
          /\ UNCHANGED deaths
       \/ /\ Commit(e, [expenses[e] EXCEPT !.archived = TRUE])
          /\ expenses[e].linked /\ deaths < MaxDeaths /\ deaths' = deaths + 1

(* PUT /category-budgets/:id: the user's own figure, taken as it is, in a   *)
(* version of the present month. The one it replaces is deleted before it   *)
(* is created, here in one step.                                            *)
SetBudget(n, manual) ==
    /\ ~due
    /\ version' = [amount |-> n, monthlyEquivalent |-> n, manualOverride |-> manual]
    /\ behind' = (n < Baseline)
    /\ UNCHANGED <<expenses, mark, due, deaths>>

----------------------------------------------------------------------------
(* Wrong: without the floor of the current figure.                          *)
EffectiveUnfloored == Max({Baseline, mark})

(* recomputeBudgetFromLinks.                                                *)
Effective == Max({Baseline, mark, version.monthlyEquivalent})

(* When every active link is monthly their amounts are summed as they are,  *)
(* and the floor under the sum is the old high-water mark alone.            *)
Native ==
    IF ActiveLinks # {} /\ \A e \in ActiveLinks : expenses[e].frequency = "MONTHLY"
    THEN Max({Baseline, mark})
    ELSE Effective

Recompute ==
    /\ due /\ due' = FALSE
    /\ IF LinkedNow = {} \/ version.manualOverride
       THEN UNCHANGED <<version, mark, behind>>
       ELSE /\ mark' = Effective
            /\ version' = [version EXCEPT !.amount = Native, !.monthlyEquivalent = Effective]
            /\ behind' = FALSE
    /\ UNCHANGED <<expenses, deaths>>

Fail ==
    /\ due /\ due' = FALSE /\ behind' = TRUE
    /\ deaths < MaxDeaths /\ deaths' = deaths + 1
    /\ UNCHANGED <<expenses, version, mark>>

BudgetNext ==
    \/ \E e \in Expenses :
        \/ LinkExpense(e) \/ UnlinkExpense(e) \/ Pause(e) \/ Resume(e) \/ Archive(e) \/ Unarchive(e)
        \/ \E n \in Sums : EditExpense(e, n)
    \/ BulkLink
    \/ \E n \in BudgetAmounts, manual \in BOOLEAN : SetBudget(n, manual)
    \/ Recompute \/ Fail

BudgetSpec == BudgetInit /\ [][BudgetNext]_budgetVars

----------------------------------------------------------------------------
BudgetTypeOK ==
    /\ expenses \in [Expenses -> Expense] /\ version \in Version
    /\ mark \in Nat /\ {due, behind} \subseteq BOOLEAN /\ deaths \in 0..MaxDeaths

(* Whichever route changed an expense or a link, and in whatever order, the *)
(* budget covers the active expenses linked to it: unless a recomputation   *)
(* failed since, or the user said otherwise.                                *)
LinksAreCovered ==
    due \/ behind \/ version.manualOverride \/ version.monthlyEquivalent >= Baseline

(* Expenses that come and go, are paused, archived or unlinked never lower  *)
(* the high-water mark or the budget by the month.                          *)
OnlyTheUserLowers ==
    [][/\ mark' >= mark
       /\ version'.monthlyEquivalent < version.monthlyEquivalent => expenses' = expenses /\ ~due]_budgetVars

(* "Use the current budget amount as a floor so linking a smaller expense   *)
(* doesn't reduce the budget".                                              *)
LinkingKeepsTheAmount ==
    [][due => version'.amount >= version.amount]_budgetVars
=============================================================================
