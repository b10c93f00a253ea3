----------------------------- MODULE MCReconcile -----------------------------
(* An instance of Reconcile for TLC: two lines of a statement, files that   *)
(* print the one once, twice, or both.                                      *)
EXTENDS Reconcile, TLC

CONSTANTS h1, h2, t1, t2, r1, r2, food, other

TwoTxIds == {t1, t2}
TwoRowIds == {r1, r2}

Overdrawn == {-3}

Whole(n, b) == [type |-> "EXPENSE", amount |-> n, date |-> 1, budget |-> b,
                shares |-> (food :> 0) @@ (other :> 0), stamped |-> FALSE]

WholeExpenses == {Whole(1, food), Whole(2, other)}
WithSplit == {Whole(1, food), [Whole(2, other) EXCEPT !.shares[food] = 1]}

Small == [posted |-> 1, amount |-> 1]
Large == [posted |-> 2, amount |-> 3]
TwoLines == {Small, Large}
SmallAndLarge == {(Small :> 2) @@ (Large :> 0), (Small :> 1) @@ (Large :> 1)}

(* Smaller, for two requests in flight: two small lines and one expense.    *)
OneExpense == {Whole(1, food)}
OneLine == {Small}
Twice == {Small :> 2}

Symmetry == Permutations(TxIds) \cup Permutations(RowIds) \cup Permutations(Handlers)
=============================================================================
