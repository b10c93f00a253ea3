------------------------------ MODULE MCDebts ------------------------------
(* Instances of Debts for TLC. *)
EXTENDS Debts, TLC

CONSTANTS t1, t2, t3, d1, d2, e1, s1, s2

OneTx == {t1}
TwoTxs == {t1, t2}
ThreeTxs == {t1, t2, t3}
OneDebt == {d1}
TwoDebts == {d1, d2}
OneExpense == {e1}
OneSlot == {s1}
TwoSlots == {s1, s2}

(* At 300 percent a year a month's interest on 2 is half a unit, taken up,  *)
(* so that small balances pay interest.                                     *)
Symmetry == Permutations(Txs) \cup Permutations(DebtIds) \cup Permutations(Slots)
=============================================================================
