------------------------------ MODULE LegSums ------------------------------
(***************************************************************************)
(* Legs: what the rows of the Transaction table do to one account.         *)
(*                                                                         *)
(* db/src/balance.rs turns a row into at most two legs of an account: the  *)
(* row's effect on its source account (side 0) and, for a transfer, its    *)
(* effect on the account it pays into (side 1).  A leg carries the signed  *)
(* cents it applies (delta) and its place in the account's chain: the      *)
(* date, then the tie-break the SQL takes from createdAt and id.  The two  *)
(* tie-breaks are one number here: a row's id in the model is its rank     *)
(* among all rows in (createdAt, id) order.                                *)
(*                                                                         *)
(* The module is pure: no constants, no state.                             *)
(***************************************************************************)
EXTENDS Integers, FiniteSets, FiniteSetsExt

(* The signed total of a set of legs: the fold of rebuild_chain.           *)
SumDelta(legs) == MapThenSumSet(LAMBDA l : l.delta, legs)

(* ORDER BY date, created_at, id; a transfer to the same account puts two  *)
(* legs of one row on a tie, and the UNION ALL yields the source leg first.*)
Precedes(k, l) ==
    \/ k.date < l.date
    \/ k.date = l.date /\ k.id < l.id
    \/ k.date = l.date /\ k.id = l.id /\ k.side < l.side

(* The legs of the same account that come before l in its chain.           *)
Earlier(legs, l) == {k \in legs : Precedes(k, l)}

(* The value `running` holds when the walk of the chain reaches leg l.     *)
RunningAt(legs, opening, l) == opening + SumDelta(Earlier(legs, l))

(* A set of legs the walk may have written when it is cut short: the walk  *)
(* goes in chain order, so what it has written is closed under Precedes.   *)
IsWalkPrefix(done, legs) ==
    /\ done \subseteq legs
    /\ \A l \in done : Earlier(legs, l) \subseteq done
=============================================================================
