---------------------------- MODULE DebtsProofs ----------------------------
(***************************************************************************)
(* For every set of transactions, debts and overlapping extra payments,    *)
(* every rate and every payment frequency: a debt never shows less than    *)
(* what is owed less what is recorded as paid, and one that is marked paid *)
(* off owes nothing unless a user has said so.                             *)
(***************************************************************************)
EXTENDS Debts, SumsProofs

-----------------------------------------------------------------------------
(* The principal of a set of payments. *)

Principals(rows) == [p \in rows |-> p.principal]

LEMMA PrincipalIsSum ==
    ASSUME NEW rows
    PROVE  Principal(rows) = SumOf(Principals(rows), rows)
<1> DEFINE IsPrincipalSum(sum) ==
             sum = [T \in SUBSET rows |->
                      IF T = {} THEN 0
                      ELSE LET x == CHOOSE x \in T : TRUE IN x.principal + sum[T \ {x}]]
<1>1. Principal(rows) = (CHOOSE sum : IsPrincipalSum(sum))[rows]
  BY DEF Principal, MapThenSumSet, MapThenFoldSet
<1>2. ASSUME NEW sum PROVE IsSum(sum, Principals(rows), rows) <=> IsPrincipalSum(sum)
  <2>1. \A T \in SUBSET rows : T # {} =>
          Principals(rows)[CHOOSE x \in T : TRUE] = (CHOOSE x \in T : TRUE).principal
    BY DEF Principals
  <2>. QED BY <2>1 DEF IsSum
<1>3. (CHOOSE sum : IsSum(sum, Principals(rows), rows)) = (CHOOSE sum : IsPrincipalSum(sum))
  <2>. HIDE DEF IsPrincipalSum
  <2>. QED BY <1>2
<1>. QED BY <1>1, <1>3, SumIter

(* Finitely many payments, each of a principal in whole cents. *)
Paid(rows) == IsFiniteSet(rows) /\ \A p \in rows : p.principal \in Nat

LEMMA PrincipalType ==
    ASSUME NEW rows, Paid(rows)
    PROVE  Principal(rows) \in Nat
BY PrincipalIsSum, SumNat DEF Paid, Principals

LEMMA PrincipalRemove ==
    ASSUME NEW rows, Paid(rows), NEW q \in rows
    PROVE  Principal(rows) = q.principal + Principal(rows \ {q})
<1>1. SumOf(Principals(rows), rows) = Principals(rows)[q] + SumOf(Principals(rows), rows \ {q})
  BY SumRemove DEF Paid, Principals
<1>2. SumOf(Principals(rows), rows \ {q}) = SumOf(Principals(rows \ {q}), rows \ {q})
  BY SumFrame DEF Principals
<1>3. Principals(rows)[q] = q.principal
  BY DEF Principals
<1>. QED BY <1>1, <1>2, <1>3, PrincipalIsSum

LEMMA PrincipalAdd ==
    ASSUME NEW rows, Paid(rows), NEW q, q \notin rows, q.principal \in Nat
    PROVE  Principal(rows \cup {q}) = q.principal + Principal(rows)
<1>1. Paid(rows \cup {q}) /\ (rows \cup {q}) \ {q} = rows
  BY FS_AddElement DEF Paid
<1>2. Principal(rows \cup {q}) = q.principal + Principal((rows \cup {q}) \ {q})
  BY <1>1, PrincipalRemove
<1>. QED BY <1>1, <1>2

(* Renaming payments, no two to one, keeps the principal. *)
LEMMA PrincipalRename ==
    ASSUME NEW rows, Paid(rows), NEW h, \A p \in rows : h[p].principal = p.principal,
           \A p, q \in rows : h[p] = h[q] => p = q
    PROVE  Principal({h[p] : p \in rows}) = Principal(rows)
<1> DEFINE image == {h[p] : p \in rows}
           f == Principals(image)
           g == Principals(rows)
<1>1. \A p \in rows : g[p] \in Int /\ f[h[p]] = g[p]
  BY DEF Paid, Principals
<1>2. IsFiniteSet(rows)
  BY DEF Paid
<1>3. Principal(image) = SumOf(f, image) /\ Principal(rows) = SumOf(g, rows)
  BY PrincipalIsSum
<1>. HIDE DEF f, g
<1>4. SumOf(f, {h[p] : p \in rows}) = SumOf(g, rows)
  BY <1>1, <1>2, SumImage
<1>. QED BY <1>3, <1>4

(* The payments of one debt, and what one payment takes off it. *)
Of(rows, d) == {p \in rows : p.debt = d}
Share(q, d) == IF q.debt = d THEN q.principal ELSE 0

LEMMA PaidOfOne ==
    ASSUME NEW rows, Paid(rows), NEW d
    PROVE  Paid(Of(rows, d)) /\ Principal(Of(rows, d)) \in Nat
<1>1. Paid(Of(rows, d))
  BY FS_Subset DEF Paid, Of
<1>. QED BY <1>1, PrincipalType

(* A payment more, and one less. *)
LEMMA OfAdd ==
    ASSUME NEW rows, Paid(rows), NEW q, q \notin rows, q.principal \in Nat, NEW d
    PROVE  Principal(Of(rows \cup {q}, d)) =
             Principal(Of(rows, d)) + Share(q, d)
<1>1. Paid(Of(rows, d)) /\ Principal(Of(rows, d)) \in Nat /\ q \notin Of(rows, d)
  BY PaidOfOne DEF Of
<1>2. CASE q.debt = d
  <2> DEFINE one == Of(rows, d) \cup {q}
  <2>1. Of(rows \cup {q}, d) = one
    BY <1>2 DEF Of
  <2>2. Principal(one) = q.principal + Principal(Of(rows, d))
    BY <1>1, PrincipalAdd
  <2>3. Share(q, d) = q.principal
    BY <1>2 DEF Share
  <2>. HIDE DEF one
  <2>. QED BY <1>1, <2>1, <2>2, <2>3
<1>3. CASE q.debt # d
  <2>1. Of(rows \cup {q}, d) = Of(rows, d)
    BY <1>3 DEF Of
  <2>. QED BY <1>1, <1>3, <2>1 DEF Share
<1>. QED BY <1>2, <1>3

LEMMA OfRemove ==
    ASSUME NEW rows, Paid(rows), NEW q \in rows, NEW d
    PROVE  Principal(Of(rows, d)) = Principal(Of(rows \ {q}, d)) + Share(q, d)
<1> DEFINE rest == rows \ {q}
<1>1. Paid(rest) /\ q \notin rest /\ q.principal \in Nat /\ rest \cup {q} = rows
  BY FS_Subset DEF Paid
<1>. HIDE DEF rest
<1>2. Principal(Of(rest \cup {q}, d)) = Principal(Of(rest, d)) + Share(q, d)
  BY <1>1, OfAdd
<1>. QED BY <1>1, <1>2 DEF rest

LEMMA ShareType ==
    ASSUME NEW q \in DebtPayment, NEW d
    PROVE  /\ Share(q, d) \in Nat
           /\ q.debt = d => Share(q, d) = q.principal
           /\ q.debt # d => Share(q, d) = 0
BY DEF Share, DebtPayment

-----------------------------------------------------------------------------
(* The split of a payment. *)

LEMMA SplitType ==
    ASSUME NEW balance \in Nat, NEW amount \in Amounts, NEW frequency \in Frequencies
    PROVE  /\ Split(balance, amount, frequency).principal \in Nat
           /\ Split(balance, amount, frequency).interest \in Nat
<1> DEFINE periods == PeriodsPerYear[frequency]
           interest == Interest(balance, frequency)
<1>1. periods \in Nat \ {0}
  <2>1. frequency \in DOMAIN PeriodsPerYear
    BY DebtsAssumption
  <2>. QED BY <2>1 DEF PeriodsPerYear
<1>2. interest \in Nat
  <2>1. 2 * balance * Apr \in Nat
    <3>1. Apr \in Nat
      BY DebtsAssumption
    <3>. QED BY <3>1
  <2> DEFINE n == 2 * balance * Apr
             p == periods
  <2>2. Interest(balance, frequency) = (n + 10000 * p) \div (20000 * p)
    BY DEF Interest
  <2>3. n \in Nat /\ p \in Nat \ {0}
    BY <1>1, <2>1
  <2>. HIDE DEF n, p
  <2>4. n + 10000 * p \in Nat /\ 20000 * p \in Nat \ {0}
    BY <2>3
  <2>5. \A x \in Nat, y \in Nat \ {0} : x \div y \in Nat
    OBVIOUS
  <2>. QED BY <2>2, <2>4, <2>5
<1>3. amount \in Nat
  BY DebtsAssumption
<1>. HIDE DEF interest, periods
<1>4. Floor(amount - interest) \in Nat
  BY <1>2, <1>3 DEF Floor
<1>. QED BY <1>2, <1>4 DEF Split, interest

-----------------------------------------------------------------------------
(* The inductive invariant. *)

(* A payment's id is the transaction's it was made for, so no transaction   *)
(* has two and taking one back leaves no other that names the row; the      *)
(* transaction of an extra payment in progress has none yet.                *)
Posted(s) == extra[s].at = "posted"

PaymentsOnce ==
    /\ IsFiniteSet(payments)
    /\ \A p \in payments : p.id \in given /\ p.tx \in {p.id, None}
    /\ \A p, q \in payments : p.id = q.id => p = q

SlotsOnce ==
    /\ \A s \in Slots : Posted(s) =>
          extra[s].tx \in given /\ \A p \in payments : p.id # extra[s].tx
    /\ \A s, r \in Slots : Posted(s) /\ Posted(r) /\ extra[s].tx = extra[r].tx => s = r

IdsAreOnce == PaymentsOnce /\ SlotsOnce

IInv == TypeOK /\ IdsAreOnce /\ NeverUnderstated /\ PaidOffOwesNothing

LEMMA ExtraFacts ==
    ASSUME TypeOK, NEW s \in Slots
    PROVE  /\ extra[s].at \in {"none", "read", "posted"}
           /\ extra[s].at = "read" => /\ extra[s].debt \in DebtIds /\ extra[s].seen \in Nat
                                      /\ extra[s].frequency \in Frequencies
           /\ Posted(s) => /\ extra[s].debt \in DebtIds /\ extra[s].seen \in Nat
                           /\ extra[s].frequency \in Frequencies
                           /\ extra[s].tx \in Txs /\ extra[s].amount \in Amounts
<1>1. extra[s] \in Extra
  BY DEF TypeOK
<1>. QED BY <1>1 DEF Extra, NoExtra, Posted

LEMMA PaymentsArePaid ==
    ASSUME TypeOK, IdsAreOnce
    PROVE  Paid(payments)
BY DEF TypeOK, IdsAreOnce, PaymentsOnce, Paid, DebtPayment

LEMMA NoneIsNoTx == None \notin Txs /\ None \notin DebtIds /\ None \notin Expenses
BY DebtsAssumption

(* The debts after one of them has changed its balance and its flag.        *)
Changed(d, left, flag) == debts' = [debts EXCEPT ![d].balance = left, ![d].paidOff = flag]

LEMMA DebtsUpdate ==
    ASSUME TypeOK, NEW d \in DOMAIN debts, NEW left \in Nat, NEW flag \in BOOLEAN,
           Changed(d, left, flag)
    PROVE  /\ DOMAIN debts' = DOMAIN debts /\ debts' \in [DOMAIN debts' -> Debt]
           /\ debts'[d].balance = left /\ debts'[d].paidOff = flag
           /\ \A c \in DOMAIN debts \ {d} : debts'[c] = debts[c]
<1> DEFINE r == [debts[d] EXCEPT !.balance = left, !.paidOff = flag]
<1>1. debts \in [DOMAIN debts -> Debt]
  BY DEF TypeOK
<1>2. debts' = [debts EXCEPT ![d] = r]
  BY DEF Changed
<1>3. r \in Debt /\ r.balance = left /\ r.paidOff = flag
  <2>1. debts[d] \in Debt
    BY <1>1
  <2>. QED BY <2>1 DEF Debt
<1>. HIDE DEF r
<1>. QED BY <1>1, <1>2, <1>3

(* What recording the payment of transaction tx on debt d leaves.           *)
Recorded(q, left, tx, d, seen) ==
    /\ q \in DebtPayment /\ q.id = tx /\ q.tx = tx /\ q.debt = d
    /\ q \notin payments /\ payments' = payments \cup {q}
    /\ left \in Nat /\ left >= seen - q.principal
    /\ \E flag \in BOOLEAN : (flag <=> left = 0) /\ Changed(d, left, flag)
    /\ typed' = typed \ {d}

LEMMA PayFacts ==
    ASSUME TypeOK, IdsAreOnce, NEW tx \in Txs, NEW d \in DOMAIN debts, NEW seen \in Nat,
           NEW amount \in Amounts, NEW frequency \in Frequencies,
           Pay(tx, d, seen, amount, frequency),
           \A p \in payments : p.id # tx
    PROVE  \E q, left : Recorded(q, left, tx, d, seen)
<1> DEFINE split == Split(seen, amount, frequency)
           left == Floor(seen - split.principal)
           q == [id |-> tx, tx |-> tx, debt |-> d,
                 principal |-> split.principal, interest |-> split.interest]
<1>1. split.principal \in Nat /\ split.interest \in Nat
  BY SplitType
<1>2. /\ payments' = payments \cup {q}
      /\ Changed(d, left, left = 0)
      /\ typed' = typed \ {d}
  BY DEF Pay, Changed
<1>3. d \in DebtIds
  BY DEF TypeOK
<1>. HIDE DEF split
<1>4. q \in DebtPayment /\ q.id = tx /\ q.tx = tx /\ q.debt = d /\ q.principal = split.principal
  BY <1>1, <1>3 DEF DebtPayment
<1>5. left \in Nat /\ left >= seen - split.principal
  BY <1>1 DEF Floor
<1>6. q \notin payments
  BY <1>4
<1>. HIDE DEF q, left
<1>7. \E flag \in BOOLEAN : (flag <=> left = 0) /\ Changed(d, left, flag)
  <2> DEFINE flag == (left = 0)
  <2>1. flag \in BOOLEAN /\ (flag <=> left = 0) /\ Changed(d, left, flag)
    BY <1>2
  <2>. HIDE DEF flag
  <2>. QED BY <2>1
<1>8. Recorded(q, left, tx, d, seen)
  BY <1>2, <1>4, <1>5, <1>6, <1>7 DEF Recorded
<1>. QED BY <1>8

(* Recording a payment keeps everything but, perhaps, what the debt it is   *)
(* made on is said to owe: the two callers of Pay treat that differently.   *)
IsFor(p, tx, d) == p \in DebtPayment /\ p.id = tx /\ p.tx = tx /\ p.debt = d

PaidFor(tx, d, seen) ==
    /\ DOMAIN debts' = DOMAIN debts /\ debts' \in [DOMAIN debts' -> Debt]
    /\ typed' \subseteq DOMAIN debts'
    /\ \A p \in payments' : p \in payments \/ IsFor(p, tx, d)
    /\ IsFiniteSet(payments')
    /\ \A p, q \in payments' : p.id = q.id => p = q
    /\ PaidOffOwesNothing'
    /\ \A c \in DOMAIN debts' \ {d} :
          debts'[c].balance = debts[c].balance /\ PaidOn(c)' = PaidOn(c)
    /\ PaidOn(d)' \in Nat
    /\ debts'[d].balance + PaidOn(d)' >= seen + PaidOn(d)

LEMMA PaidOnType ==
    ASSUME TypeOK, IdsAreOnce, NEW d
    PROVE  PaidOn(d) \in Nat /\ PaidOn(d) = Principal(Of(payments, d))
<1>1. PaidOn(d) = Principal(Of(payments, d))
  BY DEF PaidOn, Of
<1>. QED BY <1>1, PaymentsArePaid, PaidOfOne

LEMMA PayKeeps ==
    ASSUME TypeOK, IdsAreOnce, PaidOffOwesNothing,
           NEW tx \in Txs, NEW d \in DOMAIN debts, NEW seen \in Nat,
           NEW amount \in Amounts, NEW frequency \in Frequencies,
           Pay(tx, d, seen, amount, frequency), \A p \in payments : p.id # tx
    PROVE  PaidFor(tx, d, seen)
<1>1. PICK q, left : Recorded(q, left, tx, d, seen)
  BY PayFacts
<1>. /\ q \in DebtPayment /\ q.id = tx /\ q.tx = tx /\ q.debt = d /\ q \notin payments
     /\ payments' = payments \cup {q} /\ left \in Nat /\ left >= seen - q.principal
     /\ typed' = typed \ {d}
  BY <1>1 DEF Recorded
<1>2. PICK flag \in BOOLEAN : (flag <=> left = 0) /\ Changed(d, left, flag)
  BY <1>1 DEF Recorded
<1>3. /\ DOMAIN debts' = DOMAIN debts /\ debts' \in [DOMAIN debts' -> Debt]
      /\ debts'[d].balance = left /\ debts'[d].paidOff = flag
      /\ \A c \in DOMAIN debts \ {d} : debts'[c] = debts[c]
  BY <1>2, DebtsUpdate
<1>4. typed' \subseteq DOMAIN debts'
  BY <1>3 DEF TypeOK
<1>5. IsFiniteSet(payments')
  BY FS_AddElement DEF IdsAreOnce, PaymentsOnce
<1>6. \A p, r \in payments' : p.id = r.id => p = r
  BY DEF IdsAreOnce, PaymentsOnce
<1>7. PaidOffOwesNothing'
  <2>1. ASSUME NEW c \in DOMAIN debts' \ typed', debts'[c].paidOff PROVE debts'[c].balance = 0
    <3>1. CASE c = d
      BY <1>2, <1>3, <2>1, <3>1
    <3>2. CASE c # d
      BY <1>3, <2>1, <3>2 DEF PaidOffOwesNothing
    <3>. QED BY <3>1, <3>2
  <2>. QED BY <2>1 DEF PaidOffOwesNothing
<1>8. Paid(payments) /\ q.principal \in Nat
  BY PaymentsArePaid DEF DebtPayment
<1>9. ASSUME NEW c PROVE PaidOn(c)' = PaidOn(c) + Share(q, c)
  <2>1. PaidOn(c) = Principal(Of(payments, c)) /\ PaidOn(c)' = Principal(Of(payments', c))
    BY DEF PaidOn, Of
  <2>2. Principal(Of(payments \cup {q}, c)) = Principal(Of(payments, c)) + Share(q, c)
    BY <1>8, OfAdd
  <2>. QED BY <2>1, <2>2
<1>10. \A c \in DOMAIN debts' \ {d} :
          debts'[c].balance = debts[c].balance /\ PaidOn(c)' = PaidOn(c)
  <2>1. ASSUME NEW c \in DOMAIN debts' \ {d} PROVE PaidOn(c)' = PaidOn(c)
    BY <1>9, PaidOnType, ShareType
  <2>. QED BY <1>3, <2>1
<1>11. PaidOn(d)' = PaidOn(d) + q.principal /\ PaidOn(d) \in Nat
  BY <1>9, PaidOnType, ShareType
<1>12. debts'[d].balance + PaidOn(d)' >= seen + PaidOn(d)
  BY <1>3, <1>8, <1>11
<1>14. PaidOn(d)' \in Nat
  BY <1>8, <1>11
<1>13. \A p \in payments' : p \in payments \/ IsFor(p, tx, d)
  BY DEF IsFor
<1>. QED BY <1>3, <1>4, <1>5, <1>6, <1>7, <1>10, <1>12, <1>13, <1>14 DEF PaidFor

-----------------------------------------------------------------------------
(* Steps that take a payment. *)

LEMMA AddFacts ==
    ASSUME NEW f, NEW S, f \in [DOMAIN f -> S], NEW x, NEW v \in S
    PROVE  /\ DOMAIN Add(f, x, v) = DOMAIN f \cup {x}
           /\ Add(f, x, v) \in [DOMAIN f \cup {x} -> S]
           /\ Add(f, x, v)[x] = v
           /\ \A y \in DOMAIN f \ {x} : Add(f, x, v)[y] = f[y]
BY DEF Add

LEMMA DropFacts ==
    ASSUME NEW f, NEW S, f \in [DOMAIN f -> S], NEW X
    PROVE  /\ DOMAIN Drop(f, X) = DOMAIN f \ X
           /\ Drop(f, X) \in [DOMAIN f \ X -> S]
           /\ \A y \in DOMAIN f \ X : Drop(f, X)[y] = f[y]
BY DEF Drop

(* The transactions, whatever becomes of the debts. *)
TxsOK ==
    /\ given \subseteq Txs \cup DebtIds
    /\ DOMAIN txs \subseteq given \cap Txs
    /\ txs \in [DOMAIN txs -> Transaction]

(* Recording a payment, whatever the route, keeps the invariant: the figure *)
(* that counts as owed is the one there was, or the one written over it.    *)
LEMMA PaidStep ==
    ASSUME IInv, NEW tx \in Txs, NEW d \in DOMAIN debts, NEW seen, PaidFor(tx, d, seen),
           TxsOK', given \subseteq given', DOMAIN txs \subseteq DOMAIN txs',
           tx \in DOMAIN txs', tx \in given',
           extra' \in [Slots -> Extra],
           \A s \in Slots : Posted(s)' => Posted(s) /\ extra'[s] = extra[s] /\ extra[s].tx # tx,
           owed' \in [DOMAIN debts -> Nat],
           \A c \in DOMAIN debts \ {d} : owed'[c] = owed[c],
           debts'[d].balance + PaidOn(d)' >= owed'[d]
    PROVE  IInv'
<1>. TypeOK /\ IdsAreOnce /\ PaymentsOnce /\ SlotsOnce /\ NeverUnderstated
  BY DEF IInv, IdsAreOnce
<1>1. /\ DOMAIN debts' = DOMAIN debts /\ debts' \in [DOMAIN debts' -> Debt]
      /\ typed' \subseteq DOMAIN debts'
      /\ IsFiniteSet(payments')
      /\ \A p, q \in payments' : p.id = q.id => p = q
      /\ PaidOffOwesNothing'
  BY DEF PaidFor
<1>2. \A p \in payments' : p \in payments \/ IsFor(p, tx, d)
  BY DEF PaidFor
<1>3. TypeOK'
  <2>1. \A p \in payments' : /\ p \in DebtPayment
                              /\ p.tx \in DOMAIN txs' \cup {None}
                              /\ p.debt \in DOMAIN debts'
    BY <1>1, <1>2 DEF TypeOK, IsFor
  <2>2. DOMAIN debts' \subseteq given' \cap DebtIds
    BY <1>1 DEF TypeOK
  <2>. QED BY <1>1, <2>1, <2>2 DEF TypeOK, TxsOK
<1>4. PaymentsOnce'
  BY <1>1, <1>2 DEF PaymentsOnce, IsFor
<1>5. SlotsOnce'
  <2>1. ASSUME NEW s \in Slots, Posted(s)'
        PROVE  extra'[s].tx \in given' /\ \A p \in payments' : p.id # extra'[s].tx
    <3>1. Posted(s) /\ extra'[s].tx = extra[s].tx /\ extra[s].tx # tx
      BY <2>1
    <3>2. extra[s].tx \in given /\ \A p \in payments : p.id # extra[s].tx
      BY <3>1 DEF SlotsOnce
    <3>. QED BY <1>2, <3>1, <3>2 DEF IsFor
  <2>2. ASSUME NEW s \in Slots, NEW r \in Slots, Posted(s)', Posted(r)', extra'[s].tx = extra'[r].tx
        PROVE  s = r
    <3>1. Posted(s) /\ Posted(r) /\ extra[s].tx = extra[r].tx
      BY <2>2
    <3>. QED BY <3>1 DEF SlotsOnce
  <2>. QED BY <2>1, <2>2 DEF SlotsOnce
<1>6. NeverUnderstated'
  <2>1. ASSUME NEW c \in DOMAIN debts' PROVE debts'[c].balance >= owed'[c] - PaidOn(c)'
    <3>1. PaidOn(c)' \in Nat /\ PaidOn(c) \in Nat
      <4>1. PaidOn(c) \in Nat
        BY PaidOnType
      <4>2. CASE c = d
        BY <4>1, <4>2 DEF PaidFor
      <4>3. CASE c # d
        BY <1>1, <4>1, <4>3 DEF PaidFor
      <4>. QED BY <4>1, <4>2, <4>3
    <3>2. debts'[c].balance \in Nat /\ owed'[c] \in Nat
      BY <1>1 DEF Debt
    <3>3. CASE c = d
      BY <3>1, <3>2, <3>3
    <3>4. CASE c # d
      <4>1. debts'[c].balance = debts[c].balance /\ PaidOn(c)' = PaidOn(c)
        BY <3>4 DEF PaidFor
      <4>2. owed'[c] = owed[c] /\ c \in DOMAIN debts
        BY <1>1, <3>4
      <4>3. debts[c].balance >= owed[c] - PaidOn(c)
        BY <4>2 DEF NeverUnderstated
      <4>. QED BY <4>1, <4>2, <4>3
    <3>. QED BY <3>3, <3>4
  <2>. QED BY <2>1 DEF NeverUnderstated
<1>. QED BY <1>1, <1>3, <1>4, <1>5, <1>6 DEF IInv, IdsAreOnce

(* A step that touches no payment and no debt.                              *)
LEMMA QuietStep ==
    ASSUME IInv, UNCHANGED <<payments, debts, typed, owed>>,
           TxsOK', given \subseteq given', DOMAIN txs \subseteq DOMAIN txs',
           extra' \in [Slots -> Extra], SlotsOnce'
    PROVE  IInv'
<1>. TypeOK /\ PaymentsOnce
  BY DEF IInv, IdsAreOnce
<1>1. TypeOK'
  BY DEF TypeOK, TxsOK
<1>2. PaymentsOnce'
  BY DEF PaymentsOnce
<1>3. NeverUnderstated' /\ PaidOffOwesNothing'
  BY DEF IInv, NeverUnderstated, PaidOffOwesNothing, PaidOn
<1>. QED BY <1>1, <1>2, <1>3 DEF IInv, IdsAreOnce

(* A new transaction is of an id no row and no slot has.                    *)
LEMMA Fresh ==
    ASSUME IInv, NEW tx, tx \notin given
    PROVE  /\ \A p \in payments : p.id # tx
           /\ \A s \in Slots : Posted(s) => extra[s].tx # tx
BY DEF IInv, IdsAreOnce, PaymentsOnce, SlotsOnce

LEMMA CreateStep ==
    ASSUME IInv, NEW tx \in Txs, NEW amount \in Amounts, NEW expense \in Expenses \cup {None},
           Create(tx, amount, expense)
    PROVE  IInv'
<1>. TypeOK /\ SlotsOnce /\ IdsAreOnce /\ PaidOffOwesNothing
  BY DEF IInv, IdsAreOnce
<1>1. /\ tx \notin given /\ given' = given \cup {tx}
      /\ txs' = Add(txs, tx, [amount |-> amount, expense |-> expense])
      /\ OnCreated(tx, expense, amount) /\ UNCHANGED <<extra, owed>>
  BY DEF Create
<1>2. TxsOK' /\ tx \in DOMAIN txs' /\ DOMAIN txs \subseteq DOMAIN txs'
  <2>1. [amount |-> amount, expense |-> expense] \in Transaction
    BY DEF Transaction
  <2>2. txs \in [DOMAIN txs -> Transaction]
    BY DEF TypeOK
  <2>3. DOMAIN txs' = DOMAIN txs \cup {tx} /\ txs' \in [DOMAIN txs \cup {tx} -> Transaction]
    BY <1>1, <2>1, <2>2, AddFacts, ZenonT(40)
  <2>. QED BY <1>1, <2>3 DEF TypeOK, TxsOK
<1>3. extra' \in [Slots -> Extra]
  BY <1>1 DEF TypeOK
<1>4. CASE UNCHANGED <<payments, debts, typed>>
  <2>1. SlotsOnce'
    BY <1>1, <1>4 DEF SlotsOnce, Posted
  <2>. QED BY <1>1, <1>2, <1>3, <1>4, <2>1, QuietStep
<1>5. CASE \E d \in DOMAIN debts : Pay(tx, d, debts[d].balance, amount, "MONTHLY")
  <2>1. PICK d \in DOMAIN debts : Pay(tx, d, debts[d].balance, amount, "MONTHLY")
    BY <1>5
  <2>2. debts[d].balance \in Nat /\ "MONTHLY" \in Frequencies
    BY DebtsAssumption DEF TypeOK, Debt
  <2>3. \A p \in payments : p.id # tx
    BY <1>1, Fresh
  <2> DEFINE seen == debts[d].balance
  <2>4. PaidFor(tx, d, seen)
    BY <2>1, <2>2, <2>3, PayKeeps
  <2>5. debts'[d].balance + PaidOn(d)' >= seen + PaidOn(d)
    BY <2>4 DEF PaidFor
  <2>6. owed' \in [DOMAIN debts -> Nat] /\ \A c \in DOMAIN debts \ {d} : owed'[c] = owed[c]
    BY <1>1 DEF TypeOK
  <2>7. debts'[d].balance + PaidOn(d)' >= owed'[d]
    <3>1. seen >= owed[d] - PaidOn(d) /\ PaidOn(d) \in Nat /\ seen \in Nat
      BY <2>2, PaidOnType DEF IInv, NeverUnderstated
    <3>2. owed'[d] = owed[d] /\ owed[d] \in Nat
      BY <1>1 DEF TypeOK
    <3>3. debts'[d].balance \in Nat
      <4>1. DOMAIN debts' = DOMAIN debts /\ debts' \in [DOMAIN debts' -> Debt]
        BY <2>4 DEF PaidFor
      <4>. QED BY <4>1 DEF Debt
    <3>4. PaidOn(d)' \in Nat
      BY <2>4 DEF PaidFor
    <3>. HIDE DEF seen
    <3>. QED BY <2>5, <3>1, <3>2, <3>3, <3>4
  <2>8. \A s \in Slots : Posted(s)' => Posted(s) /\ extra'[s] = extra[s] /\ extra[s].tx # tx
    BY <1>1, Fresh DEF Posted
  <2>. HIDE DEF seen
  <2>. QED BY <1>1, <1>2, <1>3, <2>4, <2>6, <2>7, <2>8, PaidStep
<1>. QED BY <1>1, <1>4, <1>5 DEF OnCreated
LEMMA ExtraReadStep ==
    ASSUME IInv, NEW s \in Slots, NEW d \in DebtIds, ExtraRead(s, d)
    PROVE  IInv'
<1>. TypeOK /\ SlotsOnce
  BY DEF IInv, IdsAreOnce
<1> DEFINE e == [at |-> "read", debt |-> d, seen |-> debts[d].balance,
                 frequency |-> debts[d].frequency]
<1>1. extra' = [extra EXCEPT ![s] = e] /\ UNCHANGED <<txs, payments, debts, given, typed, owed>>
  BY DEF ExtraRead
<1>2. e \in Extra /\ e.at # "posted"
  <2>1. debts[d].balance \in Nat /\ debts[d].frequency \in Frequencies
    BY DEF ExtraRead, TypeOK, Debt
  <2>. QED BY <2>1 DEF Extra
<1>. HIDE DEF e
<1>3. extra' \in [Slots -> Extra]
  BY <1>1, <1>2 DEF TypeOK
<1>4. \A r \in Slots : Posted(r)' => Posted(r) /\ extra'[r] = extra[r]
  <2>1. extra \in [Slots -> Extra]
    BY DEF TypeOK
  <2>. QED BY <1>1, <1>2, <2>1 DEF Posted
<1>5. SlotsOnce'
  BY <1>1, <1>4 DEF SlotsOnce
<1>6. TxsOK'
  BY <1>1 DEF TypeOK, TxsOK
<1>. QED BY <1>1, <1>3, <1>5, <1>6, QuietStep

LEMMA ExtraPostStep ==
    ASSUME IInv, NEW s \in Slots, NEW tx \in Txs, NEW amount \in Amounts, ExtraPost(s, tx, amount)
    PROVE  IInv'
<1>. TypeOK /\ SlotsOnce
  BY DEF IInv, IdsAreOnce
<1> DEFINE e == [at |-> "posted", debt |-> extra[s].debt, seen |-> extra[s].seen,
                 frequency |-> extra[s].frequency, tx |-> tx, amount |-> amount]
<1>1. /\ tx \notin given /\ given' = given \cup {tx}
      /\ txs' = Add(txs, tx, [amount |-> amount, expense |-> None])
      /\ extra' = [extra EXCEPT ![s] = e]
      /\ UNCHANGED <<payments, debts, typed, owed>>
  BY DEF ExtraPost
<1>2. e \in Extra /\ e.tx = tx
  <2>1. /\ extra[s].debt \in DebtIds /\ extra[s].seen \in Nat
        /\ extra[s].frequency \in Frequencies
    BY ExtraFacts DEF ExtraPost
  <2>. QED BY <2>1 DEF Extra
<1>. HIDE DEF e
<1>3. extra \in [Slots -> Extra] /\ extra' \in [Slots -> Extra]
  BY <1>1, <1>2 DEF TypeOK
<1>4. ASSUME NEW r \in Slots, Posted(r)', r # s PROVE Posted(r) /\ extra'[r].tx = extra[r].tx
  BY <1>1, <1>3, <1>4 DEF Posted
<1>5. extra'[s].tx = tx
  BY <1>1, <1>2, <1>3
<1>6. SlotsOnce'
  <2>1. ASSUME NEW r \in Slots, Posted(r)'
        PROVE  extra'[r].tx \in given' /\ \A p \in payments' : p.id # extra'[r].tx
    <3>1. CASE r = s
      BY <1>1, <1>5, <3>1, Fresh
    <3>2. CASE r # s
      <4>1. Posted(r) /\ extra'[r].tx = extra[r].tx
        BY <1>4, <2>1, <3>2
      <4>2. extra[r].tx \in given /\ \A p \in payments : p.id # extra[r].tx
        BY <4>1 DEF SlotsOnce
      <4>. QED BY <1>1, <4>1, <4>2
    <3>. QED BY <3>1, <3>2
  <2>2. ASSUME NEW r \in Slots, NEW u \in Slots, Posted(r)', Posted(u)', extra'[r].tx = extra'[u].tx
        PROVE  r = u
    <3>1. ASSUME NEW x \in Slots, Posted(x)', x # s PROVE extra'[x].tx # tx
      BY <1>1, <1>4, <3>1, Fresh
    <3>2. CASE r = s \/ u = s
      BY <1>5, <2>2, <3>1, <3>2
    <3>3. CASE r # s /\ u # s
      <4>1. Posted(r) /\ Posted(u) /\ extra[r].tx = extra[u].tx
        BY <1>4, <2>2, <3>3
      <4>. QED BY <4>1 DEF SlotsOnce
    <3>. QED BY <3>2, <3>3
  <2>. QED BY <2>1, <2>2 DEF SlotsOnce
<1>7. TxsOK' /\ DOMAIN txs \subseteq DOMAIN txs'
  <2>1. [amount |-> amount, expense |-> None] \in Transaction
    BY DEF Transaction
  <2>2. txs \in [DOMAIN txs -> Transaction]
    BY DEF TypeOK
  <2>3. DOMAIN txs' = DOMAIN txs \cup {tx} /\ txs' \in [DOMAIN txs \cup {tx} -> Transaction]
    BY <1>1, <2>1, <2>2, AddFacts, ZenonT(40)
  <2>. QED BY <1>1, <2>3 DEF TypeOK, TxsOK
<1>. QED BY <1>1, <1>3, <1>6, <1>7, QuietStep

LEMMA ExtraRecordStep ==
    ASSUME IInv, NEW s \in Slots, ExtraRecord(s)
    PROVE  IInv'
<1>. TypeOK /\ SlotsOnce /\ IdsAreOnce /\ PaidOffOwesNothing
  BY DEF IInv, IdsAreOnce
<1>0. \E d, tx, seen, amount : d = extra[s].debt /\ tx = extra[s].tx
                              /\ seen = extra[s].seen /\ amount = extra[s].amount
  OBVIOUS
<1>. PICK d, tx, seen, amount : d = extra[s].debt /\ tx = extra[s].tx
                              /\ seen = extra[s].seen /\ amount = extra[s].amount
  BY <1>0
<1>1. Posted(s) /\ extra' = [extra EXCEPT ![s] = NoExtra] /\ UNCHANGED <<txs, given>>
  BY DEF ExtraRecord, Posted
<1>2. extra' \in [Slots -> Extra]
  BY <1>1 DEF TypeOK, Extra
<1>3. \A r \in Slots : Posted(r)' => Posted(r) /\ extra'[r] = extra[r] /\ extra[r].tx # tx
  <2>1. extra \in [Slots -> Extra]
    BY DEF TypeOK
  <2>2. ASSUME NEW r \in Slots, Posted(r)' PROVE r # s /\ Posted(r) /\ extra'[r] = extra[r]
    BY <1>1, <2>1, <2>2 DEF Posted, NoExtra
  <2>. QED BY <1>1, <2>2 DEF SlotsOnce
<1>4. TxsOK'
  BY <1>1 DEF TypeOK, TxsOK
<1>5. CASE d \in DOMAIN debts /\ tx \in DOMAIN txs
  <2>1. /\ Pay(tx, d, seen, amount, extra[s].frequency)
        /\ owed' = IF seen = debts[d].balance THEN owed
                    ELSE [owed EXCEPT ![d] = debts'[d].balance
                                               + Principal({p \in payments' : p.debt = d})]
    BY <1>5 DEF ExtraRecord
  <2>2. seen \in Nat /\ tx \in Txs /\ amount \in Amounts /\ tx \in given
    BY <1>1, ExtraFacts DEF SlotsOnce
  <2>3. extra[s].frequency \in Frequencies /\ debts[d].balance \in Nat
    BY <1>1, <1>5, ExtraFacts DEF TypeOK, Debt
  <2>4. \A p \in payments : p.id # tx
    BY <1>1 DEF SlotsOnce
  <2>5. PaidFor(tx, d, seen)
    BY <1>5, <2>1, <2>2, <2>3, <2>4, PayKeeps
  <2>6. /\ debts'[d].balance \in Nat /\ PaidOn(d)' \in Nat
        /\ debts'[d].balance + PaidOn(d)' >= seen + PaidOn(d)
    <3>1. DOMAIN debts' = DOMAIN debts /\ debts' \in [DOMAIN debts' -> Debt]
      BY <2>5 DEF PaidFor
    <3>. QED BY <1>5, <2>5, <3>1 DEF PaidFor, Debt
  <2>7. owed \in [DOMAIN debts -> Nat]
    BY DEF TypeOK
  <2>8. PaidOn(d)' = Principal({p \in payments' : p.debt = d})
    BY DEF PaidOn
  <2>9. CASE seen = debts[d].balance
    <3>1. owed' = owed
      BY <2>1, <2>9
    <3>2. seen >= owed[d] - PaidOn(d) /\ PaidOn(d) \in Nat
      BY <1>5, <2>9, PaidOnType DEF IInv, NeverUnderstated
    <3>3. debts'[d].balance + PaidOn(d)' >= owed'[d]
      BY <1>5, <2>2, <2>6, <2>7, <3>1, <3>2
    <3>4. owed' \in [DOMAIN debts -> Nat] /\ \A c \in DOMAIN debts \ {d} : owed'[c] = owed[c]
      BY <2>7, <3>1
    <3>. QED BY <1>1, <1>2, <1>3, <1>4, <1>5, <2>2, <2>5, <3>3, <3>4, PaidStep
  <2>10. CASE seen # debts[d].balance
    <3> DEFINE v == debts'[d].balance + PaidOn(d)'
    <3>1. owed' = [owed EXCEPT ![d] = v]
      BY <2>1, <2>8, <2>10
    <3>2. v \in Nat
      BY <2>6
    <3>3. owed' \in [DOMAIN debts -> Nat] /\ \A c \in DOMAIN debts \ {d} : owed'[c] = owed[c]
      <4>. HIDE DEF v
      <4>. QED BY <2>7, <3>1, <3>2
    <3>4. owed'[d] = v
      BY <1>5, <2>7, <3>1
    <3>5. debts'[d].balance + PaidOn(d)' >= owed'[d]
      BY <3>2, <3>4
    <3>. HIDE DEF v
    <3>. QED BY <1>1, <1>2, <1>3, <1>4, <1>5, <2>2, <2>5, <3>3, <3>5, PaidStep
  <2>. QED BY <2>9, <2>10
<1>6. CASE ~(d \in DOMAIN debts /\ tx \in DOMAIN txs)
  <2>1. UNCHANGED <<payments, debts, typed, owed>>
    BY <1>6 DEF ExtraRecord
  <2>2. SlotsOnce'
    BY <1>1, <1>3, <2>1 DEF SlotsOnce
  <2>. QED BY <1>1, <1>2, <1>4, <2>1, <2>2, QuietStep
<1>. QED BY <1>5, <1>6

-----------------------------------------------------------------------------
(* Steps that give a payment back, or change the transactions only.         *)

LEMMA SetAmountStep ==
    ASSUME IInv, NEW tx \in Txs, NEW amount \in Amounts, SetAmount(tx, amount)
    PROVE  IInv'
<1>. TypeOK /\ SlotsOnce
  BY DEF IInv, IdsAreOnce
<1>1. TxsOK' /\ DOMAIN txs' = DOMAIN txs
  BY DEF SetAmount, TypeOK, TxsOK, Transaction
<1>2. extra' \in [Slots -> Extra] /\ SlotsOnce'
  BY DEF SetAmount, TypeOK, SlotsOnce, Posted
<1>. QED BY <1>1, <1>2, QuietStep DEF SetAmount

LEMMA LinkStep ==
    ASSUME IInv, NEW tx \in Txs, NEW expense \in Expenses, Link(tx, expense)
    PROVE  IInv'
<1>. TypeOK /\ SlotsOnce
  BY DEF IInv, IdsAreOnce
<1>1. TxsOK' /\ DOMAIN txs' = DOMAIN txs
  BY DEF Link, TypeOK, TxsOK, Transaction
<1>2. extra' \in [Slots -> Extra] /\ SlotsOnce'
  BY DEF Link, TypeOK, SlotsOnce, Posted
<1>. QED BY <1>1, <1>2, QuietStep DEF Link

(* The slots are as before when no payment of another id has appeared.      *)
LEMMA SlotsStay ==
    ASSUME SlotsOnce, extra' = extra, given \subseteq given',
           \A p \in payments' : \E q \in payments : p.id = q.id
    PROVE  SlotsOnce'
<1>1. \A s \in Slots : Posted(s)' <=> Posted(s)
  BY DEF Posted
<1>2. ASSUME NEW s \in Slots, Posted(s)'
      PROVE  extra'[s].tx \in given' /\ \A p \in payments' : p.id # extra'[s].tx
  BY <1>1, <1>2 DEF SlotsOnce
<1>3. ASSUME NEW s \in Slots, NEW r \in Slots, Posted(s)', Posted(r)', extra'[s].tx = extra'[r].tx
      PROVE  s = r
  BY <1>1, <1>3 DEF SlotsOnce
<1>. QED BY <1>2, <1>3 DEF SlotsOnce

LEMMA DeleteTxStep ==
    ASSUME IInv, NEW tx \in Txs, DeleteTx(tx)
    PROVE  IInv'
<1>. TypeOK /\ SlotsOnce /\ PaymentsOnce /\ IdsAreOnce /\ PaidOffOwesNothing /\ NeverUnderstated
  BY DEF IInv, IdsAreOnce
<1>1. txs' = Drop(txs, {tx}) /\ UNCHANGED <<extra, given, typed, owed>>
  BY DEF DeleteTx
<1>2. TxsOK' /\ DOMAIN txs' = DOMAIN txs \ {tx}
  <2>1. txs \in [DOMAIN txs -> Transaction]
    BY DEF TypeOK
  <2>2. DOMAIN txs' = DOMAIN txs \ {tx} /\ txs' \in [DOMAIN txs \ {tx} -> Transaction]
    BY <1>1, <2>1, DropFacts
  <2>. QED BY <1>1, <2>2 DEF TypeOK, TxsOK
<1>3. CASE ~\E p \in payments : p.tx = tx
  <2>1. UNCHANGED <<payments, debts>>
    BY <1>3 DEF DeleteTx
  <2>2. TypeOK'
    <3>1. \A p \in payments' : p.tx \in DOMAIN txs' \cup {None}
      BY <1>2, <1>3, <2>1 DEF TypeOK
    <3>. QED BY <1>1, <1>2, <2>1, <3>1 DEF TypeOK, TxsOK
  <2>3. PaymentsOnce' /\ SlotsOnce'
    BY <1>1, <2>1 DEF PaymentsOnce, SlotsOnce, Posted
  <2>4. NeverUnderstated' /\ PaidOffOwesNothing'
    BY <1>1, <2>1 DEF NeverUnderstated, PaidOffOwesNothing, PaidOn
  <2>. QED BY <2>2, <2>3, <2>4 DEF IInv, IdsAreOnce
<1>4. CASE \E p \in payments : p.tx = tx
  <2>1. PICK p \in payments : p.tx = tx /\ Reverse(p)
    BY <1>4 DEF DeleteTx
  <2> DEFINE d == p.debt
             left == debts[d].balance + p.principal
  <2>2. p \in DebtPayment /\ d \in DOMAIN debts /\ p.principal \in Nat
    BY DEF TypeOK, DebtPayment
  <2>3. debts[d].balance \in Nat /\ left \in Nat
    BY <2>2 DEF TypeOK, Debt
  <2>4. payments' = payments \ {p} /\ Changed(d, left, FALSE)
    BY <2>1 DEF Reverse, Changed
  <2>5. left = debts[d].balance + p.principal /\ d = p.debt
    OBVIOUS
  <2>. HIDE DEF left, d
  <2>6. /\ DOMAIN debts' = DOMAIN debts /\ debts' \in [DOMAIN debts' -> Debt]
        /\ debts'[d].balance = left /\ debts'[d].paidOff = FALSE
        /\ \A c \in DOMAIN debts \ {d} : debts'[c] = debts[c]
    BY <2>2, <2>3, <2>4, DebtsUpdate
  <2>7. \A r \in payments' : r.tx # tx
    <3>1. tx # None
      BY NoneIsNoTx
    <3>2. p.id = tx
      BY <2>1, <3>1 DEF PaymentsOnce
    <3>. QED BY <2>4, <3>1, <3>2 DEF PaymentsOnce
  <2>8. TypeOK'
    <3>1. \A r \in payments' : /\ r \in DebtPayment
                                /\ r.tx \in DOMAIN txs' \cup {None}
                                /\ r.debt \in DOMAIN debts'
      BY <1>2, <2>4, <2>6, <2>7 DEF TypeOK
    <3>2. extra' \in [Slots -> Extra] /\ typed' \subseteq DOMAIN debts'
          /\ owed' \in [DOMAIN debts' -> Nat] /\ DOMAIN debts' \subseteq given' \cap DebtIds
      BY <1>1, <2>6 DEF TypeOK
    <3>. QED BY <1>2, <2>6, <3>1, <3>2 DEF TypeOK, TxsOK
  <2>9. PaymentsOnce'
    BY <1>1, <2>4, FS_Subset DEF PaymentsOnce
  <2>10. SlotsOnce'
    BY <1>1, <2>4, SlotsStay
  <2>11. PaidOffOwesNothing'
    <3>1. ASSUME NEW c \in DOMAIN debts' \ typed', debts'[c].paidOff PROVE debts'[c].balance = 0
      <4>1. CASE c = d
        BY <2>6, <3>1, <4>1
      <4>2. CASE c # d
        BY <1>1, <2>6, <3>1, <4>2 DEF PaidOffOwesNothing
      <4>. QED BY <4>1, <4>2
    <3>. QED BY <3>1 DEF PaidOffOwesNothing
  <2>12. NeverUnderstated'
    <3>1. ASSUME NEW c \in DOMAIN debts' PROVE debts'[c].balance >= owed'[c] - PaidOn(c)'
      <4>1. PaidOn(c) \in Nat /\ PaidOn(c) = Principal(Of(payments, c))
        BY PaidOnType
      <4>2. PaidOn(c)' = Principal(Of(payments', c))
        BY DEF PaidOn, Of
      <4>3. Paid(payments) /\ Paid(payments')
        BY <2>4, PaymentsArePaid, FS_Subset DEF Paid
      <4>4. PaidOn(c) = PaidOn(c)' + Share(p, c) /\ PaidOn(c)' \in Nat
        <5> DEFINE rest == payments \ {p}
        <5>1. Principal(Of(payments, c)) = Principal(Of(rest, c)) + Share(p, c)
          BY <4>3, OfRemove
        <5>2. payments' = rest
          BY <2>4
        <5>3. Principal(Of(payments', c)) \in Nat
          BY <4>3, PaidOfOne
        <5>. HIDE DEF rest
        <5>. QED BY <4>1, <4>2, <5>1, <5>2, <5>3
      <4>5. /\ c \in DOMAIN debts /\ owed'[c] = owed[c] /\ owed[c] \in Nat
            /\ debts[c].balance \in Nat /\ debts[c].balance >= owed[c] - PaidOn(c)
        BY <1>1, <2>6 DEF NeverUnderstated, TypeOK, Debt
      <4>6. CASE c = d
        <5>1. Share(p, c) = p.principal
          BY <2>2, <2>5, <4>6, ShareType
        <5>. QED BY <2>2, <2>3, <2>5, <2>6, <4>1, <4>4, <4>5, <4>6, <5>1
      <4>7. CASE c # d
        <5>1. Share(p, c) = 0
          BY <2>2, <2>5, <4>7, ShareType
        <5>2. debts'[c] = debts[c]
          BY <2>6, <4>5, <4>7
        <5>. QED BY <4>1, <4>4, <4>5, <5>1, <5>2
      <4>. QED BY <4>6, <4>7
    <3>. QED BY <3>1 DEF NeverUnderstated
  <2>. QED BY <2>8, <2>9, <2>10, <2>11, <2>12 DEF IInv, IdsAreOnce
<1>. QED BY <1>3, <1>4
(* DELETE /accounts/:id: the payments stay, and name no transaction.        *)
LEMMA DeleteAccountStep ==
    ASSUME IInv, NEW gone \in SUBSET DOMAIN txs, DeleteAccount(gone)
    PROVE  IInv'
<1>. TypeOK /\ SlotsOnce /\ PaymentsOnce /\ IdsAreOnce /\ PaidOffOwesNothing /\ NeverUnderstated
  BY DEF IInv, IdsAreOnce
<1>1. /\ txs' = Drop(txs, gone) /\ payments' = Orphaned(gone)
      /\ UNCHANGED <<debts, extra, given, typed, owed>>
  BY DEF DeleteAccount
<1>2. TxsOK' /\ DOMAIN txs' = DOMAIN txs \ gone
  <2>1. txs \in [DOMAIN txs -> Transaction]
    BY DEF TypeOK
  <2>2. DOMAIN txs' = DOMAIN txs \ gone /\ txs' \in [DOMAIN txs \ gone -> Transaction]
    BY <1>1, <2>1, DropFacts
  <2>. QED BY <1>1, <2>2 DEF TypeOK, TxsOK
<1> DEFINE h == [p \in payments |-> IF p.tx \in gone THEN [p EXCEPT !.tx = None] ELSE p]
<1>3. payments' = {h[p] : p \in payments}
  BY <1>1 DEF Orphaned
<1>4. ASSUME NEW p \in payments
      PROVE  /\ h[p] \in DebtPayment /\ h[p].id = p.id /\ h[p].debt = p.debt
             /\ h[p].principal = p.principal
             /\ h[p].tx \in (DOMAIN txs \ gone) \cup {None} /\ h[p].tx \in {p.tx, None}
  <2>1. p \in DebtPayment /\ p.tx \in DOMAIN txs \cup {None}
    BY DEF TypeOK
  <2>2. CASE p.tx \in gone
    <3>1. h[p] = [p EXCEPT !.tx = None]
      BY <2>2
    <3>. HIDE DEF h
    <3>. QED BY <2>1, <3>1 DEF DebtPayment
  <2>3. CASE p.tx \notin gone
    <3>1. h[p] = p
      BY <2>3
    <3>. HIDE DEF h
    <3>. QED BY <2>1, <2>3, <3>1
  <2>. QED BY <2>2, <2>3
<1>. HIDE DEF h
<1>5. \A p, q \in payments : h[p] = h[q] => p = q
  BY <1>4 DEF PaymentsOnce
<1>6. TypeOK'
  <2>1. \A r \in payments' : /\ r \in DebtPayment
                              /\ r.tx \in DOMAIN txs' \cup {None}
                              /\ r.debt \in DOMAIN debts'
    <3>1. ASSUME NEW p \in payments
          PROVE  /\ h[p] \in DebtPayment
                 /\ h[p].tx \in DOMAIN txs' \cup {None}
                 /\ h[p].debt \in DOMAIN debts'
      BY <1>1, <1>2, <1>4 DEF TypeOK
    <3>. QED BY <1>3, <3>1
  <2>. QED BY <1>1, <1>2, <2>1 DEF TypeOK, TxsOK
<1>7. PaymentsOnce'
  <2>1. IsFiniteSet(payments')
    BY <1>3, ImageIsFinite DEF PaymentsOnce
  <2>2. ASSUME NEW p \in payments
        PROVE  h[p].id \in given' /\ h[p].tx \in {h[p].id, None}
    BY <1>1, <1>4 DEF PaymentsOnce
  <2>3. \A r \in payments' : r.id \in given' /\ r.tx \in {r.id, None}
    BY <1>3, <2>2
  <2>4. \A r, u \in payments' : r.id = u.id => r = u
    <3>1. ASSUME NEW p \in payments, NEW q \in payments, h[p].id = h[q].id
          PROVE  h[p] = h[q]
      BY <1>4, <3>1 DEF PaymentsOnce
    <3>. QED BY <1>3, <3>1
  <2>. QED BY <2>1, <2>3, <2>4 DEF PaymentsOnce
<1>8. SlotsOnce'
  <2>1. \A r \in payments' : \E p \in payments : r.id = p.id
    BY <1>3, <1>4
  <2>. QED BY <1>1, <2>1, SlotsStay
<1>9. PaidOffOwesNothing'
  BY <1>1 DEF PaidOffOwesNothing
<1>10. NeverUnderstated'
  <2>1. ASSUME NEW c PROVE PaidOn(c)' = PaidOn(c)
    <3> DEFINE rows == Of(payments, c)
    <3>1. PaidOn(c) = Principal(rows) /\ PaidOn(c)' = Principal(Of(payments', c))
      BY DEF PaidOn, Of
    <3>2. Of(payments', c) = {h[p] : p \in rows}
      BY <1>3, <1>4 DEF Of
    <3>3. Paid(rows) /\ rows \subseteq payments
      BY PaymentsArePaid, PaidOfOne DEF Of
    <3>4. \A p \in rows : h[p].principal = p.principal
      BY <1>4, <3>3
    <3>5. \A p, q \in rows : h[p] = h[q] => p = q
      BY <1>5, <3>3
    <3>. HIDE DEF rows
    <3>6. Principal({h[p] : p \in rows}) = Principal(rows)
      BY <3>3, <3>4, <3>5, PrincipalRename
    <3> DEFINE image == {h[p] : p \in rows}
    <3>7. Of(payments', c) = image /\ Principal(image) = Principal(rows)
      BY <3>2, <3>6
    <3>. HIDE DEF image
    <3>. QED BY <3>1, <3>7
  <2>. QED BY <1>1, <2>1 DEF NeverUnderstated
<1>. QED BY <1>6, <1>7, <1>8, <1>9, <1>10 DEF IInv, IdsAreOnce

(* The reset of everything.                                                 *)
LEMMA WipeStep ==
    ASSUME IInv, Wipe
    PROVE  IInv'
<1>. TypeOK /\ SlotsOnce /\ PaymentsOnce
  BY DEF IInv, IdsAreOnce
<1>1. /\ txs' = << >> /\ payments' = {} /\ typed' = {} /\ UNCHANGED <<extra, given>>
      /\ debts' = [d \in DOMAIN debts |-> [debts[d] EXCEPT !.balance = debts[d].original,
                                                            !.paidOff = FALSE]]
      /\ owed' = [d \in DOMAIN debts |-> debts[d].original]
  BY DEF Wipe
<1>2. ASSUME NEW d \in DOMAIN debts
      PROVE  /\ debts'[d] \in Debt /\ debts'[d].balance = debts[d].original
             /\ debts'[d].paidOff = FALSE
             /\ owed'[d] = debts[d].original /\ debts[d].original \in Nat
  <2>1. debts[d] \in Debt
    BY DEF TypeOK
  <2>2. debts'[d] = [debts[d] EXCEPT !.balance = debts[d].original, !.paidOff = FALSE]
    BY <1>1
  <2>3. owed'[d] = debts[d].original
    BY <1>1
  <2>. QED BY <2>1, <2>2, <2>3 DEF Debt
<1>3. DOMAIN debts' = DOMAIN debts /\ debts' \in [DOMAIN debts' -> Debt]
      /\ owed' \in [DOMAIN debts' -> Nat]
  BY <1>1, <1>2
<1>4. TypeOK'
  <2>1. DOMAIN << >> = {} /\ << >> \in [{} -> Transaction]
    OBVIOUS
  <2>. QED BY <1>1, <1>3, <2>1 DEF TypeOK
<1>5. PaymentsOnce'
  BY <1>1, FS_EmptySet DEF PaymentsOnce
<1>6. SlotsOnce'
  BY <1>1, SlotsStay
<1>7. PaidOffOwesNothing'
  BY <1>2, <1>3 DEF PaidOffOwesNothing
<1>8. NeverUnderstated'
  <2>1. Paid(payments')
    BY <1>1, FS_EmptySet DEF Paid
  <2>2. ASSUME NEW d PROVE PaidOn(d)' \in Nat
    <3>1. PaidOn(d)' = Principal(Of(payments', d))
      BY DEF PaidOn, Of
    <3>. QED BY <2>1, <3>1, PaidOfOne
  <2>3. ASSUME NEW d \in DOMAIN debts' PROVE debts'[d].balance >= owed'[d] - PaidOn(d)'
    <3>1. debts'[d].balance = owed'[d] /\ owed'[d] \in Nat
      BY <1>2, <1>3
    <3>. QED BY <2>2, <3>1
  <2>. QED BY <2>3 DEF NeverUnderstated
<1>. QED BY <1>4, <1>5, <1>6, <1>7, <1>8 DEF IInv, IdsAreOnce

-----------------------------------------------------------------------------
(* Steps on a debt itself. *)

LEMMA CreateDebtStep ==
    ASSUME IInv, NEW d \in DebtIds, NEW original \in Balances, NEW balance \in Balances,
           NEW expense \in Expenses \cup {None}, NEW frequency \in Frequencies,
           CreateDebt(d, original, balance, expense, frequency)
    PROVE  IInv'
<1>. TypeOK /\ SlotsOnce /\ PaymentsOnce /\ IdsAreOnce /\ PaidOffOwesNothing /\ NeverUnderstated
  BY DEF IInv, IdsAreOnce
<1> DEFINE r == [original |-> original, balance |-> balance, paidOff |-> FALSE,
                 expense |-> expense, frequency |-> frequency]
<1>1. /\ d \notin given /\ given' = given \cup {d}
      /\ debts' = Add(debts, d, r) /\ owed' = Add(owed, d, balance)
      /\ UNCHANGED <<txs, payments, extra, typed>>
  BY DEF CreateDebt
<1>2. r \in Debt /\ r.balance = balance /\ r.paidOff = FALSE /\ balance \in Nat
  BY DebtsAssumption DEF Debt
<1>. HIDE DEF r
<1>3. d \notin DOMAIN debts /\ debts \in [DOMAIN debts -> Debt] /\ owed \in [DOMAIN debts -> Nat]
      /\ DOMAIN owed = DOMAIN debts
  BY <1>1 DEF TypeOK
<1>4. /\ DOMAIN debts' = DOMAIN debts \cup {d} /\ debts' \in [DOMAIN debts \cup {d} -> Debt]
      /\ debts'[d] = r /\ \A c \in DOMAIN debts \ {d} : debts'[c] = debts[c]
  BY <1>1, <1>2, <1>3 DEF Add
<1>5. /\ owed' \in [DOMAIN debts \cup {d} -> Nat]
      /\ owed'[d] = balance /\ \A c \in DOMAIN debts \ {d} : owed'[c] = owed[c]
  BY <1>1, <1>2, <1>3 DEF Add
<1>6. TypeOK'
  <2>1. \A p \in payments' : /\ p \in DebtPayment
                              /\ p.tx \in DOMAIN txs' \cup {None}
                              /\ p.debt \in DOMAIN debts'
    BY <1>1, <1>4 DEF TypeOK
  <2>. QED BY <1>1, <1>4, <1>5, <2>1 DEF TypeOK
<1>7. PaymentsOnce'
  BY <1>1 DEF PaymentsOnce
<1>8. SlotsOnce'
  BY <1>1, SlotsStay
<1>9. PaidOffOwesNothing'
  BY <1>1, <1>2, <1>4 DEF PaidOffOwesNothing
<1>10. NeverUnderstated'
  <2>1. ASSUME NEW c \in DOMAIN debts' PROVE debts'[c].balance >= owed'[c] - PaidOn(c)'
    <3>1. PaidOn(c)' = PaidOn(c) /\ PaidOn(c) \in Nat
      BY <1>1, PaidOnType DEF PaidOn
    <3>2. CASE c = d
      BY <1>2, <1>4, <1>5, <3>1, <3>2
    <3>3. CASE c # d
      BY <1>4, <1>5, <3>1, <3>3 DEF NeverUnderstated
    <3>. QED BY <3>2, <3>3
  <2>. QED BY <2>1 DEF NeverUnderstated
<1>. QED BY <1>6, <1>7, <1>8, <1>9, <1>10 DEF IInv, IdsAreOnce

LEMMA EditDebtStep ==
    ASSUME IInv, NEW d \in DebtIds, NEW original \in Balances, NEW balance \in Balances \cup {Balance(d)},
           NEW expense \in Expenses \cup {None}, NEW frequency \in Frequencies, NEW paidOff \in BOOLEAN,
           EditDebt(d, original, balance, expense, frequency, paidOff)
    PROVE  IInv'
<1>. TypeOK /\ SlotsOnce /\ PaymentsOnce /\ IdsAreOnce /\ PaidOffOwesNothing /\ NeverUnderstated
  BY DEF IInv, IdsAreOnce
<1> DEFINE r == [original |-> original, balance |-> balance, paidOff |-> paidOff,
                 expense |-> expense, frequency |-> frequency]
           v == IF balance = debts[d].balance THEN owed[d] ELSE balance + PaidOn(d)
<1>1. /\ d \in DOMAIN debts /\ debts' = [debts EXCEPT ![d] = r]
      /\ owed' = [owed EXCEPT ![d] = v] /\ typed' = typed \cup {d}
      /\ UNCHANGED <<txs, payments, extra, given>>
  BY DEF EditDebt
<1>2. r \in Debt /\ r.balance = balance /\ balance \in Nat
  <2>1. debts[d].balance \in Nat
    BY <1>1 DEF TypeOK, Debt
  <2>2. balance \in Nat
    BY <1>1, <2>1, DebtsAssumption DEF Balance
  <2>3. original \in Nat
    BY DebtsAssumption
  <2>. QED BY <2>2, <2>3 DEF Debt
<1>. HIDE DEF r
<1>3. debts \in [DOMAIN debts -> Debt] /\ owed \in [DOMAIN debts -> Nat]
  BY DEF TypeOK
<1>4. PaidOn(d) \in Nat
  BY PaidOnType
<1>5. v \in Nat /\ balance >= v - PaidOn(d)
  <2>1. owed[d] \in Nat /\ debts[d].balance >= owed[d] - PaidOn(d)
    BY <1>1, <1>3 DEF NeverUnderstated
  <2>. QED BY <1>2, <1>4, <2>1
<1>. HIDE DEF v
<1>6. /\ DOMAIN debts' = DOMAIN debts /\ debts' \in [DOMAIN debts -> Debt]
      /\ debts'[d] = r /\ \A c \in DOMAIN debts \ {d} : debts'[c] = debts[c]
  BY <1>1, <1>2, <1>3
<1>7. /\ owed' \in [DOMAIN debts -> Nat]
      /\ owed'[d] = v /\ \A c \in DOMAIN debts \ {d} : owed'[c] = owed[c]
  BY <1>1, <1>3, <1>5
<1>8. TypeOK'
  <2>1. \A p \in payments' : /\ p \in DebtPayment
                              /\ p.tx \in DOMAIN txs' \cup {None}
                              /\ p.debt \in DOMAIN debts'
    BY <1>1, <1>6 DEF TypeOK
  <2>. QED BY <1>1, <1>6, <1>7, <2>1 DEF TypeOK
<1>9. PaymentsOnce' /\ SlotsOnce'
  BY <1>1 DEF PaymentsOnce, SlotsOnce, Posted
<1>10. PaidOffOwesNothing'
  BY <1>1, <1>6 DEF PaidOffOwesNothing
<1>11. NeverUnderstated'
  <2>1. ASSUME NEW c \in DOMAIN debts' PROVE debts'[c].balance >= owed'[c] - PaidOn(c)'
    <3>1. PaidOn(c)' = PaidOn(c)
      BY <1>1 DEF PaidOn
    <3>2. CASE c = d
      BY <1>2, <1>5, <1>6, <1>7, <3>1, <3>2
    <3>3. CASE c # d
      BY <1>6, <1>7, <3>1, <3>3 DEF NeverUnderstated
    <3>. QED BY <3>2, <3>3
  <2>. QED BY <2>1 DEF NeverUnderstated
<1>. QED BY <1>8, <1>9, <1>10, <1>11 DEF IInv, IdsAreOnce

LEMMA DeleteDebtStep ==
    ASSUME IInv, NEW d \in DebtIds, DeleteDebt(d)
    PROVE  IInv'
<1>. TypeOK /\ SlotsOnce /\ PaymentsOnce /\ IdsAreOnce /\ PaidOffOwesNothing /\ NeverUnderstated
  BY DEF IInv, IdsAreOnce
<1>1. /\ debts' = Drop(debts, {d}) /\ owed' = Drop(owed, {d})
      /\ payments' = {p \in payments : p.debt # d} /\ typed' = typed \ {d}
      /\ UNCHANGED <<txs, extra, given>>
  BY DEF DeleteDebt
<1>2. debts \in [DOMAIN debts -> Debt] /\ owed \in [DOMAIN owed -> Nat] /\ DOMAIN owed = DOMAIN debts
  BY DEF TypeOK
<1>3. /\ DOMAIN debts' = DOMAIN debts \ {d} /\ debts' \in [DOMAIN debts \ {d} -> Debt]
      /\ \A c \in DOMAIN debts \ {d} : debts'[c] = debts[c]
  BY <1>1, <1>2, DropFacts
<1>4. /\ owed' \in [DOMAIN debts \ {d} -> Nat]
      /\ \A c \in DOMAIN debts \ {d} : owed'[c] = owed[c]
  BY <1>1, <1>2, DropFacts
<1>5. TypeOK'
  <2>1. \A p \in payments' : /\ p \in DebtPayment
                              /\ p.tx \in DOMAIN txs' \cup {None}
                              /\ p.debt \in DOMAIN debts'
    BY <1>1, <1>3 DEF TypeOK
  <2>. QED BY <1>1, <1>3, <1>4, <2>1 DEF TypeOK
<1>6. PaymentsOnce'
  BY <1>1, FS_Subset DEF PaymentsOnce
<1>7. SlotsOnce'
  BY <1>1, SlotsStay
<1>8. PaidOffOwesNothing'
  BY <1>1, <1>3 DEF PaidOffOwesNothing
<1>9. NeverUnderstated'
  <2>1. ASSUME NEW c \in DOMAIN debts' PROVE PaidOn(c)' = PaidOn(c)
    <3>1. Of(payments', c) = Of(payments, c)
      BY <1>1, <1>3 DEF Of
    <3>2. PaidOn(c) = Principal(Of(payments, c)) /\ PaidOn(c)' = Principal(Of(payments', c))
      BY DEF PaidOn, Of
    <3>. QED BY <3>1, <3>2
  <2>. QED BY <1>3, <1>4, <2>1 DEF NeverUnderstated
<1>. QED BY <1>5, <1>6, <1>7, <1>8, <1>9 DEF IInv, IdsAreOnce

-----------------------------------------------------------------------------
LEMMA InitInv == Init => IInv
<1>1. SUFFICES ASSUME Init PROVE IInv
  OBVIOUS
<1>2. TypeOK
  <2>1. DOMAIN << >> = {} /\ << >> \in [{} -> Transaction] /\ << >> \in [{} -> Debt]
        /\ << >> \in [{} -> Nat]
    OBVIOUS
  <2>. QED BY <1>1, <2>1 DEF Init, TypeOK, Extra
<1>3. PaymentsOnce
  BY <1>1, FS_EmptySet DEF Init, PaymentsOnce
<1>4. SlotsOnce
  BY <1>1 DEF Init, SlotsOnce, Posted, NoExtra
<1>5. NeverUnderstated /\ PaidOffOwesNothing
  <2>1. DOMAIN debts = {}
    BY <1>1 DEF Init
  <2>. QED BY <2>1 DEF NeverUnderstated, PaidOffOwesNothing
<1>. QED BY <1>2, <1>3, <1>4, <1>5 DEF IInv, IdsAreOnce

LEMMA NextInv == IInv /\ [Next]_vars => IInv'
<1>. SUFFICES ASSUME IInv, [Next]_vars PROVE IInv'
  OBVIOUS
<1>1. CASE UNCHANGED vars
  <2>. UNCHANGED <<txs, payments, debts, extra, given, typed, owed>>
    BY <1>1 DEF vars
  <2>. QED BY DEF IInv, TypeOK, IdsAreOnce, PaymentsOnce, SlotsOnce, Posted,
                  NeverUnderstated, PaidOffOwesNothing, PaidOn
<1>2. CASE \E tx \in Txs, amount \in Amounts, expense \in Expenses \cup {None} :
             Create(tx, amount, expense)
  BY <1>2, CreateStep
<1>3. CASE \E tx \in Txs, amount \in Amounts : SetAmount(tx, amount)
  BY <1>3, SetAmountStep
<1>4. CASE \E tx \in Txs, expense \in Expenses : Link(tx, expense)
  BY <1>4, LinkStep
<1>5. CASE \E tx \in Txs : DeleteTx(tx)
  BY <1>5, DeleteTxStep
<1>6. CASE \E gone \in SUBSET DOMAIN txs : DeleteAccount(gone)
  BY <1>6, DeleteAccountStep
<1>7. CASE Wipe
  BY <1>7, WipeStep
<1>8. CASE \E d \in DebtIds : \E original, balance \in Balances, expense \in Expenses \cup {None},
             frequency \in Frequencies : CreateDebt(d, original, balance, expense, frequency)
  BY <1>8, CreateDebtStep
<1>9. CASE \E d \in DebtIds : \E original \in Balances, balance \in Balances \cup {Balance(d)},
             expense \in Expenses \cup {None}, frequency \in Frequencies, paidOff \in BOOLEAN :
             EditDebt(d, original, balance, expense, frequency, paidOff)
  BY <1>9, EditDebtStep
<1>10. CASE \E d \in DebtIds : DeleteDebt(d)
  BY <1>10, DeleteDebtStep
<1>11. CASE \E s \in Slots, d \in DebtIds : ExtraRead(s, d)
  BY <1>11, ExtraReadStep
<1>12. CASE \E s \in Slots, tx \in Txs, amount \in Amounts : ExtraPost(s, tx, amount)
  BY <1>12, ExtraPostStep
<1>13. CASE \E s \in Slots : ExtraRecord(s)
  BY <1>13, ExtraRecordStep
<1>. QED BY <1>1, <1>2, <1>3, <1>4, <1>5, <1>6, <1>7, <1>8, <1>9, <1>10, <1>11, <1>12, <1>13 DEF Next

LEMMA Inductive == Spec => []IInv
<1>1. Init => IInv
  BY InitInv
<1>2. IInv /\ [Next]_vars => IInv'
  BY NextInv
<1>. QED BY <1>1, <1>2, PTL DEF Spec

(* Every row of a debt's payments is of a debt there is and names a        *)
(* transaction there is or none (ON DELETE CASCADE and SET NULL), and no    *)
(* principal, interest or balance is ever negative: split_payment floors    *)
(* the principal at zero and the writes floor the balance.                  *)
THEOREM DebtTypesAreKept == Spec => []TypeOK
<1>1. IInv => TypeOK
  BY DEF IInv
<1>. QED BY <1>1, Inductive, PTL

(* A debt never shows less than was owed less the principal recorded as     *)
(* paid, however payments, extra payments, reversals, edits, deletions of   *)
(* accounts and the reset of everything interleave.                         *)
THEOREM DebtsAreNeverUnderstated == Spec => []NeverUnderstated
<1>1. IInv => NeverUnderstated
  BY DEF IInv
<1>. QED BY <1>1, Inductive, PTL

(* A debt marked paid off owes nothing unless a user wrote the flag: the    *)
(* flag is never left behind by a balance that a payment, a reversal or the *)
(* second half of an extra payment writes.                                  *)
THEOREM PaidOffDebtsOweNothing == Spec => []PaidOffOwesNothing
<1>1. IInv => PaidOffOwesNothing
  BY DEF IInv
<1>. QED BY <1>1, Inductive, PTL
=============================================================================
