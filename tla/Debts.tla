------------------------------- MODULE Debts -------------------------------
(***************************************************************************)
(* The side effects that transactions have on debts                        *)
(* (src/rust/db/src/debt_payment.rs, called from the gate in ledger.rs,    *)
(* and the debt routes in src/rust/api/src/debts.rs).                      *)
(*                                                                         *)
(* Accounts, budgets and dates are left out: a transaction is its amount   *)
(* and the expense it names, a payment the principal that was taken off.   *)
(* POST /debts/:id/extra-payment gives the connection back between reading *)
(* the debt, posting the transaction and writing the debt, so it is three  *)
(* steps here; everything else that is modelled holds it from the read to  *)
(* the write.                                                              *)
(***************************************************************************)
EXTENDS Integers, FiniteSets, FiniteSetsExt

CONSTANTS
    Txs,          \* ids of transactions, never given twice
    DebtIds,      \* ids of debts, never given twice
    Expenses,     \* recurring expenses, which a debt may be linked to
    Slots,        \* extra payments that may be in progress together
    Amounts,      \* amounts of transactions
    Balances,     \* original and current balances a user types
    Frequencies,  \* how often a debt is paid, "MONTHLY" among them
    Apr,          \* the rate of the debts, in hundredths of a percent
    Requests,     \* the routes that are used
    None

(* Payment periods of a year. *)
PeriodsPerYear == [WEEKLY |-> 52, BIWEEKLY |-> 26, SEMI_MONTHLY |-> 24, MONTHLY |-> 12,
                   QUARTERLY |-> 4, BIANNUAL |-> 2, ANNUAL |-> 1]

ASSUME DebtsAssumption ==
    /\ Amounts \subseteq Nat
    /\ Balances \subseteq Nat
    /\ Apr \in Nat
    /\ "MONTHLY" \in Frequencies /\ Frequencies \subseteq DOMAIN PeriodsPerYear
    /\ None \notin Expenses \cup Txs \cup DebtIds

VARIABLES
    txs,       \* id -> transaction
    payments,  \* the rows of DebtPayment
    debts,     \* id -> debt
    extra,     \* slot -> the extra payment in progress
    given,     \* the ids given so far
    typed,     \* history: debts last written by an edit of the debt itself
    owed       \* history: what each debt owes but for the payments on it, as it
               \* was last typed in, reset or written over

vars == <<txs, payments, debts, extra, given, typed, owed>>

Transaction == [amount : Amounts, expense : Expenses \cup {None}]

DebtPayment == [id : Txs,                 \* dp_<transaction>, or a new id
                tx : Txs \cup {None},     \* ON DELETE SET NULL
                debt : DebtIds,
                principal : Nat, interest : Nat]

Debt == [original : Nat, balance : Nat, paidOff : BOOLEAN,
         expense : Expenses \cup {None}, frequency : Frequencies]

NoExtra == [at |-> "none"]
Extra == {NoExtra}
    \cup [at : {"read"}, debt : DebtIds, seen : Nat, frequency : Frequencies]
    \cup [at : {"posted"}, debt : DebtIds, seen : Nat, frequency : Frequencies,
          tx : Txs, amount : Amounts]

Floor(n) == IF n < 0 THEN 0 ELSE n
Add(f, x, v) == [y \in DOMAIN f \cup {x} |-> IF y = x THEN v ELSE f[y]]
Drop(f, S) == [y \in DOMAIN f \ S |-> f[y]]

Init ==
    /\ txs = << >>
    /\ payments = {}
    /\ debts = << >>
    /\ extra = [s \in Slots |-> NoExtra]
    /\ given = {}
    /\ typed = {}
    /\ owed = << >>

-----------------------------------------------------------------------------
(* split_payment: the interest of one period first, the rest is principal.  *)
(* js_round takes a half cent up.                                           *)
Interest(balance, frequency) ==
    LET periods == PeriodsPerYear[frequency]
    IN  (2 * balance * Apr + 10000 * periods) \div (20000 * periods)

Split(balance, amount, frequency) ==
    LET interest == Interest(balance, frequency)
    IN  [principal |-> Floor(amount - interest), interest |-> interest]

(* Wrong: the whole amount is taken off the balance. *)
PayInFull(tx, d, seen, amount, frequency) ==
    LET split == Split(seen, amount, frequency)
        left == Floor(seen - amount)
    IN  /\ payments' = payments \cup {[id |-> tx, tx |-> tx, debt |-> d,
                                       principal |-> split.principal, interest |-> split.interest]}
        /\ debts' = [debts EXCEPT ![d].balance = left, ![d].paidOff = (left = 0)]
        /\ typed' = typed \ {d}

(* The payment is recorded with the principal it was split into, and the    *)
(* balance that was read falls by it, but not below zero.                   *)
Pay(tx, d, seen, amount, frequency) ==
    LET split == Split(seen, amount, frequency)
        left == Floor(seen - split.principal)
    IN  /\ payments' = payments \cup {[id |-> tx, tx |-> tx, debt |-> d,
                                       principal |-> split.principal, interest |-> split.interest]}
        /\ debts' = [debts EXCEPT ![d].balance = left, ![d].paidOff = (left = 0)]
        /\ typed' = typed \ {d}

(* on_created: one of the open debts linked to the expense, if there is any. *)
OnCreated(tx, expense, amount) ==
    LET funded == {d \in DOMAIN debts : debts[d].expense = expense /\ ~debts[d].paidOff}
    IN  IF expense = None \/ funded = {}
        THEN UNCHANGED <<payments, debts, typed>>
        ELSE \E d \in funded : Pay(tx, d, debts[d].balance, amount, "MONTHLY")

(* Wrong: the reversal returns the principal and leaves the flag.           *)
ReverseFigure(p) ==
    /\ payments' = payments \ {p}
    /\ debts' = [debts EXCEPT ![p.debt].balance = @ + p.principal]

(* reverse: the principal goes back, whatever was taken off, and the debt   *)
(* is open again.                                                           *)
Reverse(p) ==
    /\ payments' = payments \ {p}
    /\ debts' = [debts EXCEPT ![p.debt].balance = @ + p.principal, ![p.debt].paidOff = FALSE]

Orphaned(gone) == {IF p.tx \in gone THEN [p EXCEPT !.tx = None] ELSE p : p \in payments}

-----------------------------------------------------------------------------
(* Transactions. *)

Create(tx, amount, expense) ==
    /\ "create" \in Requests
    /\ tx \notin given
    /\ given' = given \cup {tx}
    /\ txs' = Add(txs, tx, [amount |-> amount, expense |-> expense])
    /\ OnCreated(tx, expense, amount)
    /\ UNCHANGED <<extra, owed>>

(* PATCH of the amount: the hook looks at creations only.                   *)
SetAmount(tx, amount) ==
    /\ "amount" \in Requests
    /\ tx \in DOMAIN txs
    /\ txs' = [txs EXCEPT ![tx].amount = amount]
    /\ UNCHANGED <<payments, debts, extra, given, typed, owed>>

(* link, which is an update of the row as well.                             *)
Link(tx, expense) ==
    /\ "link" \in Requests
    /\ tx \in DOMAIN txs
    /\ txs' = [txs EXCEPT ![tx].expense = expense]
    /\ UNCHANGED <<payments, debts, extra, given, typed, owed>>

(* ledger_delete: the payment is read while the row that it names is there. *)
DeleteTx(tx) ==
    /\ "delete" \in Requests
    /\ tx \in DOMAIN txs
    /\ txs' = Drop(txs, {tx})
    /\ IF \E p \in payments : p.tx = tx
       THEN \E p \in payments : p.tx = tx /\ Reverse(p)
       ELSE UNCHANGED <<payments, debts>>
    /\ UNCHANGED <<extra, given, typed, owed>>

(* DELETE /accounts/:id removes the rows of the account past the gate.      *)
DeleteAccount(gone) ==
    /\ "deleteAccount" \in Requests
    /\ gone # {}
    /\ txs' = Drop(txs, gone)
    /\ payments' = Orphaned(gone)
    /\ UNCHANGED <<debts, extra, given, typed, owed>>

(* wipe_all_transactions and reset_derived_state: every debt starts over    *)
(* from its original amount.                                                *)
Wipe ==
    /\ "wipe" \in Requests
    /\ txs # << >>
    /\ txs' = << >>
    /\ payments' = {}
    /\ debts' = [d \in DOMAIN debts |-> [debts[d] EXCEPT !.balance = debts[d].original,
                                                         !.paidOff = FALSE]]
    /\ owed' = [d \in DOMAIN debts |-> debts[d].original]
    /\ typed' = {}
    /\ UNCHANGED <<extra, given>>

-----------------------------------------------------------------------------
(* Debts. *)

CreateDebt(d, original, balance, expense, frequency) ==
    /\ d \notin given
    /\ given' = given \cup {d}
    /\ debts' = Add(debts, d, [original |-> original, balance |-> balance, paidOff |-> FALSE,
                               expense |-> expense, frequency |-> frequency])
    /\ owed' = Add(owed, d, balance)
    /\ UNCHANGED <<txs, payments, extra, typed>>

Principal(rows) == MapThenSumSet(LAMBDA p : p.principal, rows)
PaidOn(d) == Principal({p \in payments : p.debt = d})

(* PUT /debts/:id: any of the fields, each held to nothing but its type.    *)
EditDebt(d, original, balance, expense, frequency, paidOff) ==
    /\ "edit" \in Requests
    /\ d \in DOMAIN debts
    /\ debts' = [debts EXCEPT ![d] = [original |-> original, balance |-> balance, paidOff |-> paidOff,
                                      expense |-> expense, frequency |-> frequency]]
    /\ owed' = [owed EXCEPT ![d] = IF balance = debts[d].balance THEN @ ELSE balance + PaidOn(d)]
    /\ typed' = typed \cup {d}
    /\ UNCHANGED <<txs, payments, extra, given>>

(* The payments of the debt go with it.                                     *)
DeleteDebt(d) ==
    /\ "deleteDebt" \in Requests
    /\ d \in DOMAIN debts
    /\ debts' = Drop(debts, {d})
    /\ owed' = Drop(owed, {d})
    /\ payments' = {p \in payments : p.debt # d}
    /\ typed' = typed \ {d}
    /\ UNCHANGED <<txs, extra, given>>

(* extra_payment reads the debt, which must not be paid off.                *)
ExtraRead(s, d) ==
    /\ "extra" \in Requests
    /\ extra[s].at = "none"
    /\ d \in DOMAIN debts /\ ~debts[d].paidOff
    /\ extra' = [extra EXCEPT ![s] = [at |-> "read", debt |-> d, seen |-> debts[d].balance,
                                      frequency |-> debts[d].frequency]]
    /\ UNCHANGED <<txs, payments, debts, given, typed, owed>>

(* It posts a transaction that names no expense.                            *)
ExtraPost(s, tx, amount) ==
    /\ extra[s].at = "read"
    /\ tx \notin given
    /\ given' = given \cup {tx}
    /\ txs' = Add(txs, tx, [amount |-> amount, expense |-> None])
    /\ extra' = [extra EXCEPT ![s] = [at |-> "posted", debt |-> extra[s].debt,
                                      seen |-> extra[s].seen,
                                      frequency |-> extra[s].frequency,
                                      tx |-> tx, amount |-> amount]]
    /\ UNCHANGED <<payments, debts, typed, owed>>

(* It splits the balance it read, in a database transaction that fails when *)
(* the debt or the row has gone.  A balance that has moved meanwhile is     *)
(* written over: the figure written is what counts as owed from then on.    *)
ExtraRecord(s) ==
    /\ extra[s].at = "posted"
    /\ LET d == extra[s].debt
           tx == extra[s].tx
       IN  IF d \in DOMAIN debts /\ tx \in DOMAIN txs
           THEN /\ Pay(tx, d, extra[s].seen, extra[s].amount, extra[s].frequency)
                /\ owed' = IF extra[s].seen = debts[d].balance THEN owed
                           ELSE [owed EXCEPT ![d] = debts'[d].balance
                                                      + Principal({p \in payments' : p.debt = d})]
           ELSE UNCHANGED <<payments, debts, typed, owed>>
    /\ extra' = [extra EXCEPT ![s] = NoExtra]
    /\ UNCHANGED <<txs, given>>

(* The balance of a debt, for an edit that leaves it as it is.              *)
Balance(d) == IF d \in DOMAIN debts THEN debts[d].balance ELSE 0

Next ==
    \/ \E tx \in Txs :
          \/ \E amount \in Amounts : \E expense \in Expenses \cup {None} : Create(tx, amount, expense)
          \/ \E amount \in Amounts : SetAmount(tx, amount)
          \/ \E expense \in Expenses : Link(tx, expense)
          \/ DeleteTx(tx)
    \/ \E gone \in SUBSET DOMAIN txs : DeleteAccount(gone)
    \/ Wipe
    \/ \E d \in DebtIds :
          \/ \E original, balance \in Balances, expense \in Expenses \cup {None},
                frequency \in Frequencies : CreateDebt(d, original, balance, expense, frequency)
          \/ \E original \in Balances, balance \in Balances \cup {Balance(d)},
                expense \in Expenses \cup {None}, frequency \in Frequencies, paidOff \in BOOLEAN :
                EditDebt(d, original, balance, expense, frequency, paidOff)
          \/ DeleteDebt(d)
    \/ \E s \in Slots :
          \/ \E d \in DebtIds : ExtraRead(s, d)
          \/ \E tx \in Txs : \E amount \in Amounts : ExtraPost(s, tx, amount)
          \/ ExtraRecord(s)

Spec == Init /\ [][Next]_vars

-----------------------------------------------------------------------------
TypeOK ==
    /\ given \subseteq Txs \cup DebtIds
    /\ DOMAIN txs \subseteq given \cap Txs
    /\ txs \in [DOMAIN txs -> Transaction]
    /\ DOMAIN debts \subseteq given \cap DebtIds
    /\ debts \in [DOMAIN debts -> Debt]
    /\ \A p \in payments : /\ p \in DebtPayment
                           /\ p.tx \in DOMAIN txs \cup {None}
                           /\ p.debt \in DOMAIN debts
    /\ extra \in [Slots -> Extra]
    /\ typed \subseteq DOMAIN debts
    /\ owed \in [DOMAIN debts -> Nat]

(* A debt marked paid off owes nothing, and a payment taken back opens it   *)
(* again, with extra payments overlapping everything else: on_created,      *)
(* reverse and extra_payment each write the flag with the balance.  Only a  *)
(* user who edits the debt can say otherwise.                               *)
PaidOffOwesNothing ==
    \A d \in DOMAIN debts \ typed : debts[d].paidOff => debts[d].balance = 0

(* A debt never shows less than what was owed less the principal that is    *)
(* recorded as paid: on_created, reverse and the reset of everything.       *)
NeverUnderstated == \A d \in DOMAIN debts : debts[d].balance >= owed[d] - PaidOn(d)
=============================================================================
