------------------------------- MODULE Ledger -------------------------------
(***************************************************************************)
(* The master ledger: the Account and Transaction tables, the gate that    *)
(* writes them (src/rust/db/src/ledger.rs) and the balance chain           *)
(* (src/rust/db/src/balance.rs), with every route that moves a balance.    *)
(*                                                                         *)
(* The process has ONE database connection.  A handler holds it for the    *)
(* whole of a gate operation, so gate operations never interleave; but     *)
(* a route that does not open a database transaction commits statement by  *)
(* statement, and a kill, an error or a dropped request between two of     *)
(* them leaves what was written so far.  The rebuilds an operation still   *)
(* owes are the variable todo, and Interrupt throws them away.             *)
(*                                                                         *)
(* A handler that takes the connection twice gives it up in between.  The  *)
(* two that read an account and later write what they read do so in steps  *)
(* of their own, with what each has read kept in the variable edit.        *)
(***************************************************************************)
EXTENDS LegSums, Sequences

CONSTANTS
    Accounts,   \* ids an account may have
    TxIds,      \* ids a transaction may have, in (createdAt, id) order
    Types,      \* the transaction types in use
    Amounts,    \* cents a row may carry
    Dates,      \* days a row may be dated
    Openings,   \* opening balances an account may be given
    MaxFaults,  \* bound: steps that skip or lose a rebuild, in one behaviour
    EditKinds,  \* which of the two read-then-write account routes are in use
    Editors,    \* requests on those routes that may be in flight at once
    None        \* the SQL NULL

(* TransactionType; the income a pay period posts is an INCOME too.          *)
TransactionTypes == {"EXPENSE", "INCOME", "REFUND", "TRANSFER", "TRADE"}

ASSUME LedgerAssumption ==
    /\ IsFiniteSet(TxIds) /\ TxIds \subseteq Nat
    /\ Types \subseteq TransactionTypes
    /\ Amounts \subseteq Nat
    /\ Dates \subseteq Nat
    /\ Openings \subseteq Int
    /\ MaxFaults \in Nat
    /\ EditKinds \subseteq {"put", "recalculate"}
    /\ None \notin Accounts /\ None \notin TxIds /\ None \notin Int

VARIABLES
    acct,        \* Account: id -> openingBalance and balance
    txs,         \* Transaction: id -> row
    chain,       \* the columns balanceBefore/After and toBalanceBefore/After
    todo,        \* accounts the gate operation in progress has yet to rebuild
    walked,      \* the rows of Head(todo) are rewritten, its total is not
    edit,        \* editor -> the account it has read and is about to write
    driftTotal,  \* history: accounts whose balance column was left wrong
    driftChain,  \* history: accounts whose row columns were left wrong
    faults       \* steps so far that skipped or lost a rebuild

vars == <<acct, txs, chain, todo, walked, edit, driftTotal, driftChain, faults>>

Directions == {"BUY", "SELL"}
Sides == {0, 1}
Unwritten == [before |-> None, after |-> None]

Row == [type : TransactionTypes, dir : Directions \cup {None},
        account : Accounts \cup {None}, toAccount : Accounts \cup {None},
        parent : TxIds \cup {None}, net : Int, date : Dates]

-----------------------------------------------------------------------------
(* What a row does to its accounts. *)

(* SOURCE_DELTA: a TRADE moves cash by the direction of its trade detail,   *)
(* and a row retyped to TRADE by an update has none and moves nothing.      *)
SourceDelta(r) ==
    CASE r.type \in {"INCOME", "REFUND"}         -> r.net
      [] r.type \in {"EXPENSE", "TRANSFER"}      -> -r.net
      [] r.type = "TRADE" /\ r.dir = "SELL"      -> r.net
      [] r.type = "TRADE" /\ r.dir = "BUY"       -> -r.net
      [] OTHER                                   -> 0

OutLegs(t, a) ==
    {[date |-> t[i].date, id |-> i, side |-> 0, delta |-> SourceDelta(t[i])] :
        i \in {j \in DOMAIN t : t[j].account = a /\ t[j].parent = None}}

InLegs(t, a) ==
    {[date |-> t[i].date, id |-> i, side |-> 1, delta |-> t[i].net] :
        i \in {j \in DOMAIN t : /\ t[j].toAccount = a
                                /\ t[j].type = "TRANSFER"
                                /\ t[j].parent = None}}

Legs(t, a) == OutLegs(t, a) \cup InLegs(t, a)

(* The accounts a row names: the ones the gate rebuilds, source first.      *)
Touches(r) == {r.account, r.toAccount} \ {None}
Owed(a) == IF a = None THEN <<>> ELSE <<a>>

(* Wrong: a hook that rebuilds the source of a transfer only.               *)
RebuildSourceOnly(r) == Owed(r.account)
RebuildList(r) == Owed(r.account) \o Owed(r.toAccount)

(* A row and the line items ON DELETE CASCADE takes with it.                *)
WithChildren(t, ids) == ids \cup {i \in DOMAIN t : t[i].parent \in ids}

-----------------------------------------------------------------------------
(* Rebuilding an account. *)

(* recalculate_chain_forward with fill_nulls: the legs in done get the      *)
(* running balance before and after them.                                   *)
WriteLegs(c, legs, opening, done) ==
    [k \in DOMAIN c |->
        IF \E l \in done : <<l.id, l.side>> = k
        THEN LET l == CHOOSE l \in done : <<l.id, l.side>> = k
                 running == RunningAt(legs, opening, l)
             IN  [before |-> running, after |-> running + l.delta]
        ELSE c[k]]

Total(t, a, opening) == opening + SumDelta(Legs(t, a))

(* rebuild_chain for every account of a set, run inside one database        *)
(* transaction with the row changes that made it necessary.                 *)
RebuiltTotals(ac, t, as) ==
    [a \in DOMAIN ac |->
        IF a \in as THEN [ac[a] EXCEPT !.balance = Total(t, a, ac[a].opening)]
        ELSE ac[a]]

RebuiltChain(c, ac, t, as) ==
    [k \in DOMAIN c |->
        IF \E a \in as : \E l \in Legs(t, a) : <<l.id, l.side>> = k
        THEN LET a == CHOOSE a \in as : \E l \in Legs(t, a) : <<l.id, l.side>> = k
             IN  WriteLegs(c, Legs(t, a), ac[a].opening, Legs(t, a))[k]
        ELSE c[k]]

(* Only columns of legs that exist are kept: a row that stops touching an   *)
(* account leaves its old figures behind in the table, and no rebuild reads *)
(* a column before it has written it.                                       *)
Trimmed(c, t) ==
    [k \in DOMAIN c |->
        IF \E a \in Accounts : \E l \in Legs(t, a) : <<l.id, l.side>> = k
        THEN c[k] ELSE Unwritten]
Without(t, ids) == [i \in DOMAIN t \ ids |-> t[i]]
With(t, i, r) == [j \in DOMAIN t \cup {i} |-> IF j = i THEN r ELSE t[j]]

Idle == todo = <<>>
Fault == faults < MaxFaults /\ faults' = faults + 1
NoFault == faults' = faults
Pending == Range(todo)

-----------------------------------------------------------------------------
Init ==
    /\ acct = << >>
    /\ txs = << >>
    /\ chain = [k \in TxIds \X Sides |-> Unwritten]
    /\ todo = <<>>
    /\ walked = FALSE
    /\ edit = [h \in Editors |-> None]
    /\ driftTotal = {}
    /\ driftChain = {}
    /\ faults = 0

-----------------------------------------------------------------------------
(* The gate: one statement that changes a row, then the rebuilds it owes.   *)

(* What a posted row may look like: the rules of the create route and of    *)
(* cross_field_issues.  An update is held to none of them.                  *)
Postable(r) ==
    /\ r.parent = None
    /\ (r.type = "TRADE") <=> (r.dir # None)
    /\ r.type = "TRADE" => r.account # None
    /\ r.type = "TRANSFER" => r.toAccount # None /\ r.account # r.toAccount

(* ledger_create on a bare connection: the INSERT commits, then the         *)
(* balance hook owes a rebuild of the source and of the destination.        *)
CreateTx(i, r) ==
    /\ Idle
    /\ i \notin DOMAIN txs
    /\ Postable(r)
    /\ Touches(r) \subseteq DOMAIN acct
    /\ txs' = With(txs, i, r)
    /\ todo' = RebuildList(r)
    /\ UNCHANGED <<acct, chain, walked, edit, driftTotal, driftChain, faults>>

(* ledger_update: any of the balance-bearing columns may change.  The       *)
(* accounts the row touches now are rebuilt, then the ones it touched.      *)
UpdateTx(i, type, a, b, net, date) ==
    /\ Idle
    /\ i \in DOMAIN txs
    /\ {a, b} \ {None} \subseteq DOMAIN acct
    /\ LET new == [txs[i] EXCEPT !.type = type, !.account = a, !.toAccount = b,
                                 !.net = net, !.date = date]
       IN  /\ txs' = With(txs, i, new)
           /\ todo' = RebuildList(new) \o RebuildList(txs[i])
    /\ chain' = Trimmed(chain, txs')
    /\ UNCHANGED <<acct, walked, edit, driftTotal, driftChain, faults>>

(* ledger_delete behind the route's refusal to delete a split parent.       *)
DeleteTx(i) ==
    /\ Idle
    /\ i \in DOMAIN txs
    /\ WithChildren(txs, {i}) = {i}
    /\ txs' = Without(txs, {i})
    /\ chain' = Trimmed(chain, txs')
    /\ todo' = RebuildList(txs[i])
    /\ UNCHANGED <<acct, walked, edit, driftTotal, driftChain, faults>>

(* Wrong: the walk of ADR-018, which skipped the money coming in.           *)
WalkOutboundRows ==
    /\ ~Idle
    /\ ~walked
    /\ LET a == Head(todo)
           legs == OutLegs(txs, a)
       IN  /\ chain' = WriteLegs(chain, legs, acct[a].opening, legs)
           /\ driftChain' = driftChain \ {a}
    /\ walked' = TRUE
    /\ UNCHANGED <<acct, txs, todo, edit, driftTotal, faults>>

(* rebuild_chain, first half: every row of the account, in chain order.     *)
WalkRows ==
    /\ ~Idle
    /\ ~walked
    /\ LET a == Head(todo)
           legs == Legs(txs, a)
       IN  /\ chain' = WriteLegs(chain, legs, acct[a].opening, legs)
           /\ driftChain' = driftChain \ {a}
    /\ walked' = TRUE
    /\ UNCHANGED <<acct, txs, todo, edit, driftTotal, faults>>

(* Wrong: a total kept as the last figure the rows of the source side give. *)
WriteOutboundTotal ==
    /\ ~Idle
    /\ walked
    /\ LET a == Head(todo)
       IN  /\ acct' = [acct EXCEPT ![a].balance =
                                acct[a].opening + SumDelta(OutLegs(txs, a))]
           /\ driftTotal' = driftTotal \ {a}
    /\ walked' = FALSE
    /\ todo' = Tail(todo)
    /\ UNCHANGED <<txs, chain, edit, driftChain, faults>>

(* rebuild_chain, second half: the account's total.                         *)
WriteTotal ==
    /\ ~Idle
    /\ walked
    /\ LET a == Head(todo)
       IN  /\ acct' = [acct EXCEPT ![a].balance = Total(txs, a, acct[a].opening)]
           /\ driftTotal' = driftTotal \ {a}
    /\ walked' = FALSE
    /\ todo' = Tail(todo)
    /\ UNCHANGED <<txs, chain, edit, driftChain, faults>>

(* A kill, a failed statement or a dropped request in the middle of a gate  *)
(* operation: the walk may have written any prefix of the chain, and the    *)
(* rebuilds still owed are never made.                                      *)
Interrupt ==
    /\ ~Idle
    /\ Fault
    /\ \E done \in SUBSET Legs(txs, Head(todo)) :
         LET a == Head(todo)
             legs == Legs(txs, a)
         IN  /\ IsWalkPrefix(done, legs)
             /\ walked => done = {}
             /\ chain' = WriteLegs(chain, legs, acct[a].opening, done)
    /\ driftTotal' = driftTotal \cup Pending
    /\ driftChain' = driftChain \cup
                        (IF walked THEN Pending \ {Head(todo)} ELSE Pending)
    /\ todo' = <<>>
    /\ walked' = FALSE
    /\ UNCHANGED <<acct, txs, edit>>

-----------------------------------------------------------------------------
(* Rows written past the gate, or through it inside one database            *)
(* transaction: each of these commits as a whole or not at all.             *)

(* transactions_children create: a line item is inserted directly, with its *)
(* parent's account and type.  (Whether it fits its parent is not checked   *)
(* here: the amount is any.)                                                *)
CreateChild(i, p, net) ==
    /\ Idle
    /\ i \notin DOMAIN txs
    /\ p \in DOMAIN txs /\ txs[p].parent = None
    /\ txs[p].type \in {"EXPENSE", "REFUND"}
    /\ txs' = With(txs, i, [txs[p] EXCEPT !.parent = p, !.net = net,
                                        !.toAccount = None, !.dir = None])
    /\ UNCHANGED <<acct, chain, todo, walked, edit, driftTotal, driftChain, faults>>

(* transactions_children delete: a direct DELETE.                           *)
DeleteChild(i) ==
    /\ Idle
    /\ i \in DOMAIN txs /\ txs[i].parent # None
    /\ txs' = Without(txs, {i})
    /\ chain' = Trimmed(chain, txs')
    /\ UNCHANGED <<acct, todo, walked, edit, driftTotal, driftChain, faults>>

(* A batch of gate operations in one database transaction leaves newTxs,    *)
(* with every account of a removed or an added row rebuilt.                 *)
CommitBatch(newTxs, touched) ==
    /\ Idle
    /\ txs' = newTxs
    /\ acct' = RebuiltTotals(acct, newTxs, touched)
    /\ chain' = RebuiltChain(Trimmed(chain, newTxs), acct, newTxs, touched)
    /\ driftTotal' = driftTotal \ touched
    /\ driftChain' = driftChain \ touched
    /\ UNCHANGED <<todo, walked, edit, faults>>

(* purchases create, split over several accounts: an anchor that names no   *)
(* account and carries the total, and one leg for each payment.             *)
CreatePurchase(anchor, pay, date) ==
    /\ ({anchor} \cup DOMAIN pay) \cap DOMAIN txs = {}
    /\ anchor \notin DOMAIN pay
    /\ Cardinality(DOMAIN pay) > 1
    /\ \A i \in DOMAIN pay : pay[i].account \in DOMAIN acct
    /\ LET blank == [type |-> "EXPENSE", dir |-> None, account |-> None,
                     toAccount |-> None, parent |-> None, net |-> 0, date |-> date]
           sum == SumDelta({[id |-> i, delta |-> pay[i].net] : i \in DOMAIN pay})
           new == [i \in {anchor} \cup DOMAIN pay |->
                     IF i = anchor THEN [blank EXCEPT !.net = sum]
                     ELSE [blank EXCEPT !.account = pay[i].account, !.net = pay[i].net]]
       IN  CommitBatch([i \in DOMAIN txs \cup DOMAIN new |->
                            IF i \in DOMAIN new THEN new[i] ELSE txs[i]],
                       {pay[i].account : i \in DOMAIN pay})

(* purchases delete, delete_imported, bulk_delete "imported-transactions":  *)
(* ledger_delete of each row of a set, line items going with their parents. *)
DeleteRows(ids) ==
    /\ ids # {} /\ ids \subseteq DOMAIN txs
    /\ \A i \in ids : txs[i].parent = None
    /\ LET gone == WithChildren(txs, ids)
       IN  CommitBatch(Without(txs, gone), UNION {Touches(txs[i]) : i \in ids})

(* wipe_all_transactions: every row goes and every balance is the opening   *)
(* balance again.                                                           *)
WipeAll ==
    /\ Idle
    /\ txs' = << >>
    /\ chain' = Trimmed(chain, txs')
    /\ acct' = [a \in DOMAIN acct |-> [acct[a] EXCEPT !.balance = acct[a].opening]]
    /\ driftTotal' = {}
    /\ driftChain' = {}
    /\ UNCHANGED <<todo, walked, edit, faults>>

-----------------------------------------------------------------------------
(* Accounts. *)

CreateAccount(a, opening) ==
    /\ Idle
    /\ a \notin DOMAIN acct
    /\ \A h \in Editors : edit[h] # None => edit[h].id # a
    /\ acct' = [x \in DOMAIN acct \cup {a} |->
                  IF x = a THEN [opening |-> opening, balance |-> opening] ELSE acct[x]]
    /\ UNCHANGED <<txs, chain, todo, walked, edit, driftTotal, driftChain, faults>>

(* Wrong: only the rows paid out of the account go with it.                 *)
DeleteAccountSource(a) ==
    /\ Idle
    /\ a \in DOMAIN acct
    /\ txs' = Without(txs, {i \in DOMAIN txs : txs[i].account = a})
    /\ acct' = [x \in DOMAIN acct \ {a} |-> acct[x]]
    /\ chain' = Trimmed(chain, txs')
    /\ driftTotal' = driftTotal \ {a}
    /\ driftChain' = driftChain \ {a}
    /\ UNCHANGED <<todo, walked, edit, faults>>

(* accounts delete: the rows of the account go in one transaction, by a     *)
(* plain DELETE; the account at the other end of a transfer keeps the       *)
(* balance and the chain that counted it.                                   *)
DeleteAccount(a) ==
    /\ Idle
    /\ a \in DOMAIN acct
    /\ LET mine == {i \in DOMAIN txs : a \in Touches(txs[i])}
           gone == WithChildren(txs, mine)
           left == (UNION {Touches(txs[i]) : i \in {j \in gone : txs[j].parent = None}}) \ {a}
       IN  /\ txs' = Without(txs, gone)
           /\ chain' = Trimmed(chain, txs')
           /\ driftTotal' = (driftTotal \cup left) \ {a}
           /\ driftChain' = (driftChain \cup left) \ {a}
           /\ IF left = {} THEN NoFault ELSE Fault
    /\ acct' = [x \in DOMAIN acct \ {a} |-> acct[x]]
    /\ UNCHANGED <<todo, walked, edit>>

(* PUT /accounts/:id and POST /accounts/:id/recalculate-balance read the    *)
(* account and give the connection back before they write.                  *)
Editing(h, kind) == edit[h] # None /\ edit[h].kind = kind

ReadAccount(h, a, kind) ==
    /\ Idle
    /\ edit[h] = None
    /\ a \in DOMAIN acct
    /\ edit' = [edit EXCEPT ![h] = [kind |-> kind, id |-> a, opening |-> acct[a].opening,
                                    balance |-> acct[a].balance]]
    /\ UNCHANGED <<acct, txs, chain, todo, walked, driftTotal, driftChain, faults>>

(* accounts update: every column is written, from the request where it      *)
(* names one and from what was read where it does not; a rebuild is to      *)
(* follow when the opening balance differs from the one that was read.      *)
WritePut(h, opening, balance) ==
    /\ Idle
    /\ Editing(h, "put")
    /\ LET a == edit[h].id
           new == [opening |-> IF opening = None THEN edit[h].opening ELSE opening,
                   balance |-> IF balance = None THEN edit[h].balance ELSE balance]
       IN  IF a \notin DOMAIN acct
           THEN /\ edit' = [edit EXCEPT ![h] = None]
                /\ UNCHANGED <<acct, driftTotal, driftChain, faults>>
           ELSE /\ acct' = [acct EXCEPT ![a] = new]
                /\ edit' = [edit EXCEPT ![h] = IF new.opening = edit[h].opening THEN None
                                               ELSE [edit[h] EXCEPT !.kind = "rebuild"]]
                /\ driftTotal' = IF new = acct[a] THEN driftTotal ELSE driftTotal \cup {a}
                /\ driftChain' = IF new.opening = acct[a].opening THEN driftChain
                                 ELSE driftChain \cup {a}
                /\ IF new = acct[a] THEN NoFault ELSE Fault
    /\ UNCHANGED <<txs, chain, todo, walked>>

(* The rebuild that follows, on a connection taken anew.                    *)
RebuildEdited(h) ==
    /\ Idle
    /\ Editing(h, "rebuild")
    /\ todo' = IF edit[h].id \in DOMAIN acct THEN <<edit[h].id>> ELSE <<>>
    /\ edit' = [edit EXCEPT ![h] = None]
    /\ UNCHANGED <<acct, txs, chain, walked, driftTotal, driftChain, faults>>

(* recalculate_balance: the rows are summed now, on top of the opening      *)
(* balance read earlier.                                                    *)
WriteRecalculated(h) ==
    /\ Idle
    /\ Editing(h, "recalculate")
    /\ LET a == edit[h].id
       IN  IF a \notin DOMAIN acct
           THEN UNCHANGED <<acct, driftTotal, faults>>
           ELSE /\ acct' = [acct EXCEPT ![a].balance = Total(txs, a, edit[h].opening)]
                /\ driftTotal' = IF edit[h].opening = acct[a].opening
                                 THEN driftTotal \ {a} ELSE driftTotal \cup {a}
                /\ IF edit[h].opening = acct[a].opening THEN NoFault ELSE Fault
    /\ edit' = [edit EXCEPT ![h] = None]
    /\ UNCHANGED <<txs, chain, todo, walked, driftChain>>

(* A handler that has read an account and is dropped before it is done.     *)
AbandonEdit(h) ==
    /\ edit[h] # None
    /\ edit' = [edit EXCEPT ![h] = None]
    /\ UNCHANGED <<acct, txs, chain, todo, walked, driftTotal, driftChain, faults>>

(* rebuild_balance_chain: the repair a user can ask for.                    *)
RebuildAccount(a) ==
    /\ Idle
    /\ a \in DOMAIN acct
    /\ todo' = <<a>>
    /\ UNCHANGED <<acct, txs, chain, walked, edit, driftTotal, driftChain, faults>>

-----------------------------------------------------------------------------
MaybeAccount == Accounts \cup {None}

Next ==
    \/ \E i \in TxIds, type \in Types, dir \in Directions \cup {None},
          a, b \in MaybeAccount, net \in Amounts, date \in Dates :
          CreateTx(i, [type |-> type, dir |-> dir, account |-> a, toAccount |-> b,
                       parent |-> None, net |-> net, date |-> date])
    \/ \E i \in TxIds, type \in Types, a, b \in MaybeAccount,
          net \in Amounts, date \in Dates : UpdateTx(i, type, a, b, net, date)
    \/ \E i \in TxIds : DeleteTx(i)
    \/ WalkRows
    \/ WriteTotal
    \/ Interrupt
    \/ \E i, p \in TxIds, net \in Amounts : CreateChild(i, p, net)
    \/ \E i \in TxIds : DeleteChild(i)
    \/ \E anchor \in TxIds, ids \in SUBSET TxIds, date \in Dates :
          \E pay \in [ids -> [account : Accounts, net : Amounts]] :
            CreatePurchase(anchor, pay, date)
    \/ \E ids \in SUBSET TxIds : DeleteRows(ids)
    \/ WipeAll
    \/ \E a \in Accounts, opening \in Openings : CreateAccount(a, opening)
    \/ \E a \in Accounts : DeleteAccount(a)
    \/ \E h \in Editors, a \in Accounts, kind \in EditKinds : ReadAccount(h, a, kind)
    \/ \E h \in Editors, opening, balance \in Openings \cup {None} : WritePut(h, opening, balance)
    \/ \E h \in Editors : RebuildEdited(h)
    \/ \E h \in Editors : WriteRecalculated(h)
    \/ \E h \in Editors : AbandonEdit(h)
    \/ \E a \in Accounts : RebuildAccount(a)

Spec == Init /\ [][Next]_vars

-----------------------------------------------------------------------------
(* Properties. *)

(* The variables hold what their columns may hold, and a row, an in-flight  *)
(* edit or an owed rebuild names only things that exist.                    *)
Column == [before : Int \cup {None}, after : Int \cup {None}]
Edit == [kind : EditKinds \cup {"rebuild"}, id : Accounts, opening : Int, balance : Int]

TypeOK ==
    /\ DOMAIN acct \subseteq Accounts
    /\ acct \in [DOMAIN acct -> [opening : Int, balance : Int]]
    /\ DOMAIN txs \subseteq TxIds
    /\ txs \in [DOMAIN txs -> Row]
    /\ \A i \in DOMAIN txs : Touches(txs[i]) \subseteq DOMAIN acct
    /\ chain \in [TxIds \X Sides -> Column]
    /\ todo \in Seq(DOMAIN acct)
    /\ walked \in BOOLEAN /\ (Idle => ~walked)
    /\ edit \in [Editors -> Edit \cup {None}]
    /\ driftTotal \subseteq DOMAIN acct
    /\ driftChain \subseteq DOMAIN acct
    /\ faults \in 0 .. MaxFaults

(* openingBalance + SUM(signed transactions) = balance, by the balance      *)
(* module's own walk.                                                       *)
TotalIsRight(a) == acct[a].balance = Total(txs, a, acct[a].opening)

(* An account's balance is its opening balance plus what its rows apply,    *)
(* unless a step that skips the rebuild has touched it since it was last    *)
(* rebuilt: what ledger.rs promises of every write through the gate.        *)
BalanceSound ==
    \A a \in DOMAIN acct : a \notin driftTotal \cup Pending => TotalIsRight(a)

(* The columns of an account's rows form one chain from the opening balance:*)
(* the first row starts at it, each row starts where the row before it      *)
(* ended, and moves by what it applies (ADR-014, ADR-018).                  *)
Follows(legs, k, l) ==
    Precedes(k, l) /\ ~\E m \in legs : Precedes(k, m) /\ Precedes(m, l)
Col(l) == chain[<<l.id, l.side>>]
ChainIsRight(a) ==
    LET legs == Legs(txs, a)
    IN  \A l \in legs :
          /\ Col(l).before # None
          /\ Col(l).after = Col(l).before + l.delta
          /\ Earlier(legs, l) = {} => Col(l).before = acct[a].opening
          /\ \A k \in legs : Follows(legs, k, l) => Col(l).before = Col(k).after
ChainSound ==
    \A a \in DOMAIN acct : a \notin driftChain \cup Pending => ChainIsRight(a)

(* The account total and the last row of its chain are the same figure      *)
(* whenever neither was left behind: the number the accounts page shows is  *)
(* the one the ledger page ends on.                                         *)
LedgersAgree ==
    \A a \in DOMAIN acct \ (driftTotal \cup driftChain \cup Pending) :
        \A l \in Legs(txs, a) :
            (\A k \in Legs(txs, a) : ~Precedes(l, k)) => Col(l).after = acct[a].balance

-----------------------------------------------------------------------------
(* What the comments of the code promise and the code does not keep. *)

(* ledger.rs:3, "Every mutation of the Transaction table goes through here":*)
(* no account that adds up stops adding up when another one is deleted.     *)
DeletionKeepsOthersRight ==
    [][\A a \in Accounts : DeleteAccount(a) =>
         \A x \in DOMAIN acct \ {a} : TotalIsRight(x) => TotalIsRight(x)']_vars

=============================================================================
