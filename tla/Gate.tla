-------------------------------- MODULE Gate --------------------------------
(* The ledger gate of the TypeScript backend (lib/lifecycle/ledger.ts and   *)
(* balance.ts), as the account totals see it, with the routes that write a  *)
(* total past the gate: the recalculation of one account and DELETE         *)
(* /transactions/imported.                                                  *)
(*                                                                          *)
(* Postgres serves many connections and the gate opens no transaction of    *)
(* its own: every statement of a request commits by itself, and requests    *)
(* interleave between any two of them. An increment of a balance is one     *)
(* atomic statement. A request that dies, or the process under it, leaves   *)
(* what it has written; `drift` remembers what is thereby missing from a    *)
(* total. The chain of balances along the rows is Chain's subject.          *)
EXTENDS Integers, Sequences, FiniteSets, FiniteSetsExt

CONSTANTS
    Accounts, Ids,
    ImportedIds,   \* those of Ids a CSV import wrote
    Handlers,      \* requests in flight at once
    Types,         \* of {"EXPENSE", "INCOME", "TRANSFER"}; REFUND and TRADE move like one of them
    Amounts, Openings,
    Requests,      \* of {"create", "update", "delete", "recalculate", "deleteImported"}
    Overlap,       \* whether requests that concern the same row may overlap
    MaxFaults,     \* bound on the requests that die
    None

ASSUME GateAssumption ==
    /\ IsFiniteSet(Ids) /\ IsFiniteSet(Handlers)
    /\ ImportedIds \subseteq Ids
    /\ Types \subseteq {"EXPENSE", "INCOME", "TRANSFER"}
    /\ Amounts \subseteq Nat \ {0} /\ Openings \subseteq Int
    /\ Requests \subseteq {"create", "update", "delete", "recalculate", "deleteImported"}
    /\ Overlap \in BOOLEAN /\ MaxFaults \in Nat
    /\ None \notin Accounts \cup Ids

VARIABLES
    opening,   \* Account.openingBalance
    balance,   \* Account.balance
    rows,      \* the Transaction table
    jobs,      \* what each request is doing
    drift,     \* history: what the totals are known to lack
    faults     \* requests that died so far

vars == <<opening, balance, rows, jobs, drift, faults>>

----------------------------------------------------------------------------
Rows ==
    {r \in [type : Types, amount : Amounts, from : Accounts, to : Accounts \cup {None}] :
        IF r.type = "TRANSFER" THEN r.to \notin {None, r.from} ELSE r.to = None}

ASSUME NoneIsNoRow == None \notin Rows

Leg == [account : Accounts, delta : Int]

(* applyTransactionToBalances with multiplier m: one UPDATE for each leg.   *)
LegsOf(r, m) ==
    LET out == [account |-> r.from, delta |-> m * (IF r.type = "INCOME" THEN r.amount ELSE -r.amount)]
        in == [account |-> r.to, delta |-> m * r.amount]
    IN  IF r.type = "TRANSFER" THEN <<out, in>> ELSE <<out>>

SumOfLegs(legs, a) ==
    MapThenSumSet(LAMBDA i : legs[i].delta, {i \in DOMAIN legs : legs[i].account = a})

Moves(r, a) == SumOfLegs(LegsOf(r, 1), a)
Moved(row, a) == IF row = None THEN 0 ELSE Moves(row, a)

(* The sum the recalculation and the mass deletion read from the rows.      *)
RowSum(a) == MapThenSumSet(LAMBDA i : Moved(rows[i], a), Ids)

(* step: what the request does next. id, old and new: the row it concerns,  *)
(* as read and as written; legs: increments it still owes; accounts: those  *)
(* it has yet to recompute; sum: the figure it read for the one at hand.    *)
Idle == [step |-> "idle", id |-> None, old |-> None, new |-> None, legs |-> <<>>,
         accounts |-> {}, account |-> None, sum |-> 0]

Steps == {"idle", "created", "read", "written", "deleting", "legs", "wiping", "zeroed", "summed"}

Job == [step : Steps, id : Ids \cup {None}, old : Rows \cup {None}, new : Rows \cup {None},
        legs : Seq(Leg), accounts : SUBSET Accounts, account : Accounts \cup {None}, sum : Int]

Active == {h \in Handlers : jobs[h] # Idle}
Recomputes(h) == jobs[h].step \in {"wiping", "zeroed", "summed"}

(* Requests that concern one row do not overlap, nor does anything overlap  *)
(* a recomputation: what one window that waits for its answers does.        *)
MayStart(ids) ==
    Overlap \/ \A h \in Active : ~Recomputes(h) /\ jobs[h].id \notin ids

SetJob(h, job) == jobs' = [jobs EXCEPT ![h] = job]
Done(legs) == IF legs = <<>> THEN Idle ELSE [Idle EXCEPT !.step = "legs", !.legs = legs]

Init ==
    /\ opening \in [Accounts -> Openings]
    /\ balance = opening
    /\ rows = [i \in Ids |-> None]
    /\ jobs = [h \in Handlers |-> Idle]
    /\ drift = [a \in Accounts |-> 0]
    /\ faults = 0

----------------------------------------------------------------------------
(* ledgerCreate: insert, read the row back, dispatch 'created'.             *)
CreateRow(h, i, r) ==
    /\ "create" \in Requests /\ jobs[h] = Idle /\ rows[i] = None /\ MayStart({i})
    /\ rows' = [rows EXCEPT ![i] = r]
    /\ SetJob(h, [Idle EXCEPT !.step = "created", !.id = i, !.new = r])
    /\ UNCHANGED <<opening, balance, drift, faults>>

(* findUniqueOrThrow: the hooks see the row as it is by now, and a row that *)
(* is gone fails the request before any hook.                               *)
ReadBackCreated(h) ==
    /\ jobs[h].step = "created"
    /\ SetJob(h, IF rows[jobs[h].id] = None THEN Idle
                 ELSE [Done(LegsOf(rows[jobs[h].id], 1)) EXCEPT !.id = jobs[h].id])
    /\ UNCHANGED <<opening, balance, rows, drift, faults>>

(* ledgerUpdate reads the old row,                                          *)
ReadOld(h, i) ==
    /\ "update" \in Requests /\ jobs[h] = Idle /\ rows[i] # None /\ MayStart({i})
    /\ SetJob(h, [Idle EXCEPT !.step = "read", !.id = i, !.old = rows[i]])
    /\ UNCHANGED <<opening, balance, rows, drift, faults>>

(* Wrong: the destination of the old row is kept.                           *)
WriteRowKeepingTo(h, r) ==
    /\ jobs[h].step = "read" /\ rows[jobs[h].id] # None
    /\ rows' = [rows EXCEPT ![jobs[h].id] = [r EXCEPT !.to = rows[jobs[h].id].to]]
    /\ SetJob(h, [jobs[h] EXCEPT !.step = "written", !.new = r])
    /\ UNCHANGED <<opening, balance, drift, faults>>

(* writes the columns of the request over it, whatever they hold by now,    *)
WriteRow(h, r) ==
    /\ jobs[h].step = "read"
    /\ IF rows[jobs[h].id] = None
       THEN SetJob(h, Idle) /\ UNCHANGED rows
       ELSE /\ rows' = [rows EXCEPT ![jobs[h].id] = r]
            /\ SetJob(h, [jobs[h] EXCEPT !.step = "written", !.new = r])
    /\ UNCHANGED <<opening, balance, drift, faults>>

(* Wrong: the new row is applied, the old one not reversed.                 *)
ReadBackUnreversed(h) ==
    /\ jobs[h].step = "written"
    /\ SetJob(h, [Done(LegsOf(rows[jobs[h].id], 1)) EXCEPT !.id = jobs[h].id])
    /\ UNCHANGED <<opening, balance, rows, drift, faults>>

(* and reads it back; the balance hook reverses the one and applies the     *)
(* other.                                                                   *)
ReadBackUpdated(h) ==
    /\ jobs[h].step = "written"
    /\ SetJob(h, IF rows[jobs[h].id] = None THEN Idle
                 ELSE [Done(LegsOf(jobs[h].old, -1) \o LegsOf(rows[jobs[h].id], 1))
                         EXCEPT !.id = jobs[h].id])
    /\ UNCHANGED <<opening, balance, rows, drift, faults>>

(* ledgerDelete reads the row,                                              *)
ReadDoomed(h, i) ==
    /\ "delete" \in Requests /\ jobs[h] = Idle /\ rows[i] # None /\ MayStart({i})
    /\ SetJob(h, [Idle EXCEPT !.step = "deleting", !.id = i, !.old = rows[i]])
    /\ UNCHANGED <<opening, balance, rows, drift, faults>>

(* deletes it, which throws when it is gone, and reverses what it read.     *)
DeleteRow(h) ==
    /\ jobs[h].step = "deleting"
    /\ rows' = [rows EXCEPT ![jobs[h].id] = None]
    /\ SetJob(h, IF rows[jobs[h].id] = None THEN Idle
                 ELSE [Done(LegsOf(jobs[h].old, -1)) EXCEPT !.id = jobs[h].id])
    /\ UNCHANGED <<opening, balance, drift, faults>>

ApplyLeg(h) ==
    /\ jobs[h].step = "legs"
    /\ LET leg == Head(jobs[h].legs)
           rest == Tail(jobs[h].legs)
       IN  /\ balance' = [balance EXCEPT ![leg.account] = @ + leg.delta]
           /\ SetJob(h, [Done(rest) EXCEPT !.id = IF rest = <<>> THEN None ELSE jobs[h].id])
    /\ UNCHANGED <<opening, rows, drift, faults>>

(* recalculateAccountBalance reads the opening balance and the rows of one  *)
(* account and writes the sum.                                              *)
ReadSum(h, a) ==
    /\ "recalculate" \in Requests /\ jobs[h] = Idle
    /\ Overlap \/ Active = {}
    /\ SetJob(h, [Idle EXCEPT !.step = "summed", !.account = a, !.sum = opening[a] + RowSum(a)])
    /\ UNCHANGED <<opening, balance, rows, drift, faults>>

(* DELETE /transactions/imported: one deleteMany past the gate,             *)
DeleteImported(h) ==
    /\ "deleteImported" \in Requests /\ jobs[h] = Idle
    /\ Overlap \/ Active = {}
    /\ \E i \in ImportedIds : rows[i] # None
    /\ rows' = [i \in Ids |-> IF i \in ImportedIds THEN None ELSE rows[i]]
    /\ SetJob(h, [Idle EXCEPT !.step = "wiping", !.accounts = Accounts])
    /\ UNCHANGED <<opening, balance, drift, faults>>

(* then every account is summed again: `let balance = 0`, not the opening.  *)
SumFromZero(h, a) ==
    /\ jobs[h].step = "wiping" /\ a \in jobs[h].accounts
    /\ SetJob(h, [jobs[h] EXCEPT !.step = "zeroed", !.account = a, !.sum = RowSum(a),
                                 !.accounts = @ \ {a}])
    /\ UNCHANGED <<opening, balance, rows, drift, faults>>

WriteSum(h) ==
    /\ jobs[h].step \in {"zeroed", "summed"}
    /\ LET a == jobs[h].account IN
       /\ balance' = [balance EXCEPT ![a] = jobs[h].sum]
       /\ drift' = [drift EXCEPT ![a] = IF jobs[h].step = "zeroed" THEN opening[a] ELSE 0]
    /\ SetJob(h, IF jobs[h].accounts = {} THEN Idle
                 ELSE [jobs[h] EXCEPT !.step = "wiping", !.account = None, !.sum = 0])
    /\ UNCHANGED <<opening, rows, faults>>

(* An account that a recomputation has yet to write.                        *)
Recomputed(a) ==
    \E h \in Handlers : Recomputes(h) /\ a \in jobs[h].accounts \cup {jobs[h].account}

(* What a request has promised the totals and not yet written.              *)
Pending(h, a) ==
    LET j == jobs[h] IN
    CASE j.step = "created" -> Moves(j.new, a)
      [] j.step = "written" -> Moves(j.new, a) - Moves(j.old, a)
      [] j.step = "legs"    -> SumOfLegs(j.legs, a)
      [] OTHER              -> 0

(* The request dies where it stands: a statement fails, the client hangs up *)
(* or the process stops. What it has not written nobody writes; a mass      *)
(* deletion that dies leaves the accounts it did not reach as they were.    *)
Die(h) ==
    /\ faults < MaxFaults /\ jobs[h] # Idle
    /\ SetJob(h, Idle)
    /\ drift' = [a \in Accounts |->
                    IF Recomputed(a) THEN opening[a] + RowSum(a) - balance[a]
                                     ELSE drift[a] + Pending(h, a)]
    /\ faults' = faults + 1
    /\ UNCHANGED <<opening, balance, rows>>

Next ==
    \E h \in Handlers :
        \/ \E i \in Ids : (\E r \in Rows : CreateRow(h, i, r)) \/ ReadOld(h, i) \/ ReadDoomed(h, i)
        \/ \E r \in Rows : WriteRow(h, r)
        \/ ReadBackCreated(h) \/ ReadBackUpdated(h) \/ DeleteRow(h) \/ ApplyLeg(h)
        \/ DeleteImported(h) \/ WriteSum(h) \/ Die(h)
        \/ \E a \in Accounts : ReadSum(h, a) \/ SumFromZero(h, a)

Spec == Init /\ [][Next]_vars

----------------------------------------------------------------------------
TypeOK ==
    /\ opening \in [Accounts -> Openings]
    /\ balance \in [Accounts -> Int] /\ drift \in [Accounts -> Int]
    /\ rows \in [Ids -> Rows \cup {None}]
    /\ jobs \in [Handlers -> Job]
    /\ faults \in 0..MaxFaults

(* The totals as they will be when the requests under way are through: an   *)
(* account that is being recomputed gets what its rows say.                 *)
Settled(a) ==
    IF Recomputed(a) THEN opening[a] + RowSum(a)
    ELSE balance[a] + drift[a] + MapThenSumSet(LAMBDA h : Pending(h, a), Handlers)

TheBook == INSTANCE Book WITH entries <- rows, total <- [a \in Accounts |-> Settled(a)]

(* Requests on different rows may interleave between any two statements,    *)
(* and die anywhere: with what they still owe and what deaths are known to  *)
(* have taken away, the totals follow the book. The atomic increments and   *)
(* the reversal of the row as it was read.                                  *)
ImplementsBook == TheBook!BookSpec

(* "any change here must preserve the invariant the ledger-integrity check  *)
(* asserts": without a death, a quiet ledger has no drift.                  *)
OpeningIsKept ==
    Active = {} /\ faults = 0 => \A a \in Accounts : balance[a] = opening[a] + RowSum(a)
=============================================================================
