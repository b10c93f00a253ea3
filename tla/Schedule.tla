------------------------------ MODULE Schedule ------------------------------
(***************************************************************************)
(* The schedule of one recurring item and the payments that settle it:     *)
(* the generator (src/rust/db/src/schedule_generator.rs), the matcher      *)
(* (schedule_matcher.rs), the pay, snooze and skip routes                  *)
(* (src/rust/api/src/scheduled.rs) and the edits that invalidate rows      *)
(* (recurring.rs, utilities.rs).                                           *)
(*                                                                         *)
(* The generator and every ledger operation hold the one connection from   *)
(* beginning to end, so each is one action.  The routes of scheduled.rs    *)
(* and recurring.rs take the connection anew for each statement: such a    *)
(* request is a record of the variable req, and others run between its     *)
(* steps.                                                                  *)
(*                                                                         *)
(* A behaviour belongs to one of the Workloads: whether the item is an     *)
(* income or an expense, which days, prices and requests it has, and       *)
(* whether requests are served one at a time.                              *)
(*                                                                         *)
(* A row of the schedule is named here by its due date, which the unique   *)
(* index on (sourceType, sourceId, dueDate) allows; the code names it by   *)
(* an id, and a row generated again has another one.  A request in flight  *)
(* therefore remembers whether the id it holds still names a row.          *)
(***************************************************************************)
EXTENDS Integers, FiniteSets

CONSTANTS
    Workloads,    \* what a behaviour may be made of
    MonthLength,  \* days of a month of the model
    MatchWindow,  \* MATCH_WINDOW_DAYS
    Weekly,       \* whether the item recurs weekly or biweekly
    WholeMonths,  \* whether pages ask for whole months
    None          \* the SQL NULL, an idle handler

Kinds == {"pay", "snooze", "skip", "edit", "archive", "put", "unlink", "relink",
          "deleteItem", "deleteAccount"}

ASSUME ScheduleAssumption ==
    /\ MonthLength \in Nat \ {0} /\ MatchWindow \in Nat
    /\ Weekly \in BOOLEAN /\ WholeMonths \in BOOLEAN
    /\ \A w \in Workloads :
        /\ w.days \subseteq Nat \ {0} /\ w.prices \subseteq Nat \ {0}
        /\ w.income \in BOOLEAN /\ w.serial \in BOOLEAN /\ w.rules \subseteq SUBSET w.days
        /\ w.requests \subseteq Kinds
        /\ None \notin w.txIds \cup w.days \cup w.prices /\ None \notin {"item", "other"}

VARIABLES
    rule,     \* the due dates the item's settings yield now
    price,    \* what an occurrence costs now
    archived, \* Expense.archivedAt is set
    sched,    \* due date -> row of ScheduledTransaction
    txs,      \* transaction id -> its link, to the item or to another one
              \* (expenseId, incomeId), the occurrence it is for
              \* (occurrenceDate, else date), its amount
    req,      \* handler -> the request it is serving
    workload  \* what this behaviour is made of

vars == <<rule, price, archived, sched, txs, req, workload>>

Days == workload.days          \* due dates and payment dates
Prices == workload.prices      \* cents an item may cost and a payment may come to
Rules == workload.rules        \* the sets of due dates the settings of the item may yield
TxIds == workload.txIds        \* ids of transactions
Handlers == workload.handlers  \* requests that may be in flight at once
Serial == workload.serial      \* whether requests run one at a time
Requests == workload.requests  \* the kinds of request in use
Income == workload.income      \* whether the item is an income

Statuses == {"PENDING", "PAID", "PARTIAL", "SKIPPED", "SNOOZED"}

Row == [status : Statuses, tx : TxIds \cup {None},
        expected : Prices, actual : Prices \cup {None}]

Payment == [link : {"item", "other", None}, day : Days, amount : Prices]

Request == [kind : {"pay", "snooze", "skip", "edit", "archive"},
            step : {"create", "link", "attach", "write"},
            due : Days \cup {None},        \* the row asked for
            valid : BOOLEAN,               \* whether its id still names a row
            expected : Prices \cup {None}, \* its expected amount, when read
            amount : Prices \cup {None},   \* what is paid
            tx : TxIds \cup {None},        \* the transaction entered
            snoozed : BOOLEAN]             \* an edit that moves dates

Month(d) == (d - 1) \div MonthLength
Apart(d, e) == IF d > e THEN d - e ELSE e - d

Fulfilled == {d \in DOMAIN sched : sched[d].status \in {"PAID", "PARTIAL"}}
Pending(s) == {d \in DOMAIN s : s[d].status = "PENDING"}
LinkedTo(s, i) == {d \in DOMAIN s : s[d].tx = i}

Quiet == Serial => \A h \in Handlers : req[h] = None
Idle(h) == req[h] = None /\ Quiet
At(h, kind, step) == req[h] # None /\ req[h].kind = kind /\ req[h].step = step
Done(h) == [req EXCEPT ![h] = None]

(* The requests in flight, once the rows at ds are deleted. *)
Forgetting(ds) ==
    [h \in Handlers |-> IF req[h] # None /\ req[h].due \in ds
                        THEN [req[h] EXCEPT !.valid = FALSE] ELSE req[h]]

Blank == [kind |-> "pay", step |-> "write", due |-> None, valid |-> TRUE,
          expected |-> None, amount |-> None, tx |-> None, snoozed |-> FALSE]

Init ==
    /\ workload \in Workloads
    /\ rule \in Rules
    /\ price \in Prices
    /\ archived = FALSE
    /\ sched = << >>
    /\ txs = << >>
    /\ req = [h \in Handlers |-> None]

-----------------------------------------------------------------------------
(* The generator. *)

(* Wrong: what is fulfilled is told by the date alone.                      *)
SuppressedByDate(d, from, to) ==
    \E e \in Fulfilled : from <= e /\ e <= to /\ e = d

(* An occurrence that is paid already: of that date for a weekly item, of   *)
(* that month for any other, among the rows of the window.                  *)
Suppressed(d, from, to) ==
    \E e \in Fulfilled : /\ from <= e /\ e <= to
                         /\ IF Weekly THEN e = d ELSE Month(e) = Month(d)

Computed(from, to) ==
    {d \in rule : from <= d /\ d <= to /\ ~archived /\ ~Suppressed(d, from, to)}

Pruned(from, to) == {d \in Pending(sched) : from <= d /\ d <= to} \ Computed(from, to)

(* The windows pages ask for.                                               *)
Asked(from, to) ==
    /\ from <= to
    /\ WholeMonths => (from - 1) % MonthLength = 0 /\ to % MonthLength = 0

(* generate: a new row for each occurrence without one, the price of a      *)
(* pending row refreshed in place, pending rows without an occurrence       *)
(* pruned.                                                                  *)
Generate(from, to) ==
    /\ Quiet
    /\ Asked(from, to)
    /\ LET wanted == Computed(from, to)
           gone == Pruned(from, to)
       IN  /\ sched' = [d \in (DOMAIN sched \cup wanted) \ gone |->
                           IF d \notin DOMAIN sched
                           THEN [status |-> "PENDING", tx |-> None,
                                 expected |-> price, actual |-> None]
                           ELSE IF d \in wanted /\ sched[d].status = "PENDING"
                                THEN [sched[d] EXCEPT !.expected = price]
                                ELSE sched[d]]
           /\ req' = Forgetting(gone)
    /\ UNCHANGED <<rule, price, archived, txs>>

-----------------------------------------------------------------------------
(* The matcher. *)

StatusFor(actual, expected) == IF actual >= expected THEN "PAID" ELSE "PARTIAL"

Attached(s, d, i, amount) ==
    [s EXCEPT ![d].tx = i, ![d].actual = amount,
              ![d].status = StatusFor(amount, s[d].expected)]

(* Pending rows in the window of a day.  A due date is stored with a time   *)
(* of day and compared, as text, with an upper bound that has none, so the  *)
(* last day of the window is left out.                                      *)
Candidates(s, day) ==
    {d \in Pending(s) : day - MatchWindow <= d /\ d < day + MatchWindow}

Closest(s, day) ==
    LET rows == Candidates(s, day)
    IN  {d \in rows : \A e \in rows : Apart(d, day) <= Apart(e, day)}

(* on_created: the schedules it may leave. *)
OnCreated(s, i, day, amount) ==
    IF LinkedTo(s, i) # {} \/ Closest(s, day) = {} THEN {s}
    ELSE {Attached(s, d, i, amount) : d \in Closest(s, day)}

(* Wrong: nothing is released.                                              *)
NotReleased(s, i) == [d \in DOMAIN s |-> IF s[d].tx = i THEN [s[d] EXCEPT !.tx = None]
                                                        ELSE s[d]]

(* on_deleted. *)
Released(s, i) ==
    [d \in DOMAIN s |-> IF s[d].tx = i
                        THEN [s[d] EXCEPT !.status = "PENDING", !.tx = None, !.actual = None]
                        ELSE s[d]]

(* Wrong: a link is for ever.                                               *)
OnUpdatedKeeps(s, i, day, amount) ==
    IF LinkedTo(s, i) = {} THEN OnCreated(s, i, day, amount)
    ELSE {[d \in DOMAIN s |-> IF s[d].tx = i THEN Attached(s, d, i, amount)[d] ELSE s[d]]}

(* Wrong: a payment in range keeps the status it was matched with.          *)
OnUpdatedStale(s, i, day, amount) ==
    IF LinkedTo(s, i) = {} THEN OnCreated(s, i, day, amount)
    ELSE IF \E d \in LinkedTo(s, i) : Apart(d, day) > MatchWindow
         THEN OnCreated(Released(s, i), i, day, amount)
         ELSE {s}

(* The row of a payment, as it is with the payment now. *)
Refreshed(s, i, amount) ==
    [d \in DOMAIN s |-> IF s[d].tx = i THEN Attached(s, d, i, amount)[d] ELSE s[d]]

Drifted(s, i, day) == \E d \in LinkedTo(s, i) : Apart(d, day) > MatchWindow

(* on_updated: match a row that has no link, release one that has drifted   *)
(* and match it again, refresh one still in range.                          *)
OnUpdated(s, i, day, amount) ==
    IF LinkedTo(s, i) = {} THEN OnCreated(s, i, day, amount)
    ELSE IF Drifted(s, i, day) THEN OnCreated(Released(s, i), i, day, amount)
         ELSE {Refreshed(s, i, amount)}

-----------------------------------------------------------------------------
(* Transactions. *)

With(i, p) == [j \in DOMAIN txs \cup {i} |-> IF j = i THEN p ELSE txs[j]]
Without(ids) == [j \in DOMAIN txs \ ids |-> txs[j]]

(* An id is new (cuid): no row has it, and no request in flight.            *)
New(i) == i \notin DOMAIN txs /\ \A h \in Handlers : req[h] # None => req[h].tx # i

(* ledger_create, by any route but pay.  It carries no incomeId.            *)
Enter(i, p) ==
    /\ Quiet
    /\ New(i)
    /\ p.link \in IF Income THEN {None} ELSE {"item", None}
    /\ txs' = With(i, p)
    /\ sched' \in IF p.link = "item" THEN OnCreated(sched, i, p.day, p.amount) ELSE {sched}
    /\ UNCHANGED <<rule, price, archived, req>>

(* A payment linked to another item that settles no row here: it may settle *)
(* one of the other's, and is not brought back (a bound of this module).    *)
Elsewhere(i) == txs[i].link = "other" /\ LinkedTo(sched, i) = {}

(* ledger_update: the matcher looks only at a row that is linked.           *)
PutTx(i, p) ==
    /\ Quiet
    /\ i \in DOMAIN txs /\ ~Elsewhere(i)
    /\ p.link \in {"item", None}
    /\ IF p.link = None /\ txs[i].link # None THEN "unlink" \in Requests ELSE "put" \in Requests
    /\ txs' = With(i, p)
    /\ sched' \in IF p.link = "item" THEN OnUpdated(sched, i, p.day, p.amount) ELSE {sched}
    /\ UNCHANGED <<rule, price, archived, req>>

(* ledger_update with a link to another item: a row in range is refreshed   *)
(* all the same, one out of range is released.  Only where requests are     *)
(* served one at a time.                                                    *)
RelinkTx(i, p) ==
    /\ Serial /\ Quiet
    /\ "relink" \in Requests
    /\ i \in DOMAIN txs
    /\ p.link = "other"
    /\ txs' = With(i, p)
    /\ sched' = IF Drifted(sched, i, p.day) THEN Released(sched, i)
                ELSE Refreshed(sched, i, p.amount)
    /\ UNCHANGED <<rule, price, archived, req>>

(* ledger_delete. *)
DeleteTx(i) ==
    /\ Quiet
    /\ i \in DOMAIN txs
    /\ txs' = Without({i})
    /\ sched' = Released(sched, i)
    /\ UNCHANGED <<rule, price, archived, req>>

(* Rows deleted past the gate: the foreign key clears the links to them.    *)
DeleteUngated(ids) ==
    /\ Quiet
    /\ txs' = Without(ids)
    /\ sched' = [d \in DOMAIN sched |-> IF sched[d].tx \in ids
                                        THEN [sched[d] EXCEPT !.tx = None] ELSE sched[d]]
    /\ UNCHANGED <<rule, price, archived, req>>

(* DELETE of a line item, which may carry a link as any row may.            *)
DeleteItem(i) ==
    /\ "deleteItem" \in Requests
    /\ i \in DOMAIN txs
    /\ DeleteUngated({i})

(* DELETE /accounts/:id, with the rows of the account.                      *)
DeleteAccount(ids) ==
    /\ "deleteAccount" \in Requests
    /\ DeleteUngated(ids)

-----------------------------------------------------------------------------
(* pay, snooze and skip: read the row, refuse a paid one, then write. *)

(* status_of, and the refusal of a paid row. *)
MayAct(d) == d \in DOMAIN sched /\ sched[d].status # "PAID"

StartPay(h, d, amount) ==
    /\ "pay" \in Requests
    /\ Idle(h)
    /\ MayAct(d)
    /\ req' = [req EXCEPT ![h] = [Blank EXCEPT !.kind = "pay", !.step = "create", !.due = d,
                                     !.expected = sched[d].expected, !.amount = amount]]
    /\ UNCHANGED <<rule, price, archived, sched, txs>>

(* ledger_create of the payment, for the occurrence of the due date read.   *)
(* The payment of an expense has its link, and the matcher runs in it,      *)
(* before the row asked for is linked; that of an income has none yet.      *)
PayCreate(h, i) ==
    /\ At(h, "pay", "create")
    /\ New(i)
    /\ txs' = With(i, [link |-> IF Income THEN None ELSE "item",
                       day |-> req[h].due, amount |-> req[h].amount])
    /\ sched' \in IF Income THEN {sched} ELSE OnCreated(sched, i, req[h].due, req[h].amount)
    /\ req' = [req EXCEPT ![h].step = "link", ![h].tx = i]
    /\ UNCHANGED <<rule, price, archived>>

(* The UPDATE of the row asked for.  It changes no row when the id names    *)
(* none, and fails when the transaction is gone (foreign key) or linked to  *)
(* another row (unique index on transactionId).                             *)
Linkable(h) == req[h].tx \in DOMAIN txs /\ LinkedTo(sched, req[h].tx) \subseteq {req[h].due}

PayLink(h) ==
    /\ At(h, "pay", "link")
    /\ sched' = IF req[h].valid /\ Linkable(h)
                THEN [sched EXCEPT ![req[h].due].tx = req[h].tx,
                        ![req[h].due].actual = req[h].amount,
                        ![req[h].due].status = StatusFor(req[h].amount, req[h].expected)]
                ELSE sched
    /\ req' = IF Income /\ (req[h].valid => Linkable(h))
              THEN [req EXCEPT ![h].step = "attach"] ELSE Done(h)
    /\ UNCHANGED <<rule, price, archived, txs>>

(* The UPDATE of incomeId, past the gate: the matcher does not see it.      *)
PayAttach(h) ==
    /\ At(h, "pay", "attach")
    /\ txs' = IF req[h].tx \in DOMAIN txs THEN [txs EXCEPT ![req[h].tx].link = "item"] ELSE txs
    /\ req' = Done(h)
    /\ UNCHANGED <<rule, price, archived, sched>>

StartDefer(h, kind, d) ==
    /\ kind \in Requests
    /\ Idle(h)
    /\ MayAct(d)
    /\ req' = [req EXCEPT ![h] = [Blank EXCEPT !.kind = kind, !.due = d]]
    /\ UNCHANGED <<rule, price, archived, sched, txs>>

(* The UPDATE of snooze or skip, of the status alone. *)
Defer(h, kind, status) ==
    /\ At(h, kind, "write")
    /\ sched' = IF req[h].valid THEN [sched EXCEPT ![req[h].due].status = status] ELSE sched
    /\ req' = Done(h)
    /\ UNCHANGED <<rule, price, archived, txs>>

-----------------------------------------------------------------------------
(* Edits of the item. *)

(* update, pause, resume, or a utility reading: new settings first.         *)
StartEdit(h, newRule, newPrice, snoozed) ==
    /\ "edit" \in Requests
    /\ Idle(h)
    /\ rule' = newRule
    /\ price' = newPrice
    /\ req' = [req EXCEPT ![h] = [Blank EXCEPT !.kind = "edit", !.snoozed = snoozed]]
    /\ UNCHANGED <<archived, sched, txs>>

(* Wrong: the rows settled so far go with the pending ones.                 *)
InvalidatesAll(snoozed) == DOMAIN sched

(* What invalidate_schedule deletes: with the pending rows, the snoozed     *)
(* ones when dates moved.                                                   *)
Invalidated(snoozed) ==
    Pending(sched) \cup {d \in DOMAIN sched : snoozed /\ sched[d].status = "SNOOZED"}

Invalidate(h) ==
    /\ At(h, "edit", "write")
    /\ LET gone == Invalidated(req[h].snoozed)
       IN  /\ sched' = [d \in DOMAIN sched \ gone |-> sched[d]]
           /\ req' = [Forgetting(gone) EXCEPT ![h] = None]
    /\ UNCHANGED <<rule, price, archived, txs>>

StartArchive(h) ==
    /\ "archive" \in Requests
    /\ Idle(h)
    /\ ~archived
    /\ archived' = TRUE
    /\ req' = [req EXCEPT ![h] = [Blank EXCEPT !.kind = "archive"]]
    /\ UNCHANGED <<rule, price, sched, txs>>

(* skip_pending. *)
SkipPending(h) ==
    /\ At(h, "archive", "write")
    /\ sched' = [d \in DOMAIN sched |-> IF sched[d].status = "PENDING"
                                        THEN [sched[d] EXCEPT !.status = "SKIPPED"]
                                        ELSE sched[d]]
    /\ req' = Done(h)
    /\ UNCHANGED <<rule, price, archived, txs>>

Restore ==
    /\ Quiet
    /\ archived
    /\ archived' = FALSE
    /\ UNCHANGED <<rule, price, sched, txs, req>>

(* A request dropped between two of its statements. *)
Abandon(h) ==
    /\ req[h] # None
    /\ req' = Done(h)
    /\ UNCHANGED <<rule, price, archived, sched, txs>>

-----------------------------------------------------------------------------
Handle(h) ==
    \/ \E d \in Days, amount \in Prices : StartPay(h, d, amount)
    \/ \E i \in TxIds : PayCreate(h, i)
    \/ PayLink(h)
    \/ PayAttach(h)
    \/ \E kind \in {"snooze", "skip"}, d \in Days : StartDefer(h, kind, d)
    \/ Defer(h, "snooze", "SNOOZED")
    \/ Defer(h, "skip", "SKIPPED")
    \/ \E newRule \in Rules, newPrice \in Prices, snoozed \in BOOLEAN :
          StartEdit(h, newRule, newPrice, snoozed)
    \/ Invalidate(h)
    \/ StartArchive(h)
    \/ SkipPending(h)
    \/ Abandon(h)

Transact ==
    \/ \E i \in TxIds, p \in Payment : Enter(i, p)
    \/ \E i \in TxIds, p \in Payment : PutTx(i, p)
    \/ \E i \in TxIds, p \in Payment : RelinkTx(i, p)
    \/ \E i \in TxIds : DeleteTx(i)
    \/ \E i \in TxIds : DeleteItem(i)
    \/ \E ids \in SUBSET DOMAIN txs : DeleteAccount(ids)

Next ==
    /\ workload' = workload
    /\ \/ \E from, to \in Days : Generate(from, to)
       \/ Transact
       \/ Restore
       \/ \E h \in Handlers : Handle(h)

Spec == Init /\ [][Next]_vars

-----------------------------------------------------------------------------
(* Properties. *)

(* Rows, payments and requests are as the tables and the routes define      *)
(* them, and a payment settles one row at most.                             *)
TypeOK ==
    /\ rule \in Rules /\ price \in Prices /\ archived \in BOOLEAN
    /\ DOMAIN sched \subseteq Days /\ sched \in [DOMAIN sched -> Row]
    /\ DOMAIN txs \subseteq TxIds /\ txs \in [DOMAIN txs -> Payment]
    /\ req \in [Handlers -> Request \cup {None}]
    /\ \A i \in TxIds : Cardinality(LinkedTo(sched, i)) <= 1

(* Requests are served one at a time, and no account or line item is        *)
(* deleted: those rows go past the gate and leave what they paid for paid.  *)
Orderly == Serial /\ Requests \cap {"deleteItem", "deleteAccount"} = {}

(* A row that says it was paid names the payment.  A deleted payment must   *)
(* not stay done (schedule_matcher.rs, on_deleted).                         *)
PaidHasPayment == Orderly => \A d \in Fulfilled : sched[d].tx \in DOMAIN txs

(* A settled row shows the amount that was paid, and PAID or PARTIAL by     *)
(* whether it covers what was expected (schedule_matcher.rs, status_for),   *)
(* as long as its payment is linked, to this item or to another.  A payment *)
(* may be without its link because it was unlinked, or because the request  *)
(* that paid an income was dropped before its last statement: then the row  *)
(* does not follow an edit of the amount until the payment is linked again. *)
RowsTellThePayment ==
    Orderly => \A d \in Fulfilled : txs[sched[d].tx].link # None =>
        /\ sched[d].actual = txs[sched[d].tx].amount
        /\ sched[d].status = StatusFor(sched[d].actual, sched[d].expected)

(* A row is settled by a payment for a day within the window of its due     *)
(* date, however either was edited (schedule_matcher.rs, on_updated).       *)
(* The last statement of pay links a payment that may have been moved       *)
(* since its first, where others run in between.                            *)
SettledWithinWindow ==
    Serial \/ "put" \notin Requests => \A d \in DOMAIN sched :
        sched[d].tx # None /\ txs[sched[d].tx].link # None =>
            Apart(d, txs[sched[d].tx].day) <= MatchWindow

(* PAID, PARTIAL and SKIPPED rows are history: no edit of the item and no   *)
(* regeneration removes one (recurring.rs, invalidate_schedule; ADR-024).   *)
HistoryIsKept ==
    [][\A d \in DOMAIN sched :
          sched[d].status \in {"PAID", "PARTIAL", "SKIPPED"} => d \in DOMAIN sched']_vars

(* No row is generated in a month that was paid, though the due date has    *)
(* moved since (schedule_generator.rs, module comment): where pages ask for *)
(* whole months, of an item that does not recur within one.                 *)
PaidBillStaysPaid ==
    [][WholeMonths /\ ~Weekly =>
          \A d \in DOMAIN sched' \ DOMAIN sched, e \in Fulfilled : Month(d) # Month(e)]_vars

(* Paying a row settles that row and no other.                              *)
PayTouchesItsRow ==
    [][\A h \in Handlers, i \in TxIds :
          PayCreate(h, i) => LinkedTo(sched', i) \subseteq {req[h].due}]_vars

=============================================================================
