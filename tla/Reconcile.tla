------------------------------ MODULE Reconcile ------------------------------
(* The reconciliation of one account against a bank statement, as the       *)
(* TypeScript routes do it (routes/reconciliations.ts, .close.ts, .merge.ts *)
(* and lib/reconciliation/residual.ts).                                     *)
(*                                                                          *)
(* A request reads, decides and writes in separate statements; the last     *)
(* write of an import, a match, a close and a merge is one transaction of   *)
(* the database. Requests of the kinds in Overlap let other work happen     *)
(* between their statements, the others have the database to themselves.    *)
(* The opening balance is 0.                                                *)
EXTENDS Integers, FiniteSets, FiniteSetsExt, Functions

CONSTANTS
    TxIds, RowIds,  \* transactions of the account, rows of the statement
    Budgets, Uncategorized,
    Expenses,       \* the expenses a user records, in one piece or split over budgets
    Dates,
    Lines,          \* what a statement can print: records [posted, amount]
    Files,          \* the files imported: how often each line is printed
    Endings,        \* ending balances a user enters
    Handlers, Overlap,
    MaxFaults, MaxEdits,
    None

ASSUME ReconcileAssumption ==
    /\ IsFiniteSet(TxIds) /\ IsFiniteSet(RowIds) /\ IsFiniteSet(Budgets)
    /\ Uncategorized \in Budgets /\ Dates \subseteq Nat
    /\ \A t \in Expenses : t.amount >= MapThenSumSet(LAMBDA b : t.shares[b], Budgets) /\ ~t.stamped
    /\ Lines \subseteq [posted : Dates, amount : Nat \ {0}]
    /\ Files \subseteq [Lines -> Nat] /\ Endings \subseteq Int
    /\ Overlap \subseteq {"patch", "import", "match", "adjust", "close", "merge", "abandon"}
    /\ MaxFaults \in Nat /\ MaxEdits \in Nat

VARIABLES
    txs,      \* the account's own transactions (parentId null), with their parts
    sound,    \* Account.balance agrees with the rows (the gate's promise, seen from here)
    session,  \* the draft session, or the closed one
    rows,     \* its StatementRows
    matches,  \* its ReconciliationMatches
    jobs,     \* what each request is doing
    printed,  \* history: for each line, the most that one imported file printed
    faults, edits

vars == <<txs, sound, session, rows, matches, jobs, printed, faults, edits>>
ledger == <<txs, sound>>
scaffold == <<session, rows, matches, printed>>
bounds == <<faults, edits>>

----------------------------------------------------------------------------
(* shares: what the rows with this parentId allocate; the rest of the       *)
(* amount is the parent's own, toward its own budget. The amount stands for *)
(* netAmount as well: ledgerCreate and ledgerUpdate write the one figure to *)
(* both columns.                                                            *)
Tx == [type : {"EXPENSE", "INCOME"}, amount : Nat \ {0}, date : Dates, budget : Budgets,
       shares : [Budgets -> Nat], stamped : BOOLEAN]

Session == [status : {"DRAFT", "RECONCILED"}, ending : Int, to : Dates,
            adjustment : TxIds \cup {None}]

Match == [row : RowIds, tx : TxIds, manual : BOOLEAN]

ASSUME ExpensesAreRows == Expenses \subseteq Tx
ASSUME NoneIsNoRow == None \notin Tx \cup Session \cup TxIds \cup RowIds \cup Lines

Nothing == [b \in Budgets |-> 0]
NoLines == [l \in Lines |-> 0]
Live == {i \in TxIds : txs[i] # None}
Filled == {r \in RowIds : rows[r] # None}

Signed(t) == IF t.type = "INCOME" THEN t.amount ELSE -t.amount

(* transactionSumsAround, `through`.                                        *)
Through(date) == MapThenSumSet(LAMBDA i : Signed(txs[i]), {i \in Live : txs[i].date <= date})

(* computeResidual.                                                         *)
Residual(s) == s.ending - Through(s.to)

(* What a budget is charged over all months: its parts, and what splits     *)
(* leave to the parent.                                                     *)
Charge(t, b) ==
    t.shares[b] + IF b = t.budget THEN t.amount - MapThenSumSet(LAMBDA c : t.shares[c], Budgets) ELSE 0
Charged(book, b) ==
    MapThenSumSet(LAMBDA i : Charge(book[i], b), {i \in TxIds : book[i] # None /\ book[i].type = "EXPENSE"})

Count(l) == Cardinality({r \in Filled : rows[r] = l})

----------------------------------------------------------------------------
Idle == [step |-> "idle", file |-> NoLines, fresh |-> NoLines, pairs |-> {}, manual |-> {}, row |-> None,
         originals |-> {}, sum |-> 0, to |-> None]

Steps == {"idle", "patch", "import", "match", "replace", "adjust", "link", "close", "certify",
          "merge", "abandon"}

RequestOf(step) ==
    CASE step = "replace" -> "match" [] step = "link" -> "adjust" [] step = "certify" -> "close"
      [] OTHER -> step

Active == {h \in Handlers : jobs[h] # Idle}

(* Other work may happen now: every request under way lets it.              *)
Quiet == \A h \in Active : RequestOf(jobs[h].step) \in Overlap

MayStart(h) == jobs[h] = Idle /\ Quiet
Drafted == session # None /\ session.status = "DRAFT"

(* A request goes on when the others under way let it.                      *)
SetJob(h, job) ==
    /\ \A g \in Active \ {h} : RequestOf(jobs[g].step) \in Overlap
    /\ jobs' = [jobs EXCEPT ![h] = job]
Finish(h) == SetJob(h, Idle)

(* A new row gets an id that no request under way has ever seen.            *)
Seen(h) == {p.tx : p \in jobs[h].pairs} \cup {o[1] : o \in jobs[h].originals}
FreeTx(i) == txs[i] = None /\ \A h \in Handlers : i \notin Seen(h)
FreeRow(r) == rows[r] = None /\ \A h \in Handlers : \A p \in jobs[h].pairs : p.row # r

(* Deleting a transaction takes its matches along and unlinks it.           *)
MatchesWithout(gone) == {m \in matches : m.tx \notin gone}
SessionWithout(gone) ==
    IF session # None /\ session.adjustment \in gone THEN [session EXCEPT !.adjustment = None] ELSE session

(* The ledger has a history before a session is opened.                     *)
Init ==
    /\ txs \in [TxIds -> Expenses \cup {None}] /\ sound = TRUE
    /\ session = None /\ rows = [r \in RowIds |-> None] /\ matches = {}
    /\ jobs = [h \in Handlers |-> Idle] /\ printed = NoLines
    /\ faults = 0 /\ edits = 0

----------------------------------------------------------------------------
(* The ledger as the other routes move it, each through the gate.           *)
Counted == edits < MaxEdits /\ edits' = edits + 1
Edit == Quiet /\ Counted /\ UNCHANGED <<jobs, rows, printed, faults>>

Enter(i, t) ==
    /\ Edit /\ FreeTx(i)
    /\ txs' = [txs EXCEPT ![i] = t]
    /\ UNCHANGED <<sound, session, matches>>

Change(i, n) ==
    /\ Edit /\ txs[i] # None /\ txs[i].shares = Nothing
    /\ txs' = [txs EXCEPT ![i].amount = n]
    /\ UNCHANGED <<sound, session, matches>>

Strike(i) ==
    /\ Edit /\ txs[i] # None
    /\ txs' = [txs EXCEPT ![i] = None]
    /\ matches' = MatchesWithout({i}) /\ session' = SessionWithout({i})
    /\ UNCHANGED sound

(* A write past the gate, and the recalculation that repairs it.            *)
Disturb ==
    /\ Edit /\ sound' = ~sound
    /\ UNCHANGED <<txs, session, matches>>

----------------------------------------------------------------------------
(* POST /: the partial unique index lets one draft in.                      *)
Open(h, ending, to) ==
    /\ MayStart(h) /\ session = None
    /\ session' = [status |-> "DRAFT", ending |-> ending, to |-> to, adjustment |-> None]
    /\ rows' = [r \in RowIds |-> None] /\ matches' = {} /\ printed' = NoLines
    /\ UNCHANGED <<ledger, jobs, bounds>>

(* PATCH and abandon read the status first.                                 *)
CheckStatus(h, request) ==
    /\ MayStart(h) /\ Drafted
    /\ SetJob(h, [Idle EXCEPT !.step = request])
    /\ UNCHANGED <<ledger, scaffold, bounds>>

Patch(h, ending, to) ==
    /\ jobs[h].step = "patch" /\ Finish(h)
    /\ session' = IF session = None THEN None ELSE [session EXCEPT !.ending = ending, !.to = to]
    /\ Counted /\ UNCHANGED <<ledger, rows, matches, printed, faults>>

(* The cascade takes rows and matches, never a transaction.                 *)
Abandon(h) ==
    /\ jobs[h].step = "abandon" /\ Finish(h)
    /\ session' = None /\ rows' = [r \in RowIds |-> None] /\ matches' = {} /\ printed' = NoLines
    /\ UNCHANGED <<ledger, bounds>>

(* Wrong: the line as a unique key, as it once was.                         *)
FreshByPresence(file, l) == IF file[l] > 0 /\ Count(l) = 0 THEN 1 ELSE 0

(* POST /import: a line is fresh as often as the file prints it more than   *)
(* it is stored,                                                            *)
Fresh(file, l) == IF file[l] > Count(l) THEN file[l] - Count(l) ELSE 0

(* Wrong: any session that exists.                                          *)
ReadFileAnyStatus(h, file) ==
    /\ MayStart(h) /\ session # None
    /\ SetJob(h, [Idle EXCEPT !.step = "import", !.file = file,
                              !.fresh = [l \in Lines |-> Fresh(file, l)]])
    /\ UNCHANGED <<ledger, scaffold, bounds>>

ReadFile(h, file) ==
    /\ MayStart(h) /\ Drafted
    /\ SetJob(h, [Idle EXCEPT !.step = "import", !.file = file,
                              !.fresh = [l \in Lines |-> Fresh(file, l)]])
    /\ UNCHANGED <<ledger, scaffold, bounds>>

(* and the fresh ones are stored. (The start of the period, which follows   *)
(* the earliest row, only widens the window that is loaded.)                *)
Import(h) ==
    /\ jobs[h].step = "import" /\ Finish(h)
    /\ IF session = None THEN UNCHANGED <<rows, printed>>
       ELSE /\ rows' \in [RowIds -> Lines \cup {None}]
            /\ \A r \in RowIds : rows'[r] # rows[r] => FreeRow(r)
            /\ \A l \in Lines : Cardinality({r \in RowIds : rows'[r] = l}) = Count(l) + jobs[h].fresh[l]
            /\ printed' = [l \in Lines |-> Max({printed[l], jobs[h].file[l]})]
    /\ UNCHANGED <<ledger, session, matches, bounds>>

----------------------------------------------------------------------------
(* What reconcile() may pair: rows with transactions of the window, one to  *)
(* one, one to many or many to one. (Dates are coarser than its padding.)   *)
Pairings ==
    {s \in SUBSET [row : Filled, tx : Live, manual : {FALSE}] :
        \A p \in s : Cardinality({q \in s : q.row = p.row}) = 1 \/ Cardinality({q \in s : q.tx = p.tx}) = 1}

(* POST /match reads the session, its rows and the transactions,            *)
RunMatcher(h) ==
    /\ MayStart(h) /\ Drafted
    /\ \E pairs \in Pairings : SetJob(h, [Idle EXCEPT !.step = "match", !.pairs = pairs])
    /\ UNCHANGED <<ledger, scaffold, bounds>>

(* What the user has paired by hand.                                        *)
Claimed == {m \in matches : m.manual}

Unclaimed(pairs) == {p \in pairs : \A m \in Claimed : m.row # p.row /\ m.tx # p.tx}

(* Wrong: the automatic pairs are not kept off what is claimed.             *)
ReadManualUnfiltered(h) ==
    /\ jobs[h].step = "match"
    /\ SetJob(h, [jobs[h] EXCEPT !.step = "replace", !.manual = Claimed])
    /\ UNCHANGED <<ledger, scaffold, bounds>>

(* then what the user has paired by hand: what that claims is off-limits,   *)
ReadManual(h) ==
    /\ jobs[h].step = "match"
    /\ SetJob(h, [jobs[h] EXCEPT !.step = "replace", !.pairs = Unclaimed(@), !.manual = Claimed])
    /\ UNCHANGED <<ledger, scaffold, bounds>>

(* and replaces the automatic matches; a pair that exists by now is skipped,*)
(* one whose row or transaction is gone rolls the replacement back.         *)
Replace(h) ==
    /\ jobs[h].step = "replace" /\ Finish(h)
    /\ matches' = IF session = None \/ \E p \in jobs[h].pairs : rows[p.row] = None \/ txs[p.tx] = None
                  THEN matches
                  ELSE Claimed \cup {p \in jobs[h].pairs : [p EXCEPT !.manual = TRUE] \notin Claimed}
    /\ UNCHANGED <<ledger, session, rows, printed, bounds>>

(* POST /matches: neither the status nor the pairs the row is in are read;  *)
(* only the same pair is refused.                                           *)
PairByHand(r, i) ==
    /\ Quiet /\ r \in Filled /\ i \in Live
    /\ \A m \in matches : ~(m.row = r /\ m.tx = i)
    /\ matches' = matches \cup {[row |-> r, tx |-> i, manual |-> TRUE]}
    /\ Counted /\ UNCHANGED <<ledger, session, rows, jobs, printed, faults>>

Unpair(m) ==
    /\ Quiet /\ m \in matches
    /\ matches' = matches \ {m}
    /\ Counted /\ UNCHANGED <<ledger, session, rows, jobs, printed, faults>>

----------------------------------------------------------------------------
(* POST /adjustment reads the end of the period and the residual,           *)
ReadForAdjustment(h) ==
    /\ MayStart(h) /\ Drafted /\ session.adjustment = None /\ Residual(session) # 0
    /\ \E i \in TxIds : FreeTx(i)   \* the bound on transactions
    /\ SetJob(h, [Idle EXCEPT !.step = "adjust", !.sum = Residual(session), !.to = session.to])
    /\ UNCHANGED <<ledger, scaffold, bounds>>

(* Wrong: the other direction.                                              *)
BookOppositeAdjustment(h, i) ==
    /\ jobs[h].step = "adjust" /\ FreeTx(i)
    /\ LET sum == -jobs[h].sum IN
       txs' = [txs EXCEPT ![i] = [type |-> IF sum > 0 THEN "INCOME" ELSE "EXPENSE",
                                  amount |-> IF sum > 0 THEN sum ELSE -sum, date |-> jobs[h].to,
                                  budget |-> Uncategorized, shares |-> Nothing, stamped |-> FALSE]]
    /\ SetJob(h, [Idle EXCEPT !.step = "link", !.originals = {<<i, None>>}])
    /\ UNCHANGED <<sound, scaffold, bounds>>

(* books it through the gate on that day,                                   *)
BookAdjustment(h, i) ==
    /\ jobs[h].step = "adjust" /\ FreeTx(i)
    /\ LET sum == jobs[h].sum IN
       txs' = [txs EXCEPT ![i] = [type |-> IF sum > 0 THEN "INCOME" ELSE "EXPENSE",
                                  amount |-> IF sum > 0 THEN sum ELSE -sum, date |-> jobs[h].to,
                                  budget |-> Uncategorized, shares |-> Nothing, stamped |-> FALSE]]
    /\ SetJob(h, [Idle EXCEPT !.step = "link", !.originals = {<<i, None>>}])
    /\ UNCHANGED <<sound, scaffold, bounds>>

(* and ties it to the session.                                              *)
Link(h) ==
    /\ jobs[h].step = "link" /\ Finish(h)
    /\ LET i == (CHOOSE o \in jobs[h].originals : TRUE)[1] IN
       session' = IF session = None \/ txs[i] = None THEN session ELSE [session EXCEPT !.adjustment = i]
    /\ UNCHANGED <<ledger, rows, matches, printed, bounds>>

(* Wrong: the status alone is checked.                                      *)
ReadForCloseUnbalanced(h) ==
    /\ MayStart(h) /\ Drafted
    /\ SetJob(h, [Idle EXCEPT !.step = "close"])
    /\ UNCHANGED <<ledger, scaffold, bounds>>

(* POST /close reads the residual,                                          *)
ReadForClose(h) ==
    /\ MayStart(h) /\ Drafted /\ Residual(session) = 0
    /\ SetJob(h, [Idle EXCEPT !.step = "close"])
    /\ UNCHANGED <<ledger, scaffold, bounds>>

(* then the account against the sum of all its rows, and the matches,       *)
CheckLedger(h) ==
    /\ jobs[h].step = "close"
    /\ IF sound THEN SetJob(h, [Idle EXCEPT !.step = "certify", !.pairs = matches]) ELSE Finish(h)
    /\ UNCHANGED <<ledger, scaffold, bounds>>

(* and in one transaction stamps what is matched and closes the session.    *)
Certify(h) ==
    /\ jobs[h].step = "certify" /\ Finish(h)
    /\ IF session = None THEN UNCHANGED <<txs, session>>
       ELSE /\ session' = [session EXCEPT !.status = "RECONCILED"]
            /\ LET cleared == {p.tx : p \in jobs[h].pairs} IN
               txs' = [i \in TxIds |-> IF i \in cleared \cap Live THEN [txs[i] EXCEPT !.stamped = TRUE]
                                       ELSE txs[i]]
    /\ UNCHANGED <<sound, rows, matches, printed, bounds>>

----------------------------------------------------------------------------
(* POST /merge reads the row and the originals; their sum is the row's      *)
(* amount, none is a part of another. One that has parts is let through.    *)
(* Bound: expenses only; the route merges refunds in the same way.          *)
ReadForMerge(h, r, ids) ==
    /\ MayStart(h) /\ Drafted /\ r \in Filled
    /\ ids # {} /\ ids \subseteq Live /\ \A i \in ids : txs[i].type = "EXPENSE"
    /\ MapThenSumSet(LAMBDA i : txs[i].amount, ids) = rows[r].amount
    /\ SetJob(h, [Idle EXCEPT !.step = "merge", !.row = r, !.originals = {<<i, txs[i]>> : i \in ids}])
    /\ UNCHANGED <<ledger, scaffold, bounds>>

(* Wrong: every part is uncategorized.                                      *)
UncategorizedParent(line, head, originals) ==
    [type |-> "EXPENSE", amount |-> line.amount, date |-> line.posted, budget |-> head[2].budget,
     shares |-> [Nothing EXCEPT ![Uncategorized] =
                    MapThenSumSet(LAMBDA o : o[2].amount, originals \ {head})],
     stamped |-> FALSE]

(* The parent: the amount of the row, its posted date, the budget of one    *)
(* original; what the others were, whole, are its parts.                    *)
Parent(line, head, originals) ==
    LET rest == originals \ {head} IN
    [type |-> "EXPENSE", amount |-> line.amount, date |-> line.posted, budget |-> head[2].budget,
     shares |-> [b \in Budgets |-> MapThenSumSet(LAMBDA o : o[2].amount, {o \in rest : o[2].budget = b})],
     stamped |-> FALSE]

(* All of it, the deletions, the parent with its parts and the match, or    *)
(* nothing, as when an original or the row is gone.                         *)
Merge(h, head, p) ==
    /\ jobs[h].step = "merge" /\ Finish(h)
    /\ LET originals == jobs[h].originals
           ids == {o[1] : o \in originals}
           r == jobs[h].row
       IN  IF session = None \/ rows[r] = None \/ \E i \in ids : txs[i] = None
           THEN UNCHANGED <<txs, session, matches>>
           ELSE /\ head \in originals
                /\ p \in ids \/ FreeTx(p)
                /\ txs' = [i \in TxIds |-> IF i = p THEN Parent(rows[r], head, originals)
                                           ELSE IF i \in ids THEN None ELSE txs[i]]
                /\ matches' = MatchesWithout(ids) \cup {[row |-> r, tx |-> p, manual |-> TRUE]}
                /\ session' = SessionWithout(ids)
    /\ UNCHANGED <<sound, rows, printed, bounds>>

(* A request dies between two of its writes: the adjustment is booked and   *)
(* not tied to the session. (One that dies before it writes is one that was *)
(* never made.)                                                             *)
Die(h) ==
    /\ faults < MaxFaults /\ jobs[h].step = "link"
    /\ Finish(h) /\ faults' = faults + 1
    /\ UNCHANGED <<ledger, scaffold, edits>>

Next ==
    \/ \E i \in TxIds : (\E t \in Expenses : Enter(i, t)) \/ (\E n \in {t.amount : t \in Expenses} : Change(i, n)) \/ Strike(i)
    \/ Disturb
    \/ \E r \in RowIds, i \in TxIds : PairByHand(r, i)
    \/ \E m \in matches : Unpair(m)
    \/ \E h \in Handlers :
        \/ \E e \in Endings, d \in Dates : Patch(h, e, d) \/ Open(h, e, d)
        \/ \E request \in {"patch", "abandon"} : CheckStatus(h, request)
        \/ \E file \in Files : ReadFile(h, file)
        \/ \E r \in RowIds, ids \in SUBSET TxIds : ReadForMerge(h, r, ids)
        \/ \E i \in TxIds : BookAdjustment(h, i) \/ \E head \in jobs[h].originals : Merge(h, head, i)
        \/ Abandon(h) \/ Import(h) \/ RunMatcher(h) \/ ReadManual(h) \/ Replace(h)
        \/ ReadForAdjustment(h) \/ Link(h) \/ ReadForClose(h) \/ CheckLedger(h) \/ Certify(h) \/ Die(h)

Spec == Init /\ [][Next]_vars

----------------------------------------------------------------------------
TypeOK ==
    /\ txs \in [TxIds -> Tx \cup {None}] /\ sound \in BOOLEAN
    /\ session \in Session \cup {None}
    /\ rows \in [RowIds -> Lines \cup {None}]
    /\ matches \subseteq Match
    /\ jobs \in [Handlers ->
                    [step : Steps, file : [Lines -> Nat], fresh : [Lines -> Nat], pairs : SUBSET Match, manual : SUBSET Match,
                     row : RowIds \cup {None}, originals : SUBSET (TxIds \X (Tx \cup {None})), sum : Int,
                     to : Dates \cup {None}]]
    /\ printed \in [Lines -> Nat] /\ faults \in 0..MaxFaults /\ edits \in 0..MaxEdits

Closes == Drafted /\ session' # None /\ session'.status = "RECONCILED"

(* "A session cannot be closed while the residual is non-zero", nor on a    *)
(* ledger that does not add up, and closing it stamps what is matched.      *)
CertifiedAtZero ==
    [][Closes => /\ Residual(session) = 0 /\ sound
                 /\ \A m \in matches : txs'[m.tx].stamped]_vars

(* "Importing the same file twice adds nothing, while a file that contains  *)
(* a line twice stores it twice": the session holds each line as often as   *)
(* the file that prints it most.                                            *)
StoredAsPrinted ==
    session # None => \A l \in Lines : Count(l) = printed[l]

(* "A MANUAL match is a decision the user made by hand; the automatic pass  *)
(* must never overwrite it", however the pass overlaps with other work; and *)
(* unless one was made meanwhile, no row or transaction is paired both ways.*)
ManualIsKept ==
    [][\A h \in Handlers : jobs[h].step = "replace" /\ matches' # matches /\ jobs'[h] = Idle =>
          /\ Claimed' = Claimed
          /\ Claimed \subseteq jobs[h].manual =>
                \A m \in Claimed', a \in matches' \ Claimed' : a.row # m.row /\ a.tx # m.tx]_vars

Merges(h) == jobs[h].step = "merge" /\ jobs'[h] = Idle /\ txs' # txs

(* A merge moves no money: the account's total and what each budget is      *)
(* charged stay, provided no original was split before.                     *)
MergeIsNeutral ==
    [][\A h \in Handlers : Merges(h) =>
          /\ MapThenSumSet(LAMBDA i : IF txs'[i] = None THEN 0 ELSE Signed(txs'[i]), TxIds)
                = MapThenSumSet(LAMBDA i : Signed(txs[i]), Live)
          /\ (\A o \in jobs[h].originals : o[2].shares = Nothing) =>
                \A b \in Budgets : Charged(txs', b) = Charged(txs, b)]_vars

(* "Every budget still receives its exact amount": split originals too.     *)
EveryBudgetKeepsItsAmount ==
    [][\A h \in Handlers : Merges(h) => \A b \in Budgets : Charged(txs', b) = Charged(txs, b)]_vars

(* An adjustment leaves nothing unaccounted for.                            *)
AdjustmentBalances ==
    [][\A h \in Handlers : jobs[h].step = "link" /\ session'.adjustment # session.adjustment =>
          Residual(session') = 0]_vars

(* "Its rows are the evidence of what was reconciled against": a closed     *)
(* session keeps them, its period and its ending, and is never abandoned.   *)
EvidenceIsKept ==
    [][session # None /\ session.status = "RECONCILED" =>
          /\ session' # None /\ rows' = rows
          /\ [session' EXCEPT !.adjustment = None] = [session EXCEPT !.adjustment = None]]_vars
=============================================================================
