--------------------------- MODULE ReconcileProofs ---------------------------
(***************************************************************************)
(* The reconciliation of a statement, for any set of transactions, rows,   *)
(* budgets, files and any number of requests in flight.  What a pairing    *)
(* made by hand is promised holds whatever overlaps.  The other promises   *)
(* hold as long as the request that makes them lets nothing happen between *)
(* its own steps, however the other requests overlap: Overlap is what the  *)
(* theorems assume of it, and no more.                                     *)
(***************************************************************************)
EXTENDS Reconcile, SumsProofs

-----------------------------------------------------------------------------
(* The sums of the model are sums of functions. *)

(* Of a set of transactions S of the book t: what they move, their amounts, *)
(* what they charge a budget; what a transaction allocates to its parts.    *)
SignedOf(t, S) == [i \in S |-> Signed(t[i])]
WorthOf(t, S) == [i \in S |-> IF t[i] = None THEN 0 ELSE Signed(t[i])]
AmountOf(t, S) == [i \in S |-> t[i].amount]
ChargeOf(t, b, S) == [i \in S |-> Charge(t[i], b)]
OriginalOf(S) == [o \in S |-> o[2].amount]

SignedSum(t, S) == MapThenSumSet(LAMBDA i : Signed(t[i]), S)
WorthSum(t, S) == MapThenSumSet(LAMBDA i : IF t[i] = None THEN 0 ELSE Signed(t[i]), S)
AmountSum(t, S) == MapThenSumSet(LAMBDA i : t[i].amount, S)
ChargeSum(t, b, S) == MapThenSumSet(LAMBDA i : Charge(t[i], b), S)
OriginalSum(S) == MapThenSumSet(LAMBDA o : o[2].amount, S)
ShareSum(s) == MapThenSumSet(LAMBDA c : s[c], Budgets)

LEMMA SignedSumIsSum ==
    ASSUME NEW t, NEW S
    PROVE  SignedSum(t, S) = SumOf(SignedOf(t, S), S)
<1> DEFINE IsThis(sum) ==
             sum = [T \in SUBSET S |->
                      IF T = {} THEN 0
                      ELSE LET x == CHOOSE x \in T : TRUE IN Signed(t[x]) + sum[T \ {x}]]
<1>1. SignedSum(t, S) = (CHOOSE sum : IsThis(sum))[S]
  BY DEF SignedSum, MapThenSumSet, MapThenFoldSet
<1>2. ASSUME NEW sum PROVE IsSum(sum, SignedOf(t, S), S) <=> IsThis(sum)
  <2>1. \A T \in SUBSET S : T # {} =>
          SignedOf(t, S)[CHOOSE x \in T : TRUE] = Signed(t[(CHOOSE x \in T : TRUE)])
    BY DEF SignedOf
  <2>. QED BY <2>1 DEF IsSum
<1>3. (CHOOSE sum : IsSum(sum, SignedOf(t, S), S)) = (CHOOSE sum : IsThis(sum))
  <2>. HIDE DEF IsThis
  <2>. QED BY <1>2
<1>. HIDE DEF IsThis
<1>. QED BY <1>1, <1>3, SumIter

LEMMA WorthSumIsSum ==
    ASSUME NEW t, NEW S
    PROVE  WorthSum(t, S) = SumOf(WorthOf(t, S), S)
<1> DEFINE IsThis(sum) ==
             sum = [T \in SUBSET S |->
                      IF T = {} THEN 0
                      ELSE LET x == CHOOSE x \in T : TRUE IN (IF t[x] = None THEN 0 ELSE Signed(t[x])) + sum[T \ {x}]]
<1>1. WorthSum(t, S) = (CHOOSE sum : IsThis(sum))[S]
  BY DEF WorthSum, MapThenSumSet, MapThenFoldSet
<1>2. ASSUME NEW sum PROVE IsSum(sum, WorthOf(t, S), S) <=> IsThis(sum)
  <2>1. \A T \in SUBSET S : T # {} =>
          WorthOf(t, S)[CHOOSE x \in T : TRUE] = IF t[(CHOOSE x \in T : TRUE)] = None THEN 0 ELSE Signed(t[(CHOOSE x \in T : TRUE)])
    BY DEF WorthOf
  <2>. QED BY <2>1 DEF IsSum
<1>3. (CHOOSE sum : IsSum(sum, WorthOf(t, S), S)) = (CHOOSE sum : IsThis(sum))
  <2>. HIDE DEF IsThis
  <2>. QED BY <1>2
<1>. HIDE DEF IsThis
<1>. QED BY <1>1, <1>3, SumIter

LEMMA AmountSumIsSum ==
    ASSUME NEW t, NEW S
    PROVE  AmountSum(t, S) = SumOf(AmountOf(t, S), S)
<1> DEFINE IsThis(sum) ==
             sum = [T \in SUBSET S |->
                      IF T = {} THEN 0
                      ELSE LET x == CHOOSE x \in T : TRUE IN t[x].amount + sum[T \ {x}]]
<1>1. AmountSum(t, S) = (CHOOSE sum : IsThis(sum))[S]
  BY DEF AmountSum, MapThenSumSet, MapThenFoldSet
<1>2. ASSUME NEW sum PROVE IsSum(sum, AmountOf(t, S), S) <=> IsThis(sum)
  <2>1. \A T \in SUBSET S : T # {} =>
          AmountOf(t, S)[CHOOSE x \in T : TRUE] = t[(CHOOSE x \in T : TRUE)].amount
    BY DEF AmountOf
  <2>. QED BY <2>1 DEF IsSum
<1>3. (CHOOSE sum : IsSum(sum, AmountOf(t, S), S)) = (CHOOSE sum : IsThis(sum))
  <2>. HIDE DEF IsThis
  <2>. QED BY <1>2
<1>. HIDE DEF IsThis
<1>. QED BY <1>1, <1>3, SumIter

LEMMA ChargeSumIsSum ==
    ASSUME NEW t, NEW b, NEW S
    PROVE  ChargeSum(t, b, S) = SumOf(ChargeOf(t, b, S), S)
<1> DEFINE IsThis(sum) ==
             sum = [T \in SUBSET S |->
                      IF T = {} THEN 0
                      ELSE LET x == CHOOSE x \in T : TRUE IN Charge(t[x], b) + sum[T \ {x}]]
<1>1. ChargeSum(t, b, S) = (CHOOSE sum : IsThis(sum))[S]
  BY DEF ChargeSum, MapThenSumSet, MapThenFoldSet
<1>2. ASSUME NEW sum PROVE IsSum(sum, ChargeOf(t, b, S), S) <=> IsThis(sum)
  <2>1. \A T \in SUBSET S : T # {} =>
          ChargeOf(t, b, S)[CHOOSE x \in T : TRUE] = Charge(t[(CHOOSE x \in T : TRUE)], b)
    BY DEF ChargeOf
  <2>. QED BY <2>1 DEF IsSum
<1>3. (CHOOSE sum : IsSum(sum, ChargeOf(t, b, S), S)) = (CHOOSE sum : IsThis(sum))
  <2>. HIDE DEF IsThis
  <2>. QED BY <1>2
<1>. HIDE DEF IsThis
<1>. QED BY <1>1, <1>3, SumIter

LEMMA OriginalSumIsSum ==
    ASSUME NEW S
    PROVE  OriginalSum(S) = SumOf(OriginalOf(S), S)
<1> DEFINE IsThis(sum) ==
             sum = [T \in SUBSET S |->
                      IF T = {} THEN 0
                      ELSE LET x == CHOOSE x \in T : TRUE IN x[2].amount + sum[T \ {x}]]
<1>1. OriginalSum(S) = (CHOOSE sum : IsThis(sum))[S]
  BY DEF OriginalSum, MapThenSumSet, MapThenFoldSet
<1>2. ASSUME NEW sum PROVE IsSum(sum, OriginalOf(S), S) <=> IsThis(sum)
  <2>1. \A T \in SUBSET S : T # {} =>
          OriginalOf(S)[CHOOSE x \in T : TRUE] = (CHOOSE x \in T : TRUE)[2].amount
    BY DEF OriginalOf
  <2>. QED BY <2>1 DEF IsSum
<1>3. (CHOOSE sum : IsSum(sum, OriginalOf(S), S)) = (CHOOSE sum : IsThis(sum))
  <2>. HIDE DEF IsThis
  <2>. QED BY <1>2
<1>. HIDE DEF IsThis
<1>. QED BY <1>1, <1>3, SumIter

LEMMA ShareSumIsSum == ASSUME NEW s PROVE ShareSum(s) = SumOf(s, Budgets)
BY DEF ShareSum, SumOf

-----------------------------------------------------------------------------
(* The inductive invariant: the types, that a match joins a row and a       *)
(* transaction that there are, and what a request in flight says of itself. *)

Job == [step : Steps, file : [Lines -> Nat], fresh : [Lines -> Nat], pairs : SUBSET Match,
        manual : SUBSET Match, row : RowIds \cup {None},
        originals : SUBSET (TxIds \X (Tx \cup {None})), sum : Int, to : Dates \cup {None}]

JobOK(j) ==
    /\ j.step = "adjust" => j.sum # 0 /\ j.to \in Dates
    /\ j.step = "link" => \E i \in TxIds : j.originals = {<<i, None>>}
    /\ j.step \in {"match", "replace"} => \A p \in j.pairs : ~p.manual
    /\ j.step = "replace" => \A p \in j.pairs, m \in j.manual : m.row # p.row /\ m.tx # p.tx
    /\ j.step = "merge" =>
         j.row \in RowIds /\ j.originals \subseteq TxIds \X Tx /\ IsFiniteSet(j.originals)

BookOK == txs \in [TxIds -> Tx \cup {None}] /\ sound \in BOOLEAN
SessionOK == session \in Session \cup {None}
RowsOK == rows \in [RowIds -> Lines \cup {None}] /\ printed \in [Lines -> Nat]
MatchesOK == matches \subseteq Match /\ \A m \in matches : m.tx \in Live /\ m.row \in Filled
JobsOK == jobs \in [Handlers -> Job] /\ \A h \in Handlers : JobOK(jobs[h])
BoundsOK == faults \in 0..MaxFaults /\ edits \in 0..MaxEdits

ReconcileInv == BookOK /\ SessionOK /\ RowsOK /\ MatchesOK /\ JobsOK /\ BoundsOK

LEMMA InvGivesTypes == ReconcileInv => TypeOK
BY DEF ReconcileInv, TypeOK, BookOK, SessionOK, RowsOK, MatchesOK, JobsOK, BoundsOK, Job

-----------------------------------------------------------------------------
(* What the operators return. *)

LEMMA FinitelyMany ==
    /\ \A S \in SUBSET TxIds : IsFiniteSet(S)
    /\ \A S \in SUBSET RowIds : IsFiniteSet(S)
BY ReconcileAssumption, FS_Subset

LEMMA SignedType == ASSUME NEW t \in Tx PROVE Signed(t) \in Int /\ t # None
BY NoneIsNoRow DEF Tx, Signed

LEMMA ThroughIs ==
    ASSUME BookOK, NEW d
    PROVE  /\ Through(d) = SumOf(SignedOf(txs, {i \in Live : txs[i].date <= d}),
                                 {i \in Live : txs[i].date <= d})
           /\ Through(d) \in Int
<1> DEFINE S == {i \in Live : txs[i].date <= d}
<1>1. Through(d) = SignedSum(txs, S)
  BY DEF Through, SignedSum
<1>2. IsFiniteSet(S)
  BY FinitelyMany DEF Live
<1>3. \A i \in S : SignedOf(txs, S)[i] \in Int
  BY SignedType DEF SignedOf, BookOK, Live
<1>. HIDE DEF S
<1>4. Through(d) = SumOf(SignedOf(txs, S), S)
  BY <1>1, SignedSumIsSum
<1>5. SumOf(SignedOf(txs, S), S) \in Int
  BY <1>2, <1>3, SumType
<1>. QED BY <1>4, <1>5 DEF S

LEMMA ResidualType ==
    ASSUME BookOK, NEW s \in Session
    PROVE  Residual(s) \in Int
<1>1. s.ending \in Int
  BY DEF Session
<1>2. Through(s.to) \in Int
  BY ThroughIs
<1>. QED BY <1>1, <1>2 DEF Residual

LEMMA CountType ==
    ASSUME NEW l
    PROVE  Count(l) \in Nat
<1>1. IsFiniteSet({r \in Filled : rows[r] = l})
  BY FinitelyMany DEF Filled
<1>. QED BY <1>1, FS_CardinalityType DEF Count

LEMMA FreshType ==
    ASSUME NEW file \in [Lines -> Nat]
    PROVE  [l \in Lines |-> Fresh(file, l)] \in [Lines -> Nat]
<1>1. ASSUME NEW l \in Lines PROVE Fresh(file, l) \in Nat
  BY CountType DEF Fresh
<1>. QED BY <1>1

LEMMA LargerOf ==
    ASSUME NEW m \in Nat, NEW n \in Nat
    PROVE  Max({m, n}) = IF m >= n THEN m ELSE n
<1> DEFINE x == IF m >= n THEN m ELSE n
<1>1. x \in {m, n} /\ \A y \in {m, n} : x >= y
  OBVIOUS
<1>2. \A z \in {m, n} : (\A y \in {m, n} : z >= y) => z = x
  OBVIOUS
<1>. QED BY <1>1, <1>2 DEF Max

LEMMA IdleOK == Idle \in Job /\ JobOK(Idle)
BY DEF Idle, Job, JobOK, Steps, NoLines

(* The job of a request goes on to j, or is done. *)
LEMMA JobsStep ==
    ASSUME JobsOK, NEW h \in Handlers, NEW j \in Job, JobOK(j), SetJob(h, j)
    PROVE  JobsOK' /\ jobs' = [jobs EXCEPT ![h] = j]
<1>1. jobs' = [jobs EXCEPT ![h] = j]
  BY DEF SetJob
<1>2. jobs' \in [Handlers -> Job]
  BY <1>1 DEF JobsOK
<1>3. \A g \in Handlers : JobOK(jobs'[g])
  BY <1>1 DEF JobsOK
<1>. QED BY <1>1, <1>2, <1>3 DEF JobsOK, JobOK

LEMMA FinishStep ==
    ASSUME JobsOK, NEW h \in Handlers, Finish(h)
    PROVE  JobsOK' /\ jobs' = [jobs EXCEPT ![h] = Idle]
BY JobsStep, IdleOK DEF Finish

LEMMA JobsStay == ASSUME JobsOK, UNCHANGED jobs PROVE JobsOK'
BY DEF JobsOK

(* A transaction more, or a changed one, leaves every match where it was.   *)
LEMMA MatchesStay ==
    ASSUME MatchesOK, UNCHANGED <<matches, rows>>, \A i \in Live : txs'[i] # None
    PROVE  MatchesOK'
BY DEF MatchesOK, Live, Filled

(* Transactions are deleted: their matches go, the session lets go of them. *)
LEMMA GoneFrom ==
    ASSUME SessionOK, NEW gone
    PROVE  /\ SessionWithout(gone) \in Session \cup {None}
           /\ session = None <=> SessionWithout(gone) = None
           /\ session # None => /\ SessionWithout(gone).status = session.status
                                /\ SessionWithout(gone).ending = session.ending
                                /\ SessionWithout(gone).to = session.to
BY NoneIsNoRow DEF SessionOK, SessionWithout, Session

-----------------------------------------------------------------------------
(* Every action keeps the invariant.  First the other routes.               *)

LEMMA CountedStep == ASSUME BoundsOK, Counted, UNCHANGED faults PROVE BoundsOK'
<1>1. edits' \in 0..MaxEdits
  BY ReconcileAssumption DEF BoundsOK, Counted
<1>. QED BY <1>1 DEF BoundsOK

LEMMA BoundsStay == ASSUME BoundsOK, UNCHANGED bounds PROVE BoundsOK'
BY DEF BoundsOK, bounds

LEMMA EnterStep ==
    ASSUME ReconcileInv, NEW i \in TxIds, NEW t \in Expenses, Enter(i, t)
    PROVE  ReconcileInv'
<1> USE DEF ReconcileInv, Enter, Edit
<1>1. txs' = [txs EXCEPT ![i] = t] /\ t \in Tx /\ t # None
  BY ExpensesAreRows, SignedType
<1>2. BookOK'
  BY <1>1 DEF BookOK
<1>3. \A k \in Live : txs'[k] # None
  BY <1>1 DEF Live, BookOK
<1>4. MatchesOK'
  BY <1>3, MatchesStay
<1>5. SessionOK' /\ RowsOK'
  BY DEF SessionOK, RowsOK
<1>6. JobsOK'
  BY JobsStay
<1>7. BoundsOK'
  BY CountedStep
<1>. QED BY <1>2, <1>4, <1>5, <1>6, <1>7

LEMMA ChangeStep ==
    ASSUME ReconcileInv, NEW i \in TxIds, NEW t \in Expenses, Change(i, t.amount)
    PROVE  ReconcileInv'
<1> USE DEF ReconcileInv, Change, Edit
<1>1. t.amount \in Nat \ {0}
  BY ExpensesAreRows DEF Tx
<1>2. txs[i] \in Tx /\ txs' = [txs EXCEPT ![i] = [txs[i] EXCEPT !.amount = t.amount]]
  BY DEF BookOK
<1>3. [txs[i] EXCEPT !.amount = t.amount] \in Tx
  BY <1>1, <1>2 DEF Tx
<1>4. BookOK'
  BY <1>2, <1>3 DEF BookOK
<1>5. \A k \in Live : txs'[k] # None
  BY <1>2, <1>3, SignedType DEF Live, BookOK
<1>6. MatchesOK'
  BY <1>5, MatchesStay
<1>7. SessionOK' /\ RowsOK'
  BY DEF SessionOK, RowsOK
<1>8. JobsOK'
  BY JobsStay
<1>9. BoundsOK'
  BY CountedStep
<1>. QED BY <1>4, <1>6, <1>7, <1>8, <1>9

LEMMA StrikeStep ==
    ASSUME ReconcileInv, NEW i \in TxIds, Strike(i)
    PROVE  ReconcileInv'
<1> USE DEF ReconcileInv, Strike, Edit
<1>1. BookOK'
  BY DEF BookOK
<1>2. \A m \in matches' : m \in matches /\ m.tx # i
  BY DEF MatchesWithout
<1>3. \A k \in Live \ {i} : k \in Live'
  BY DEF Live, BookOK
<1>4. MatchesOK'
  <2>1. matches' \subseteq Match
    BY <1>2 DEF MatchesOK
  <2>2. ASSUME NEW m \in matches' PROVE m.tx \in Live' /\ m.row \in Filled'
    BY <1>2, <1>3 DEF MatchesOK, Filled
  <2>. QED BY <2>1, <2>2 DEF MatchesOK
<1>5. SessionOK'
  BY GoneFrom DEF SessionOK
<1>6. RowsOK'
  BY DEF RowsOK
<1>7. JobsOK'
  BY JobsStay
<1>8. BoundsOK'
  BY CountedStep
<1>. QED BY <1>1, <1>4, <1>5, <1>6, <1>7, <1>8

LEMMA DisturbStep ==
    ASSUME ReconcileInv, Disturb
    PROVE  ReconcileInv'
<1> USE DEF ReconcileInv, Disturb, Edit
<1>1. BookOK'
  BY DEF BookOK
<1>2. MatchesOK'
  BY MatchesStay DEF Live
<1>3. SessionOK' /\ RowsOK'
  BY DEF SessionOK, RowsOK
<1>4. JobsOK'
  BY JobsStay
<1>5. BoundsOK'
  BY CountedStep
<1>. QED BY <1>1, <1>2, <1>3, <1>4, <1>5

LEMMA PairStep ==
    ASSUME ReconcileInv, NEW r \in RowIds, NEW i \in TxIds, PairByHand(r, i)
    PROVE  ReconcileInv'
<1> USE DEF ReconcileInv, PairByHand
<1>1. BookOK' /\ SessionOK' /\ RowsOK'
  BY DEF BookOK, SessionOK, RowsOK, ledger
<1>2. MatchesOK'
  <2> DEFINE new == [row |-> r, tx |-> i, manual |-> TRUE]
  <2>1. new \in Match /\ new.tx \in Live /\ new.row \in Filled /\ matches' = matches \cup {new}
    BY DEF Match, Live, Filled
  <2>2. Live' = Live /\ Filled' = Filled
    BY DEF Live, Filled, ledger
  <2>. HIDE DEF new
  <2>. QED BY <2>1, <2>2 DEF MatchesOK
<1>3. JobsOK'
  BY JobsStay
<1>4. BoundsOK'
  BY CountedStep
<1>. QED BY <1>1, <1>2, <1>3, <1>4

LEMMA UnpairStep ==
    ASSUME ReconcileInv, NEW m, Unpair(m)
    PROVE  ReconcileInv'
<1> USE DEF ReconcileInv, Unpair
<1>1. BookOK' /\ SessionOK' /\ RowsOK'
  BY DEF BookOK, SessionOK, RowsOK, ledger
<1>2. MatchesOK'
  <2>1. matches' \subseteq matches /\ UNCHANGED <<txs, rows>>
    BY DEF ledger
  <2>2. Live' = Live /\ Filled' = Filled
    BY <2>1 DEF Live, Filled
  <2>. QED BY <2>1, <2>2 DEF MatchesOK
<1>3. JobsOK'
  BY JobsStay
<1>4. BoundsOK'
  BY CountedStep
<1>. QED BY <1>1, <1>2, <1>3, <1>4

-----------------------------------------------------------------------------
(* A request that only reads leaves everything but its job.                 *)
OnlyReads(h) ==
    /\ UNCHANGED <<txs, sound, session, rows, matches, printed, faults, edits>>
    /\ \A g \in Handlers \ {h} : jobs'[g] = jobs[g]

LEMMA ReadStep ==
    ASSUME ReconcileInv, NEW h \in Handlers, NEW j \in Job, JobOK(j), SetJob(h, j),
           UNCHANGED <<txs, sound, session, rows, matches, printed, faults, edits>>
    PROVE  ReconcileInv' /\ OnlyReads(h) /\ jobs'[h] = j
<1>1. JobsOK' /\ jobs' = [jobs EXCEPT ![h] = j]
  BY JobsStep DEF ReconcileInv
<1>2. BookOK' /\ SessionOK' /\ RowsOK' /\ MatchesOK' /\ BoundsOK'
  BY DEF ReconcileInv, BookOK, SessionOK, RowsOK, MatchesOK, BoundsOK, Live, Filled
<1>3. OnlyReads(h) /\ jobs'[h] = j
  BY <1>1 DEF OnlyReads, JobsOK, ReconcileInv
<1>. QED BY <1>1, <1>2, <1>3 DEF ReconcileInv

LEMMA CheckStatusStep ==
    ASSUME ReconcileInv, NEW h \in Handlers, NEW request \in {"patch", "abandon"}, CheckStatus(h, request)
    PROVE  ReconcileInv' /\ OnlyReads(h) /\ jobs'[h].step = request /\ Drafted
<1> DEFINE j == [Idle EXCEPT !.step = request]
<1>1. j \in Job /\ JobOK(j) /\ j.step = request
  BY IdleOK DEF Idle, Job, JobOK, Steps
<1>2. SetJob(h, j) /\ Drafted /\ UNCHANGED <<txs, sound, session, rows, matches, printed, faults, edits>>
  BY DEF CheckStatus, ledger, scaffold, bounds
<1>. HIDE DEF j
<1>. QED BY <1>1, <1>2, ReadStep

LEMMA ReadFileStep ==
    ASSUME ReconcileInv, NEW h \in Handlers, NEW file \in Files, ReadFile(h, file)
    PROVE  /\ ReconcileInv' /\ OnlyReads(h) /\ Drafted
           /\ jobs'[h].step = "import" /\ jobs'[h].file = file
           /\ jobs'[h].fresh = [l \in Lines |-> Fresh(file, l)]
<1> DEFINE j == [Idle EXCEPT !.step = "import", !.file = file, !.fresh = [l \in Lines |-> Fresh(file, l)]]
<1>1. file \in [Lines -> Nat] /\ [l \in Lines |-> Fresh(file, l)] \in [Lines -> Nat]
  BY FreshType, ReconcileAssumption
<1>2. j \in Job /\ JobOK(j) /\ j.step = "import" /\ j.file = file /\ j.fresh = [l \in Lines |-> Fresh(file, l)]
  <2> DEFINE fresh == [l \in Lines |-> Fresh(file, l)]
  <2>1. fresh \in [Lines -> Nat]
    BY <1>1
  <2>2. j = [Idle EXCEPT !.step = "import", !.file = file, !.fresh = fresh]
    OBVIOUS
  <2>. HIDE DEF fresh, j
  <2>3. j \in Job /\ JobOK(j) /\ j.step = "import" /\ j.file = file /\ j.fresh = fresh
    BY <1>1, <2>1, <2>2, IdleOK DEF Idle, Job, JobOK, Steps
  <2>. QED BY <2>3 DEF fresh
<1>3. SetJob(h, j) /\ Drafted /\ UNCHANGED <<txs, sound, session, rows, matches, printed, faults, edits>>
  BY DEF ReadFile, ledger, scaffold, bounds
<1>. HIDE DEF j
<1>. QED BY <1>2, <1>3, ReadStep

LEMMA RunMatcherStep ==
    ASSUME ReconcileInv, NEW h \in Handlers, RunMatcher(h)
    PROVE  ReconcileInv' /\ OnlyReads(h) /\ jobs'[h].step = "match"
<1>1. PICK pairs \in Pairings : SetJob(h, [Idle EXCEPT !.step = "match", !.pairs = pairs])
  BY DEF RunMatcher
<1> DEFINE j == [Idle EXCEPT !.step = "match", !.pairs = pairs]
<1>2. pairs \subseteq [row : RowIds, tx : TxIds, manual : {FALSE}]
  BY DEF Pairings, Filled, Live
<1>3. pairs \subseteq Match /\ \A p \in pairs : ~p.manual
  BY <1>2 DEF Match
<1>4. j \in Job /\ JobOK(j) /\ j.step = "match"
  BY <1>3, IdleOK DEF Idle, Job, JobOK, Steps
<1>5. SetJob(h, j) /\ UNCHANGED <<txs, sound, session, rows, matches, printed, faults, edits>>
  BY <1>1 DEF RunMatcher, ledger, scaffold, bounds
<1>. HIDE DEF j
<1>. QED BY <1>4, <1>5, ReadStep

LEMMA ReadManualStep ==
    ASSUME ReconcileInv, NEW h \in Handlers, ReadManual(h)
    PROVE  ReconcileInv' /\ OnlyReads(h) /\ jobs[h].step = "match" /\ jobs'[h].step = "replace"
<1> DEFINE j == [jobs[h] EXCEPT !.step = "replace", !.pairs = Unclaimed(jobs[h].pairs), !.manual = Claimed]
<1>1. jobs[h] \in Job /\ JobOK(jobs[h]) /\ jobs[h].step = "match"
  BY DEF ReadManual, ReconcileInv, JobsOK
<1>2. Claimed \subseteq Match
  BY DEF ReconcileInv, MatchesOK, Claimed
<1>3. /\ Unclaimed(jobs[h].pairs) \subseteq jobs[h].pairs
      /\ \A p \in Unclaimed(jobs[h].pairs), m \in Claimed : m.row # p.row /\ m.tx # p.tx
  BY DEF Unclaimed
<1>4. SetJob(h, j) /\ UNCHANGED <<txs, sound, session, rows, matches, printed, faults, edits>>
  BY DEF ReadManual, ledger, scaffold, bounds
<1>5. j.step = "replace" /\ j.pairs = Unclaimed(jobs[h].pairs) /\ j.manual = Claimed /\ j \in Job
  BY <1>1, <1>2, <1>3 DEF Job, Steps
<1>6. JobOK(j)
  <2>1. \A p \in Unclaimed(jobs[h].pairs) : ~p.manual
    BY <1>1, <1>3 DEF JobOK
  <2>. HIDE DEF j
  <2>. QED BY <1>3, <1>5, <2>1 DEF JobOK
<1>. HIDE DEF j
<1>. QED BY <1>1, <1>4, <1>5, <1>6, ReadStep

LEMMA ReadForAdjustmentStep ==
    ASSUME ReconcileInv, NEW h \in Handlers, ReadForAdjustment(h)
    PROVE  /\ ReconcileInv' /\ OnlyReads(h) /\ Drafted
           /\ jobs'[h].step = "adjust" /\ jobs'[h].sum = Residual(session)
           /\ jobs'[h].to = session.to
<1> DEFINE j == [Idle EXCEPT !.step = "adjust", !.sum = Residual(session), !.to = session.to]
<1>1. Drafted /\ Residual(session) # 0 /\ SetJob(h, j)
      /\ UNCHANGED <<txs, sound, session, rows, matches, printed, faults, edits>>
  BY DEF ReadForAdjustment, ledger, scaffold, bounds
<1>2. Residual(session) \in Int /\ session.to \in Dates
  BY <1>1, ResidualType DEF Drafted, ReconcileInv, SessionOK, Session
<1>3. j \in Job /\ JobOK(j) /\ j.step = "adjust" /\ j.sum = Residual(session) /\ j.to = session.to
  BY <1>1, <1>2, IdleOK DEF Idle, Job, JobOK, Steps
<1>. HIDE DEF j
<1>. QED BY <1>1, <1>3, ReadStep

LEMMA ReadForCloseStep ==
    ASSUME ReconcileInv, NEW h \in Handlers, ReadForClose(h)
    PROVE  /\ ReconcileInv' /\ OnlyReads(h) /\ Drafted /\ Residual(session) = 0
           /\ jobs'[h].step = "close"
<1> DEFINE j == [Idle EXCEPT !.step = "close"]
<1>1. Drafted /\ Residual(session) = 0 /\ SetJob(h, j)
      /\ UNCHANGED <<txs, sound, session, rows, matches, printed, faults, edits>>
  BY DEF ReadForClose, ledger, scaffold, bounds
<1>2. j \in Job /\ JobOK(j) /\ j.step = "close"
  BY IdleOK DEF Idle, Job, JobOK, Steps
<1>. HIDE DEF j
<1>. QED BY <1>1, <1>2, ReadStep

LEMMA CheckLedgerStep ==
    ASSUME ReconcileInv, NEW h \in Handlers, CheckLedger(h)
    PROVE  /\ ReconcileInv' /\ OnlyReads(h) /\ jobs[h].step = "close"
           /\ \/ jobs'[h].step = "certify" /\ jobs'[h].pairs = matches /\ sound
              \/ jobs'[h] = Idle
<1>1. jobs[h].step = "close" /\ UNCHANGED <<txs, sound, session, rows, matches, printed, faults, edits>>
  BY DEF CheckLedger, ledger, scaffold, bounds
<1>2. CASE sound
  <2> DEFINE j == [Idle EXCEPT !.step = "certify", !.pairs = matches]
  <2>1. j \in Job /\ JobOK(j) /\ j.step = "certify" /\ j.pairs = matches
    BY IdleOK DEF Idle, Job, JobOK, Steps, ReconcileInv, MatchesOK
  <2>2. SetJob(h, j)
    BY <1>2 DEF CheckLedger
  <2>. HIDE DEF j
  <2>. QED BY <1>1, <1>2, <2>1, <2>2, ReadStep
<1>3. CASE ~sound
  <2>1. SetJob(h, Idle)
    BY <1>3 DEF CheckLedger, Finish
  <2>. QED BY <1>1, <2>1, IdleOK, ReadStep
<1>. QED BY <1>2, <1>3

LEMMA ReadForMergeStep ==
    ASSUME ReconcileInv, NEW h \in Handlers, NEW r \in RowIds, NEW ids \in SUBSET TxIds, ReadForMerge(h, r, ids)
    PROVE  /\ ReconcileInv' /\ OnlyReads(h) /\ Drafted /\ r \in Filled
           /\ ids # {} /\ ids \subseteq Live /\ \A i \in ids : txs[i].type = "EXPENSE"
           /\ AmountSum(txs, ids) = rows[r].amount
           /\ jobs'[h].step = "merge" /\ jobs'[h].row = r
           /\ jobs'[h].originals = {<<i, txs[i]>> : i \in ids}
<1> DEFINE originals == {<<i, txs[i]>> : i \in ids}
           j == [Idle EXCEPT !.step = "merge", !.row = r, !.originals = originals]
<1>1. /\ Drafted /\ r \in Filled
      /\ ids # {} /\ ids \subseteq Live /\ \A i \in ids : txs[i].type = "EXPENSE"
      /\ AmountSum(txs, ids) = rows[r].amount
      /\ SetJob(h, j) /\ UNCHANGED <<txs, sound, session, rows, matches, printed, faults, edits>>
  BY DEF ReadForMerge, ledger, scaffold, bounds, AmountSum
<1>2. originals \subseteq TxIds \X Tx /\ IsFiniteSet(originals)
  <2>1. originals \subseteq TxIds \X Tx
    BY <1>1 DEF Live, ReconcileInv, BookOK
  <2> DEFINE entry == [i \in TxIds |-> <<i, txs[i]>>]
  <2>2. originals = {entry[i] : i \in ids} /\ IsFiniteSet(ids)
    BY FinitelyMany
  <2>. HIDE DEF entry, originals
  <2>. QED BY <2>1, <2>2, ImageIsFinite
<1>3. j \in Job /\ JobOK(j) /\ j.step = "merge" /\ j.row = r /\ j.originals = originals
  <2>. HIDE DEF originals
  <2>. QED BY <1>2, IdleOK DEF Idle, Job, JobOK, Steps
<1>4. ReconcileInv' /\ OnlyReads(h) /\ jobs'[h] = j
  <2>. HIDE DEF j
  <2>. QED BY <1>1, <1>3, ReadStep
<1>. HIDE DEF j
<1>. QED BY <1>1, <1>3, <1>4

LEMMA DieStep ==
    ASSUME ReconcileInv, NEW h \in Handlers, Die(h)
    PROVE  ReconcileInv' /\ jobs' = [jobs EXCEPT ![h] = Idle] /\ UNCHANGED <<ledger, scaffold>>
<1>1. JobsOK' /\ jobs' = [jobs EXCEPT ![h] = Idle]
  BY FinishStep DEF Die, ReconcileInv
<1>2. UNCHANGED <<ledger, scaffold>> /\ UNCHANGED <<txs, sound, session, rows, matches, printed>>
  BY DEF Die, ledger, scaffold
<1>3. BookOK' /\ SessionOK' /\ RowsOK' /\ MatchesOK'
  BY <1>2 DEF ReconcileInv, BookOK, SessionOK, RowsOK, MatchesOK, Live, Filled
<1>4. BoundsOK'
  BY ReconcileAssumption DEF ReconcileInv, BoundsOK, Die
<1>. QED BY <1>1, <1>2, <1>3, <1>4 DEF ReconcileInv

-----------------------------------------------------------------------------
(* Requests that write. *)

LEMMA OpenStep ==
    ASSUME ReconcileInv, NEW h \in Handlers, NEW ending \in Endings, NEW to \in Dates, Open(h, ending, to)
    PROVE  ReconcileInv'
<1>1. UNCHANGED <<txs, sound, jobs, faults, edits>> /\ matches' = {}
  BY DEF Open, ledger, bounds
<1>2. BookOK' /\ JobsOK' /\ BoundsOK'
  BY <1>1, JobsStay DEF ReconcileInv, BookOK, BoundsOK
<1>3. SessionOK'
  BY ReconcileAssumption DEF SessionOK, Open, Session
<1>4. RowsOK'
  BY DEF RowsOK, Open, NoLines
<1>5. MatchesOK'
  BY <1>1 DEF MatchesOK
<1>. QED BY <1>2, <1>3, <1>4, <1>5 DEF ReconcileInv

LEMMA PatchStep ==
    ASSUME ReconcileInv, NEW h \in Handlers, NEW ending \in Endings, NEW to \in Dates, Patch(h, ending, to)
    PROVE  ReconcileInv'
<1>1. UNCHANGED <<txs, sound, rows, matches, printed, faults>> /\ Counted
  BY DEF Patch, ledger
<1>2. BookOK' /\ RowsOK' /\ MatchesOK'
  BY <1>1 DEF ReconcileInv, BookOK, RowsOK, MatchesOK, Live, Filled
<1>3. SessionOK'
  BY ReconcileAssumption DEF ReconcileInv, SessionOK, Patch, Session
<1>4. JobsOK'
  BY FinishStep DEF Patch, ReconcileInv
<1>5. BoundsOK'
  BY <1>1, CountedStep DEF ReconcileInv
<1>. QED BY <1>2, <1>3, <1>4, <1>5 DEF ReconcileInv

LEMMA AbandonStep ==
    ASSUME ReconcileInv, NEW h \in Handlers, Abandon(h)
    PROVE  ReconcileInv'
<1>1. UNCHANGED <<txs, sound, faults, edits>> /\ matches' = {} /\ session' = None
  BY DEF Abandon, ledger, bounds
<1>2. BookOK' /\ SessionOK' /\ MatchesOK' /\ BoundsOK'
  BY <1>1 DEF ReconcileInv, BookOK, SessionOK, MatchesOK, BoundsOK
<1>3. RowsOK'
  BY DEF RowsOK, Abandon, NoLines
<1>4. JobsOK'
  BY FinishStep DEF Abandon, ReconcileInv
<1>. QED BY <1>2, <1>3, <1>4 DEF ReconcileInv

LEMMA ImportStep ==
    ASSUME ReconcileInv, NEW h \in Handlers, Import(h)
    PROVE  /\ ReconcileInv'
           /\ UNCHANGED <<txs, sound, session, matches, faults, edits>>
           /\ jobs' = [jobs EXCEPT ![h] = Idle] /\ jobs[h].step = "import"
<1>1. UNCHANGED <<txs, sound, session, matches, faults, edits>> /\ jobs[h].step = "import"
  BY DEF Import, ledger, bounds
<1>2. BookOK' /\ SessionOK' /\ BoundsOK'
  BY <1>1 DEF ReconcileInv, BookOK, SessionOK, BoundsOK
<1>3. RowsOK'
  <2>1. CASE session = None
    BY <2>1 DEF Import, ReconcileInv, RowsOK
  <2>2. CASE session # None
    <3>1. ASSUME NEW l \in Lines PROVE Max({printed[l], jobs[h].file[l]}) \in Nat
      <4>1. printed[l] \in Nat /\ jobs[h].file[l] \in Nat
        BY DEF ReconcileInv, RowsOK, JobsOK, Job
      <4>. QED BY <4>1, LargerOf
    <3>2. /\ rows' \in [RowIds -> Lines \cup {None}]
          /\ printed' = [l \in Lines |-> Max({printed[l], jobs[h].file[l]})]
      BY <2>2 DEF Import
    <3>. QED BY <3>1, <3>2 DEF RowsOK
  <2>. QED BY <2>1, <2>2
<1>4. Filled \subseteq Filled'
  BY DEF Import, Filled, FreeRow, ReconcileInv, RowsOK
<1>5. MatchesOK'
  BY <1>1, <1>4 DEF ReconcileInv, MatchesOK, Live
<1>6. JobsOK' /\ jobs' = [jobs EXCEPT ![h] = Idle]
  BY FinishStep DEF Import, ReconcileInv
<1>. QED BY <1>1, <1>2, <1>3, <1>5, <1>6 DEF ReconcileInv

LEMMA ReplaceStep ==
    ASSUME ReconcileInv, NEW h \in Handlers, Replace(h)
    PROVE  /\ ReconcileInv'
           /\ UNCHANGED <<txs, sound, session, rows, printed, faults, edits>>
           /\ \/ matches' = matches
              \/ matches' = Claimed \cup {p \in jobs[h].pairs : [p EXCEPT !.manual = TRUE] \notin Claimed}
<1>1. UNCHANGED <<txs, sound, session, rows, printed, faults, edits>> /\ jobs[h].step = "replace"
  BY DEF Replace, ledger, bounds
<1>2. BookOK' /\ SessionOK' /\ RowsOK' /\ BoundsOK'
  BY <1>1 DEF ReconcileInv, BookOK, SessionOK, RowsOK, BoundsOK
<1>3. JobsOK'
  BY FinishStep DEF Replace, ReconcileInv
<1> DEFINE new == {p \in jobs[h].pairs : [p EXCEPT !.manual = TRUE] \notin Claimed}
<1>4. \/ matches' = matches
      \/ /\ matches' = Claimed \cup new
         /\ \A p \in jobs[h].pairs : rows[p.row] # None /\ txs[p.tx] # None
  BY DEF Replace
<1>5. MatchesOK'
  <2>1. Live' = Live /\ Filled' = Filled
    BY <1>1 DEF Live, Filled
  <2>2. CASE matches' = matches
    BY <2>1, <2>2 DEF ReconcileInv, MatchesOK
  <2>3. CASE matches' # matches
    <3>1. Claimed \subseteq matches
      BY DEF Claimed
    <3>2. new \subseteq jobs[h].pairs /\ jobs[h].pairs \subseteq Match
      BY DEF ReconcileInv, JobsOK, Job
    <3>3. \A p \in new : p.tx \in Live /\ p.row \in Filled
      BY <1>4, <2>3, <3>2 DEF Match, Live, Filled
    <3>4. matches' = Claimed \cup new
      BY <1>4, <2>3
    <3>. HIDE DEF new
    <3>. QED BY <2>1, <3>1, <3>2, <3>3, <3>4 DEF ReconcileInv, MatchesOK
  <2>. QED BY <2>2, <2>3
<1>. QED BY <1>1, <1>2, <1>3, <1>4, <1>5 DEF ReconcileInv

(* The row that books a sum.                                                *)
Booked(sum, date) ==
    [type |-> IF sum > 0 THEN "INCOME" ELSE "EXPENSE", amount |-> IF sum > 0 THEN sum ELSE -sum,
     date |-> date, budget |-> Uncategorized, shares |-> Nothing, stamped |-> FALSE]

LEMMA BookedIs ==
    ASSUME NEW sum \in Int, sum # 0, NEW date \in Dates
    PROVE  Booked(sum, date) \in Tx /\ Signed(Booked(sum, date)) = sum /\ Booked(sum, date).date = date
<1>1. Nothing \in [Budgets -> Nat]
  BY DEF Nothing
<1>2. CASE sum > 0
  BY <1>1, <1>2, ReconcileAssumption DEF Booked, Tx, Signed
<1>3. CASE ~(sum > 0)
  BY <1>1, <1>3, ReconcileAssumption DEF Booked, Tx, Signed
<1>. QED BY <1>2, <1>3

LEMMA BookAdjustmentStep ==
    ASSUME ReconcileInv, NEW h \in Handlers, NEW i \in TxIds, BookAdjustment(h, i)
    PROVE  /\ ReconcileInv'
           /\ UNCHANGED <<sound, session, rows, matches, printed, faults, edits>>
           /\ jobs[h].step = "adjust" /\ jobs'[h].step = "link"
           /\ txs[i] = None /\ jobs[h].sum # 0 /\ jobs[h].to \in Dates
           /\ txs' = [txs EXCEPT ![i] = Booked(jobs[h].sum, jobs[h].to)]
           /\ \A g \in Handlers \ {h} : jobs'[g] = jobs[g]
<1>1. /\ UNCHANGED <<sound, session, rows, matches, printed, faults, edits>>
      /\ jobs[h].step = "adjust" /\ txs[i] = None
      /\ txs' = [txs EXCEPT ![i] = Booked(jobs[h].sum, jobs[h].to)]
  BY DEF BookAdjustment, FreeTx, scaffold, bounds, Booked
<1>2. jobs[h].sum \in Int /\ jobs[h].sum # 0 /\ jobs[h].to \in Dates
  BY <1>1 DEF ReconcileInv, JobsOK, JobOK, Job
<1>3. Booked(jobs[h].sum, jobs[h].to) \in Tx
  BY <1>2, BookedIs
<1>4. BookOK' /\ \A k \in Live : txs'[k] # None
  BY <1>1, <1>3, SignedType DEF ReconcileInv, BookOK, Live
<1>5. MatchesOK'
  BY <1>1, <1>4, MatchesStay DEF ReconcileInv
<1>6. SessionOK' /\ RowsOK' /\ BoundsOK'
  BY <1>1 DEF ReconcileInv, SessionOK, RowsOK, BoundsOK
<1> DEFINE j == [Idle EXCEPT !.step = "link", !.originals = {<<i, None>>}]
<1>7. j \in Job /\ JobOK(j) /\ j.step = "link"
  <2> DEFINE original == {<<i, None>>}
  <2>1. original \subseteq TxIds \X (Tx \cup {None}) /\ \E k \in TxIds : original = {<<k, None>>}
    OBVIOUS
  <2>2. j = [Idle EXCEPT !.step = "link", !.originals = original]
    OBVIOUS
  <2>. HIDE DEF original, j
  <2>. QED BY <2>1, <2>2, IdleOK DEF Idle, Job, JobOK, Steps
<1>8. SetJob(h, j)
  BY DEF BookAdjustment
<1>9. JobsOK' /\ jobs' = [jobs EXCEPT ![h] = j]
  <2>. HIDE DEF j
  <2>. QED BY <1>7, <1>8, JobsStep DEF ReconcileInv
<1>10. jobs'[h].step = "link" /\ \A g \in Handlers \ {h} : jobs'[g] = jobs[g]
  <2>. HIDE DEF j
  <2>. QED BY <1>7, <1>9 DEF ReconcileInv, JobsOK
<1>. QED BY <1>1, <1>2, <1>4, <1>5, <1>6, <1>9, <1>10 DEF ReconcileInv

LEMMA LinkStep ==
    ASSUME ReconcileInv, NEW h \in Handlers, Link(h)
    PROVE  /\ ReconcileInv'
           /\ UNCHANGED <<txs, sound, rows, matches, printed, faults, edits>>
           /\ jobs[h].step = "link"
           /\ session' # session =>
                session # None /\ \E i \in TxIds : session' = [session EXCEPT !.adjustment = i]
<1>1. UNCHANGED <<txs, sound, rows, matches, printed, faults, edits>> /\ jobs[h].step = "link"
  BY DEF Link, ledger, bounds
<1>2. PICK k \in TxIds : jobs[h].originals = {<<k, None>>}
  BY <1>1 DEF ReconcileInv, JobsOK, JobOK
<1>3. (CHOOSE o \in jobs[h].originals : TRUE)[1] = k
  <2> DEFINE S == jobs[h].originals
  <2>1. <<k, None>> \in S /\ \A o \in S : o = <<k, None>>
    BY <1>2
  <2>2. (CHOOSE o \in S : TRUE) \in S
    <3>. HIDE DEF S
    <3>. QED BY <2>1
  <2>3. (CHOOSE o \in S : TRUE) = <<k, None>>
    <3>. HIDE DEF S
    <3>. QED BY <2>1, <2>2
  <2> DEFINE c == CHOOSE o \in S : TRUE
  <2>4. c[1] = k
    <3>1. c = <<k, None>>
      BY <2>3
    <3>. HIDE DEF c
    <3>. QED BY <3>1
  <2>. QED BY Zenon, <2>4
<1>4. session' = IF session = None \/ txs[k] = None THEN session ELSE [session EXCEPT !.adjustment = k]
  BY <1>3 DEF Link
<1>5. BookOK' /\ RowsOK' /\ MatchesOK' /\ BoundsOK'
  BY <1>1 DEF ReconcileInv, BookOK, RowsOK, MatchesOK, Live, Filled, BoundsOK
<1>6. SessionOK'
  BY <1>4 DEF ReconcileInv, SessionOK, Session
<1>7. JobsOK'
  BY FinishStep DEF Link, ReconcileInv
<1>. QED BY <1>1, <1>4, <1>5, <1>6, <1>7 DEF ReconcileInv

LEMMA CertifyStep ==
    ASSUME ReconcileInv, NEW h \in Handlers, Certify(h)
    PROVE  /\ ReconcileInv'
           /\ UNCHANGED <<sound, rows, matches, printed, faults, edits>>
           /\ jobs[h].step = "certify"
           /\ session = None => UNCHANGED <<txs, session>>
           /\ session # None =>
                /\ session' = [session EXCEPT !.status = "RECONCILED"]
                /\ \A i \in TxIds :
                     txs'[i] = IF i \in Live /\ (\E p \in jobs[h].pairs : p.tx = i)
                               THEN [txs[i] EXCEPT !.stamped = TRUE] ELSE txs[i]
<1>1. UNCHANGED <<sound, rows, matches, printed, faults, edits>> /\ jobs[h].step = "certify"
  BY DEF Certify, bounds
<1>2. session = None => UNCHANGED <<txs, session>>
  BY DEF Certify
<1>3. session # None =>
        /\ session' = [session EXCEPT !.status = "RECONCILED"]
        /\ txs' = [i \in TxIds |-> IF i \in {p.tx : p \in jobs[h].pairs} \cap Live
                                   THEN [txs[i] EXCEPT !.stamped = TRUE] ELSE txs[i]]
  BY DEF Certify
<1>4. session # None =>
        \A i \in TxIds :
            txs'[i] = IF i \in Live /\ (\E p \in jobs[h].pairs : p.tx = i)
                      THEN [txs[i] EXCEPT !.stamped = TRUE] ELSE txs[i]
  BY <1>3
<1>5. \A i \in Live : [txs[i] EXCEPT !.stamped = TRUE] \in Tx
  <2>1. ASSUME NEW i \in Live PROVE txs[i] \in Tx
    BY DEF ReconcileInv, BookOK, Live
  <2>. QED BY <2>1 DEF Tx
<1>6. BookOK' /\ \A i \in Live : txs'[i] # None
  <2>1. CASE session = None
    BY <1>1, <1>2, <2>1 DEF ReconcileInv, BookOK, Live
  <2>2. CASE session # None
    <3>1. \A i \in TxIds : txs'[i] \in Tx \cup {None} /\ (i \in Live => txs'[i] # None)
      <4>1. ASSUME NEW i \in TxIds PROVE txs'[i] \in {txs[i], [txs[i] EXCEPT !.stamped = TRUE]}
        BY <1>4, <2>2
      <4>2. ASSUME NEW i \in Live PROVE txs[i] \in Tx /\ txs[i] # None
        BY DEF ReconcileInv, BookOK, Live
      <4>3. \A i \in Live : txs'[i] \in Tx /\ txs'[i] # None
        BY <1>5, <4>1, <4>2, SignedType DEF Live
      <4>4. \A i \in TxIds \ Live : txs'[i] = None
        BY <1>4, <2>2 DEF Live
      <4>. QED BY <4>3, <4>4
    <3>2. txs' = [i \in TxIds |-> txs'[i]]
      BY <1>3, <2>2
    <3>. QED BY <1>1, <3>1, <3>2 DEF ReconcileInv, BookOK, Live
  <2>. QED BY <2>1, <2>2
<1>7. MatchesOK'
  BY <1>1, <1>6, MatchesStay DEF ReconcileInv
<1>8. SessionOK'
  BY <1>2, <1>3 DEF ReconcileInv, SessionOK, Session
<1>9. RowsOK' /\ BoundsOK'
  BY <1>1 DEF ReconcileInv, RowsOK, BoundsOK
<1>10. JobsOK'
  BY FinishStep DEF Certify, ReconcileInv
<1>. QED BY <1>1, <1>2, <1>3, <1>4, <1>6, <1>7, <1>8, <1>9, <1>10 DEF ReconcileInv

-----------------------------------------------------------------------------
(* The merge. *)

(* What a merge puts in the place of the originals.                         *)
LEMMA ParentIs ==
    ASSUME NEW line \in Lines, NEW originals, originals \subseteq TxIds \X Tx, IsFiniteSet(originals),
           NEW head \in originals
    PROVE  /\ Parent(line, head, originals) \in Tx
           /\ Signed(Parent(line, head, originals)) = -line.amount
           /\ Parent(line, head, originals).type = "EXPENSE"
           /\ Parent(line, head, originals).amount = line.amount
           /\ Parent(line, head, originals).budget = head[2].budget
           /\ \A b \in Budgets : Parent(line, head, originals).shares[b]
                = SumOf(OriginalOf({o \in originals \ {head} : o[2].budget = b}),
                        {o \in originals \ {head} : o[2].budget = b})
<1> DEFINE rest == originals \ {head}
           For(b) == {o \in rest : o[2].budget = b}
           shares == [b \in Budgets |-> OriginalSum(For(b))]
<1>1. \A o \in originals : o[2] \in Tx /\ o[2].amount \in Nat /\ o[2].budget \in Budgets
  BY DEF Tx
<1>2. ASSUME NEW b \in Budgets
      PROVE  OriginalSum(For(b)) = SumOf(OriginalOf(For(b)), For(b)) /\ OriginalSum(For(b)) \in Nat
  <2>1. IsFiniteSet(For(b)) /\ \A o \in For(b) : OriginalOf(For(b))[o] \in Nat
    BY <1>1, FS_Subset DEF OriginalOf
  <2>. HIDE DEF For
  <2>. QED BY <2>1, OriginalSumIsSum, SumNat
<1>3. shares \in [Budgets -> Nat]
  BY <1>2
<1>4. Parent(line, head, originals)
        = [type |-> "EXPENSE", amount |-> line.amount, date |-> line.posted,
           budget |-> head[2].budget, shares |-> shares, stamped |-> FALSE]
  BY DEF Parent, OriginalSum
<1>5. line.amount \in Nat \ {0} /\ line.posted \in Dates /\ head[2].budget \in Budgets
  BY <1>1, ReconcileAssumption
<1>6. /\ Parent(line, head, originals) \in Tx
      /\ Signed(Parent(line, head, originals)) = -line.amount
      /\ Parent(line, head, originals).type = "EXPENSE"
      /\ Parent(line, head, originals).amount = line.amount
      /\ Parent(line, head, originals).budget = head[2].budget
      /\ Parent(line, head, originals).shares = shares
  <2>. HIDE DEF shares
  <2>. QED BY <1>3, <1>4, <1>5 DEF Tx, Signed
<1>7. \A b \in Budgets : shares[b] = SumOf(OriginalOf(For(b)), For(b))
  BY <1>2
<1>. QED BY <1>6, <1>7

Gone(j) == {o[1] : o \in j.originals}

LEMMA MergeStep ==
    ASSUME ReconcileInv, NEW h \in Handlers, NEW head \in jobs[h].originals, NEW p \in TxIds, Merge(h, head, p)
    PROVE  /\ ReconcileInv'
           /\ UNCHANGED <<sound, rows, printed, faults, edits>>
           /\ jobs[h].step = "merge"
           /\ \/ UNCHANGED <<txs, session, matches>>
              \/ /\ session # None /\ rows[jobs[h].row] # None
                 /\ \A i \in Gone(jobs[h]) : txs[i] # None
                 /\ p \in Gone(jobs[h]) \/ txs[p] = None
                 /\ txs' = [i \in TxIds |-> IF i = p THEN Parent(rows[jobs[h].row], head, jobs[h].originals)
                                            ELSE IF i \in Gone(jobs[h]) THEN None ELSE txs[i]]
                 /\ session' = SessionWithout(Gone(jobs[h]))
<1> DEFINE r == jobs[h].row
           originals == jobs[h].originals
           gone == Gone(jobs[h])
           new == [row |-> r, tx |-> p, manual |-> TRUE]
<1>1. UNCHANGED <<sound, rows, printed, faults, edits>> /\ jobs[h].step = "merge" /\ Finish(h)
  BY DEF Merge, bounds
<1>2. \/ UNCHANGED <<txs, session, matches>>
      \/ /\ session # None /\ rows[r] # None
         /\ \A i \in gone : txs[i] # None
         /\ p \in gone \/ txs[p] = None
         /\ txs' = [i \in TxIds |-> IF i = p THEN Parent(rows[r], head, originals)
                                    ELSE IF i \in gone THEN None ELSE txs[i]]
         /\ matches' = MatchesWithout(gone) \cup {new}
         /\ session' = SessionWithout(gone)
  BY DEF Merge, FreeTx, Gone
<1>3. JobsOK'
  BY <1>1, FinishStep DEF ReconcileInv
<1>4. RowsOK' /\ BoundsOK' /\ Filled' = Filled
  BY <1>1 DEF ReconcileInv, RowsOK, BoundsOK, Filled
<1>5. CASE UNCHANGED <<txs, session, matches>>
  <2>1. BookOK' /\ SessionOK' /\ MatchesOK'
    BY <1>1, <1>5 DEF ReconcileInv, BookOK, SessionOK, MatchesOK, Live, Filled
  <2>. QED BY <1>1, <1>3, <1>4, <1>5, <2>1 DEF ReconcileInv
<1>6. CASE ~UNCHANGED <<txs, session, matches>>
  <2>1. r \in RowIds /\ originals \subseteq TxIds \X Tx /\ IsFiniteSet(originals) /\ rows[r] \in Lines
    <3>1. r \in RowIds /\ originals \subseteq TxIds \X Tx /\ IsFiniteSet(originals)
      BY <1>1 DEF ReconcileInv, JobsOK, JobOK
    <3>2. rows[r] \in Lines
      BY <1>2, <1>6, <3>1 DEF ReconcileInv, RowsOK
    <3>. QED BY <3>1, <3>2
  <2>2. Parent(rows[r], head, originals) \in Tx
    BY <2>1, ParentIs
  <2>3. BookOK' /\ p \in Live' /\ \A i \in Live \ gone : i \in Live'
    BY <1>1, <1>2, <1>6, <2>2, SignedType DEF ReconcileInv, BookOK, Live
  <2>4. MatchesOK'
    <3>1. new \in Match /\ new.tx \in Live' /\ new.row \in Filled'
      BY <1>2, <1>4, <1>6, <2>1, <2>3 DEF Match, Filled
    <3>2. ASSUME NEW m \in MatchesWithout(gone) PROVE m \in Match /\ m.tx \in Live' /\ m.row \in Filled'
      BY <1>4, <2>3 DEF MatchesWithout, ReconcileInv, MatchesOK
    <3>3. matches' = MatchesWithout(gone) \cup {new}
      BY <1>2, <1>6
    <3>. HIDE DEF new
    <3>. QED BY <3>1, <3>2, <3>3 DEF MatchesOK
  <2>5. SessionOK'
    BY <1>2, <1>6, GoneFrom DEF SessionOK, ReconcileInv
  <2>. QED BY <1>1, <1>2, <1>3, <1>4, <1>6, <2>3, <2>4, <2>5 DEF ReconcileInv
<1>. QED BY <1>5, <1>6

-----------------------------------------------------------------------------
(* What a step does to the job of a request: nothing, the end of it, or a   *)
(* read that takes down what it has found.                                  *)

Finds(h) ==
    \/ jobs'[h].step \in {"patch", "abandon"} /\ Drafted
    \/ /\ jobs'[h].step = "import" /\ Drafted
       /\ jobs'[h].fresh = [l \in Lines |-> Fresh(jobs'[h].file, l)]
    \/ jobs'[h].step \in {"match", "replace"}
    \/ /\ jobs'[h].step = "adjust" /\ Drafted
       /\ jobs'[h].sum = Residual(session) /\ jobs'[h].to = session.to
    \/ jobs'[h].step = "close" /\ Drafted /\ Residual(session) = 0
    \/ jobs[h].step = "close" /\ jobs'[h].step = "certify" /\ jobs'[h].pairs = matches /\ sound
    \/ /\ jobs'[h].step = "merge" /\ Drafted /\ jobs'[h].row \in Filled
       /\ \E ids \in SUBSET Live :
            /\ ids # {} /\ \A i \in ids : txs[i].type = "EXPENSE"
            /\ AmountSum(txs, ids) = rows[jobs'[h].row].amount
            /\ jobs'[h].originals = {<<i, txs[i]>> : i \in ids}

Advances(h) ==
    \/ jobs'[h] = jobs[h]
    \/ jobs'[h] = Idle
    \/ OnlyReads(h) /\ Finds(h)
    \/ jobs'[h].step = "link" /\ \E i \in TxIds : BookAdjustment(h, i)

LEMMA Finishes ==
    ASSUME JobsOK, NEW g \in Handlers, Finish(g)
    PROVE  \A h \in Handlers : Advances(h)
BY FinishStep DEF Advances, JobsOK

LEMMA OneReads ==
    ASSUME NEW g \in Handlers, OnlyReads(g), Finds(g) \/ jobs'[g] = Idle
    PROVE  \A h \in Handlers : Advances(h)
BY DEF Advances, OnlyReads

LEMMA NoneAdvances ==
    ASSUME UNCHANGED jobs
    PROVE  \A h \in Handlers : Advances(h)
BY DEF Advances

(* Every step keeps the invariant. *)
LEMMA InvStep ==
    ASSUME ReconcileInv, Next
    PROVE  ReconcileInv' /\ \A h \in Handlers : Advances(h)
<1>1. ASSUME NEW i \in TxIds, NEW t \in Expenses, Enter(i, t) PROVE ReconcileInv' /\ UNCHANGED jobs
  BY <1>1, EnterStep DEF Enter, Edit
<1>2. ASSUME NEW i \in TxIds, NEW t \in Expenses, Change(i, t.amount) PROVE ReconcileInv' /\ UNCHANGED jobs
  BY <1>2, ChangeStep DEF Change, Edit
<1>3. ASSUME NEW i \in TxIds, Strike(i) PROVE ReconcileInv' /\ UNCHANGED jobs
  BY <1>3, StrikeStep DEF Strike, Edit
<1>4. ASSUME Disturb PROVE ReconcileInv' /\ UNCHANGED jobs
  BY <1>4, DisturbStep DEF Disturb, Edit
<1>5. ASSUME NEW r \in RowIds, NEW i \in TxIds, PairByHand(r, i) PROVE ReconcileInv' /\ UNCHANGED jobs
  BY <1>5, PairStep DEF PairByHand
<1>6. ASSUME NEW m \in matches, Unpair(m) PROVE ReconcileInv' /\ UNCHANGED jobs
  BY <1>6, UnpairStep DEF Unpair
<1>7. ASSUME NEW h \in Handlers, NEW e \in Endings, NEW d \in Dates, Patch(h, e, d)
      PROVE  ReconcileInv' /\ \A g \in Handlers : Advances(g)
  <2>1. Finish(h)
    BY <1>7 DEF Patch
  <2>. QED BY <1>7, <2>1, PatchStep, Finishes DEF ReconcileInv
<1>8. ASSUME NEW h \in Handlers, NEW e \in Endings, NEW d \in Dates, Open(h, e, d)
      PROVE  ReconcileInv' /\ UNCHANGED jobs
  BY <1>8, OpenStep DEF Open
<1>9. ASSUME NEW h \in Handlers, NEW request \in {"patch", "abandon"}, CheckStatus(h, request)
      PROVE  ReconcileInv' /\ \A g \in Handlers : Advances(g)
  <2>1. ReconcileInv' /\ OnlyReads(h) /\ Finds(h)
    BY <1>9, CheckStatusStep DEF Finds
  <2>. QED BY <2>1, OneReads
<1>10. ASSUME NEW h \in Handlers, NEW file \in Files, ReadFile(h, file)
       PROVE  ReconcileInv' /\ \A g \in Handlers : Advances(g)
  <2>1. ReconcileInv' /\ OnlyReads(h) /\ Finds(h)
    BY <1>10, ReadFileStep, ZenonT(40) DEF Finds
  <2>. QED BY <2>1, OneReads
<1>11. ASSUME NEW h \in Handlers, NEW r \in RowIds, NEW ids \in SUBSET TxIds, ReadForMerge(h, r, ids)
       PROVE  ReconcileInv' /\ \A g \in Handlers : Advances(g)
  <2>1. ReconcileInv' /\ OnlyReads(h) /\ Finds(h)
    BY <1>11, ReadForMergeStep DEF Finds
  <2>. QED BY <2>1, OneReads
<1>12. ASSUME NEW h \in Handlers, NEW i \in TxIds, BookAdjustment(h, i)
       PROVE  ReconcileInv' /\ \A g \in Handlers : Advances(g)
  BY <1>12, BookAdjustmentStep DEF Advances
<1>13. ASSUME NEW h \in Handlers, NEW i \in TxIds, NEW head \in jobs[h].originals, Merge(h, head, i)
       PROVE  ReconcileInv' /\ \A g \in Handlers : Advances(g)
  <2>1. ReconcileInv'
    BY <1>13, MergeStep
  <2>2. Finish(h)
    BY <1>13 DEF Merge
  <2>. QED BY <2>1, <2>2, Finishes DEF ReconcileInv
<1>14. ASSUME NEW h \in Handlers, Abandon(h)
       PROVE  ReconcileInv' /\ \A g \in Handlers : Advances(g)
  <2>1. Finish(h)
    BY <1>14 DEF Abandon
  <2>. QED BY <1>14, <2>1, AbandonStep, Finishes DEF ReconcileInv
<1>15. ASSUME NEW h \in Handlers, Import(h)
       PROVE  ReconcileInv' /\ \A g \in Handlers : Advances(g)
  <2>1. Finish(h)
    BY <1>15 DEF Import
  <2>. QED BY <1>15, <2>1, ImportStep, Finishes DEF ReconcileInv
<1>16. ASSUME NEW h \in Handlers, RunMatcher(h)
       PROVE  ReconcileInv' /\ \A g \in Handlers : Advances(g)
  <2>1. ReconcileInv' /\ OnlyReads(h) /\ Finds(h)
    BY <1>16, RunMatcherStep DEF Finds
  <2>. QED BY <2>1, OneReads
<1>17. ASSUME NEW h \in Handlers, ReadManual(h)
       PROVE  ReconcileInv' /\ \A g \in Handlers : Advances(g)
  <2>1. ReconcileInv' /\ OnlyReads(h) /\ Finds(h)
    BY <1>17, ReadManualStep DEF Finds
  <2>. QED BY <2>1, OneReads
<1>18. ASSUME NEW h \in Handlers, Replace(h)
       PROVE  ReconcileInv' /\ \A g \in Handlers : Advances(g)
  <2>1. Finish(h)
    BY <1>18 DEF Replace
  <2>. QED BY <1>18, <2>1, ReplaceStep, Finishes DEF ReconcileInv
<1>19. ASSUME NEW h \in Handlers, ReadForAdjustment(h)
       PROVE  ReconcileInv' /\ \A g \in Handlers : Advances(g)
  <2>1. ReconcileInv' /\ OnlyReads(h) /\ Finds(h)
    BY <1>19, ReadForAdjustmentStep DEF Finds
  <2>. QED BY <2>1, OneReads
<1>20. ASSUME NEW h \in Handlers, Link(h)
       PROVE  ReconcileInv' /\ \A g \in Handlers : Advances(g)
  <2>1. Finish(h)
    BY <1>20 DEF Link
  <2>. QED BY <1>20, <2>1, LinkStep, Finishes DEF ReconcileInv
<1>21. ASSUME NEW h \in Handlers, ReadForClose(h)
       PROVE  ReconcileInv' /\ \A g \in Handlers : Advances(g)
  <2>1. ReconcileInv' /\ OnlyReads(h) /\ Finds(h)
    BY <1>21, ReadForCloseStep DEF Finds
  <2>. QED BY <2>1, OneReads
<1>22. ASSUME NEW h \in Handlers, CheckLedger(h)
       PROVE  ReconcileInv' /\ \A g \in Handlers : Advances(g)
  <2>1. ReconcileInv' /\ OnlyReads(h) /\ (Finds(h) \/ jobs'[h] = Idle)
    BY <1>22, CheckLedgerStep DEF Finds
  <2>. QED BY <2>1, OneReads
<1>23. ASSUME NEW h \in Handlers, Certify(h)
       PROVE  ReconcileInv' /\ \A g \in Handlers : Advances(g)
  <2>1. Finish(h)
    BY <1>23 DEF Certify
  <2>. QED BY <1>23, <2>1, CertifyStep, Finishes DEF ReconcileInv
<1>24. ASSUME NEW h \in Handlers, Die(h)
       PROVE  ReconcileInv' /\ \A g \in Handlers : Advances(g)
  <2>1. Finish(h)
    BY <1>24 DEF Die
  <2>. QED BY <1>24, <2>1, DieStep, Finishes DEF ReconcileInv
<1>. QED
  BY <1>1, <1>2, <1>3, <1>4, <1>5, <1>6, <1>7, <1>8, <1>9, <1>10, <1>11, <1>12, <1>13, <1>14, <1>15,
     <1>16, <1>17, <1>18, <1>19, <1>20, <1>21, <1>22, <1>23, <1>24, NoneAdvances DEF Next

LEMMA InvStays ==
    ASSUME ReconcileInv, UNCHANGED vars
    PROVE  ReconcileInv' /\ \A h \in Handlers : Advances(h)
BY NoneAdvances DEF vars, ReconcileInv, BookOK, SessionOK, RowsOK, MatchesOK, JobsOK, BoundsOK, Live, Filled

LEMMA InvInit == Init => ReconcileInv
<1>. SUFFICES ASSUME Init PROVE ReconcileInv
  OBVIOUS
<1>1. BookOK
  BY ExpensesAreRows DEF Init, BookOK
<1>2. SessionOK /\ RowsOK /\ MatchesOK
  BY DEF Init, SessionOK, RowsOK, MatchesOK, NoLines
<1>3. JobsOK
  BY IdleOK DEF Init, JobsOK
<1>4. BoundsOK
  BY ReconcileAssumption DEF Init, BoundsOK
<1>. QED BY <1>1, <1>2, <1>3, <1>4 DEF ReconcileInv

LEMMA InvAlways == Spec => []ReconcileInv
<1>1. ReconcileInv /\ [Next]_vars => ReconcileInv'
  BY InvStep, InvStays
<1>. QED BY <1>1, InvInit, PTL DEF Spec

(* The variables of a reconciliation keep their types, whatever overlaps.   *)
THEOREM ReconcileTypesAreKept == Spec => []TypeOK
BY InvAlways, InvGivesTypes, PTL

-----------------------------------------------------------------------------
(* Who acts: a route beside the requests, a request that begins, or one     *)
(* that goes on.                                                            *)

Beside ==
    \/ \E i \in TxIds : (\E t \in Expenses : Enter(i, t) \/ Change(i, t.amount)) \/ Strike(i)
    \/ Disturb
    \/ \E r \in RowIds, i \in TxIds : PairByHand(r, i)
    \/ \E m \in matches : Unpair(m)

Begins(h) ==
    \/ \E e \in Endings, d \in Dates : Open(h, e, d)
    \/ \E request \in {"patch", "abandon"} : CheckStatus(h, request)
    \/ \E file \in Files : ReadFile(h, file)
    \/ \E r \in RowIds, ids \in SUBSET TxIds : ReadForMerge(h, r, ids)
    \/ RunMatcher(h) \/ ReadForAdjustment(h) \/ ReadForClose(h)

Continues(h) ==
    \/ \E e \in Endings, d \in Dates : Patch(h, e, d)
    \/ \E i \in TxIds : BookAdjustment(h, i) \/ \E head \in jobs[h].originals : Merge(h, head, i)
    \/ Abandon(h) \/ Import(h) \/ ReadManual(h) \/ Replace(h) \/ Link(h) \/ CheckLedger(h) \/ Certify(h) \/ Die(h)

LEMMA WhoActs == Next <=> Beside \/ \E h \in Handlers : Begins(h) \/ Continues(h)
BY DEF Next, Beside, Begins, Continues

LEMMA BesideIsQuiet == Beside => Quiet /\ UNCHANGED <<jobs, rows, printed>>
BY DEF Beside, Enter, Change, Strike, Disturb, Edit, PairByHand, Unpair

LEMMA BeginsWhenQuiet ==
    ASSUME NEW h \in Handlers, Begins(h)
    PROVE  jobs[h] = Idle /\ Quiet /\ UNCHANGED <<txs, sound>>
BY DEF Begins, MayStart, Open, CheckStatus, ReadFile, ReadForMerge, RunMatcher, ReadForAdjustment, ReadForClose,
       ledger

(* Where a request stands says what it does next.                           *)
LEMMA ContinuesAt ==
    ASSUME NEW h \in Handlers, Continues(h)
    PROVE  /\ \E j : SetJob(h, j)
           /\ jobs[h].step = "patch" => \E e \in Endings, d \in Dates : Patch(h, e, d)
           /\ jobs[h].step = "abandon" => Abandon(h)
           /\ jobs[h].step = "import" => Import(h)
           /\ jobs[h].step = "match" => ReadManual(h)
           /\ jobs[h].step = "replace" => Replace(h)
           /\ jobs[h].step = "adjust" => \E i \in TxIds : BookAdjustment(h, i)
           /\ jobs[h].step = "link" => Link(h) \/ Die(h)
           /\ jobs[h].step = "close" => CheckLedger(h)
           /\ jobs[h].step = "certify" => Certify(h)
           /\ jobs[h].step = "merge" => \E p \in TxIds, head \in jobs[h].originals : Merge(h, head, p)
           /\ jobs[h].step # "idle"
BY DEF Continues, Patch, Abandon, Import, ReadManual, Replace, BookAdjustment, Link, Die, CheckLedger, Certify,
       Merge, Finish

(* A request that lets nothing happen between its steps is the only one to  *)
(* act until it is done: what it has read still holds when it writes.       *)
Alone(h) == jobs[h].step # "idle" /\ RequestOf(jobs[h].step) \notin Overlap

LEMMA OnlyTheLoneOne ==
    ASSUME NEW h \in Handlers, Alone(h), Next
    PROVE  Continues(h)
<1>1. h \in Active /\ ~Quiet /\ jobs[h] # Idle
  BY DEF Alone, Active, Quiet, Idle
<1>2. ~Beside
  BY <1>1, BesideIsQuiet
<1>3. \A g \in Handlers : ~Begins(g)
  BY <1>1, BeginsWhenQuiet
<1>4. ASSUME NEW g \in Handlers, NEW j, SetJob(g, j) PROVE g = h
  BY <1>1, <1>4 DEF SetJob, Alone
<1>5. PICK g \in Handlers : Continues(g)
  BY <1>2, <1>3, WhoActs
<1>. QED BY <1>4, <1>5, ContinuesAt

(* It moves on: what it does next is another step, or none.                 *)
LEMMA TheLoneOneMovesOn ==
    ASSUME ReconcileInv, NEW h \in Handlers, Alone(h), Next
    PROVE  jobs'[h] # jobs[h]
<1>1. Continues(h) /\ jobs[h] # Idle
  BY OnlyTheLoneOne DEF Alone, Idle
<1>2. JobsOK /\ jobs[h].step \in Steps
  BY DEF ReconcileInv, JobsOK, Job
<1>3. ASSUME Finish(h) PROVE jobs'[h] # jobs[h]
  BY <1>1, <1>2, <1>3, FinishStep DEF JobsOK
<1>4. CASE jobs[h].step \in {"patch", "abandon", "import", "replace", "link", "certify", "merge"}
  BY <1>1, <1>3, <1>4, ContinuesAt DEF Patch, Abandon, Import, Replace, Link, Die, Certify, Merge
<1>5. CASE jobs[h].step = "match"
  BY <1>1, <1>5, ContinuesAt, ReadManualStep
<1>6. CASE jobs[h].step = "adjust"
  BY <1>1, <1>6, ContinuesAt, BookAdjustmentStep
<1>7. CASE jobs[h].step = "close"
  BY <1>1, <1>7, ContinuesAt, CheckLedgerStep
<1>. QED BY <1>1, <1>2, <1>4, <1>5, <1>6, <1>7, ContinuesAt DEF Steps

(* What happens to the job of a request that lets nothing happen between    *)
(* its steps.                                                               *)
LEMMA LoneAdvance ==
    ASSUME ReconcileInv, [Next]_vars, NEW h \in Handlers, Alone(h)'
    PROVE  \/ UNCHANGED vars
           \/ OnlyReads(h) /\ Finds(h)
           \/ jobs'[h].step = "link" /\ \E i \in TxIds : BookAdjustment(h, i)
<1>. SUFFICES ASSUME Next PROVE (OnlyReads(h) /\ Finds(h)) \/ (jobs'[h].step = "link" /\ \E i \in TxIds : BookAdjustment(h, i))
  OBVIOUS
<1>1. Advances(h)
  BY InvStep
<1>2. jobs'[h] # Idle
  BY DEF Alone, Idle
<1>3. jobs'[h] # jobs[h]
  BY TheLoneOneMovesOn DEF Alone, RequestOf
<1>. QED BY <1>1, <1>2, <1>3 DEF Advances

-----------------------------------------------------------------------------
(* What a person paired by hand.                                            *)

(* The replacement of the automatic matches leaves what is paired by hand   *)
(* as it is then.                                                           *)
LEMMA ReplaceKeepsManual ==
    ASSUME ReconcileInv, NEW h \in Handlers, Replace(h), matches' # matches
    PROVE  /\ Claimed' = Claimed
           /\ Claimed \subseteq jobs[h].manual =>
                \A m \in Claimed', a \in matches' \ Claimed' : a.row # m.row /\ a.tx # m.tx
<1> DEFINE new == {p \in jobs[h].pairs : [p EXCEPT !.manual = TRUE] \notin Claimed}
<1>1. /\ \A p \in jobs[h].pairs : ~p.manual
      /\ \A p \in jobs[h].pairs, m \in jobs[h].manual : m.row # p.row /\ m.tx # p.tx
  BY DEF Replace, ReconcileInv, JobsOK, JobOK
<1>2. matches' = Claimed \cup new
  BY ReplaceStep
<1>3. new \subseteq jobs[h].pairs
  OBVIOUS
<1>. HIDE DEF new
<1>4. Claimed' = Claimed
  BY <1>1, <1>2, <1>3 DEF Claimed
<1>. QED BY <1>1, <1>2, <1>3, <1>4

(* Nothing but its own replacement ends a job that is at "replace".         *)
LEMMA OnlyReplaceEnds ==
    ASSUME ReconcileInv, NEW h \in Handlers, Next, jobs[h].step = "replace", jobs'[h] = Idle
    PROVE  Replace(h)
<1>1. jobs'[h] # jobs[h] /\ jobs[h] # Idle
  BY DEF Idle
<1>2. ASSUME NEW g \in Handlers, NEW j, SetJob(g, j) PROVE g = h
  BY <1>1, <1>2 DEF SetJob, ReconcileInv, JobsOK
<1>3. ~Beside
  BY <1>1, BesideIsQuiet
<1>4. ASSUME NEW g \in Handlers, Begins(g) PROVE FALSE
  <2>1. UNCHANGED jobs \/ \E j : SetJob(g, j)
    BY <1>4 DEF Begins, Open, CheckStatus, ReadFile, ReadForMerge, RunMatcher, ReadForAdjustment, ReadForClose
  <2>2. jobs[g] = Idle
    BY <1>4, BeginsWhenQuiet
  <2>. QED BY <1>1, <1>2, <2>1, <2>2
<1>5. PICK g \in Handlers : Continues(g)
  BY <1>3, <1>4, WhoActs
<1>6. Continues(h)
  BY <1>2, <1>5, ContinuesAt
<1>. QED BY <1>6, ContinuesAt

(* Whatever overlaps with an automatic pass, and however often: the pass    *)
(* leaves the pairs made by hand as they are when it writes, and gives      *)
(* nothing that was claimed when it read them a second partner.             *)
THEOREM PassKeepsManual == Spec => ManualIsKept
<1> DEFINE Keeps(h) ==
             /\ Claimed' = Claimed
             /\ Claimed \subseteq jobs[h].manual =>
                  \A m \in Claimed', a \in matches' \ Claimed' : a.row # m.row /\ a.tx # m.tx
           Replaces(h) == jobs[h].step = "replace" /\ matches' # matches /\ jobs'[h] = Idle
<1>1. ReconcileInv /\ [Next]_vars => [\A h \in Handlers : Replaces(h) => Keeps(h)]_vars
  <2>. SUFFICES ASSUME ReconcileInv, Next, NEW h \in Handlers, Replaces(h) PROVE Keeps(h)
    OBVIOUS
  <2>1. Replace(h)
    BY OnlyReplaceEnds
  <2>. QED BY <2>1, ReplaceKeepsManual
<1>2. Spec => [][\A h \in Handlers : Replaces(h) => Keeps(h)]_vars
  <2>. HIDE DEF Keeps, Replaces
  <2>. QED BY <1>1, InvAlways, PTL DEF Spec
<1>. QED BY <1>2 DEF ManualIsKept

-----------------------------------------------------------------------------
(* Who writes what. *)

LEMMA SessionWriters ==
    ASSUME ReconcileInv, Next
    PROVE  \/ session' = session
           \/ \E gone : session' = SessionWithout(gone)
           \/ session = None
           \/ \E h \in Handlers : \/ \E e \in Endings, d \in Dates : Patch(h, e, d)
                                  \/ Abandon(h) \/ Link(h) \/ Certify(h)
<1>1. CASE Beside
  BY <1>1 DEF Beside, Enter, Change, Strike, Disturb, PairByHand, Unpair
<1>2. ASSUME NEW h \in Handlers, Begins(h) PROVE session' = session \/ session = None
  BY <1>2 DEF Begins, Open, CheckStatus, ReadFile, ReadForMerge, RunMatcher, ReadForAdjustment, ReadForClose,
              scaffold
<1>3. ASSUME NEW h \in Handlers, NEW p \in TxIds, NEW head \in jobs[h].originals, Merge(h, head, p)
      PROVE  session' = session \/ \E gone : session' = SessionWithout(gone)
  BY <1>3, MergeStep
<1>4. ASSUME NEW h \in Handlers, Continues(h)
      PROVE  \/ session' = session
             \/ \E gone : session' = SessionWithout(gone)
             \/ \E e \in Endings, d \in Dates : Patch(h, e, d)
             \/ Abandon(h) \/ Link(h) \/ Certify(h)
  <2>1. ASSUME Import(h) \/ ReadManual(h) \/ Replace(h) \/ CheckLedger(h) \/ Die(h) PROVE session' = session
    BY <2>1 DEF Import, ReadManual, Replace, CheckLedger, Die, scaffold
  <2>2. ASSUME NEW i \in TxIds, BookAdjustment(h, i) PROVE session' = session
    BY <2>2 DEF BookAdjustment, scaffold
  <2>. QED BY <1>3, <1>4, <2>1, <2>2 DEF Continues
<1>. QED BY <1>1, <1>2, <1>4, WhoActs

LEMMA RowWriters ==
    ASSUME Next
    PROVE  \/ UNCHANGED <<rows, printed>>
           \/ \E h \in Handlers : \/ \E e \in Endings, d \in Dates : Open(h, e, d)
                                  \/ Abandon(h) \/ Import(h)
<1>1. CASE Beside
  BY <1>1, BesideIsQuiet
<1>2. ASSUME NEW h \in Handlers, Begins(h)
      PROVE  UNCHANGED <<rows, printed>> \/ \E e \in Endings, d \in Dates : Open(h, e, d)
  BY <1>2 DEF Begins, CheckStatus, ReadFile, ReadForMerge, RunMatcher, ReadForAdjustment, ReadForClose, scaffold
<1>3. ASSUME NEW h \in Handlers, Continues(h)
      PROVE  UNCHANGED <<rows, printed>> \/ Abandon(h) \/ Import(h)
  BY <1>3 DEF Continues, Patch, BookAdjustment, Merge, ReadManual, Replace, Link, CheckLedger, Certify, Die, scaffold
<1>. QED BY <1>1, <1>2, <1>3, WhoActs

-----------------------------------------------------------------------------
(* The evidence of a reconciliation. *)

StatusHolds == \A h \in Handlers : jobs[h].step \in {"patch", "import", "abandon"} => Drafted

LEMMA StatusStep ==
    ASSUME {"patch", "import", "abandon"} \cap Overlap = {}, ReconcileInv, StatusHolds, [Next]_vars
    PROVE  StatusHolds'
<1>. SUFFICES ASSUME NEW h \in Handlers, jobs'[h].step \in {"patch", "import", "abandon"} PROVE Drafted'
  BY DEF StatusHolds
<1>1. Alone(h)'
  BY DEF Alone, RequestOf
<1>2. CASE UNCHANGED vars
  BY <1>2 DEF StatusHolds, Drafted, vars
<1>3. CASE OnlyReads(h) /\ Finds(h)
  BY <1>3 DEF OnlyReads, Finds, Drafted
<1>. QED BY <1>1, <1>2, <1>3, LoneAdvance

(* As long as nothing comes between the check of the status and the write   *)
(* of a patch, an import and an abandon, whatever else overlaps: what was   *)
(* reconciled keeps its rows, its period and its ending, and is never       *)
(* abandoned.                                                               *)
THEOREM ClosedSessionKeepsItsEvidence ==
    ASSUME {"patch", "import", "abandon"} \cap Overlap = {}
    PROVE  Spec => EvidenceIsKept
<1> DEFINE Closed == session # None /\ session.status = "RECONCILED"
           Kept == /\ session' # None /\ rows' = rows
                   /\ [session' EXCEPT !.adjustment = None] = [session EXCEPT !.adjustment = None]
<1>1. Init => StatusHolds
  BY DEF Init, StatusHolds, Idle
<1>2. ReconcileInv /\ StatusHolds /\ [Next]_vars => StatusHolds'
  BY StatusStep
<1>3. ReconcileInv /\ StatusHolds /\ [Next]_vars => [Closed => Kept]_vars
  <2>. SUFFICES ASSUME ReconcileInv, StatusHolds, Next, Closed PROVE Kept
    OBVIOUS
  <2>1. session \in Session /\ SessionOK
    BY DEF ReconcileInv, SessionOK
  <2>2. \A h \in Handlers : jobs[h].step \notin {"patch", "import", "abandon"}
    BY DEF StatusHolds, Drafted
  <2>3. rows' = rows
    BY <2>2, RowWriters DEF Abandon, Import, Open
  <2>4. ASSUME session' \in Session, session'.status = session.status, session'.ending = session.ending,
               session'.to = session.to
        PROVE  [session' EXCEPT !.adjustment = None] = [session EXCEPT !.adjustment = None]
    BY <2>1, <2>4 DEF Session
  <2>5. ASSUME NEW gone, session' = SessionWithout(gone) PROVE Kept
    BY <2>1, <2>3, <2>4, <2>5, GoneFrom, NoneIsNoRow
  <2>6. ASSUME NEW h \in Handlers, Link(h) PROVE Kept
    <3>1. session' = session \/ \E i \in TxIds : session' = [session EXCEPT !.adjustment = i]
      BY <2>6, LinkStep
    <3>. QED BY <2>1, <2>3, <2>4, <3>1, NoneIsNoRow DEF Session
  <2>7. session' = session => Kept
    BY <2>3
  <2>8. ASSUME NEW h \in Handlers, Certify(h) PROVE Kept
    <3>1. session' = [session EXCEPT !.status = "RECONCILED"]
      BY <2>8, CertifyStep
    <3>2. session' = session
      BY <2>1, <3>1 DEF Session
    <3>. HIDE DEF Kept
    <3>. QED BY <2>7, <3>2
  <2>9. \A h \in Handlers : ~Abandon(h) /\ \A e \in Endings, d \in Dates : ~Patch(h, e, d)
    BY <2>2 DEF Patch, Abandon
  <2>10. session # None
    OBVIOUS
  <2>. HIDE DEF Kept, Closed
  <2>. QED BY <2>5, <2>6, <2>7, <2>8, <2>9, <2>10, SessionWriters
<1>4. Spec => [][Closed => Kept]_vars
  <2>. HIDE DEF Closed, Kept
  <2>. QED BY <1>1, <1>2, <1>3, InvAlways, PTL DEF Spec
<1>. QED BY <1>4 DEF EvidenceIsKept

-----------------------------------------------------------------------------
(* Closing. *)

CloseHolds ==
    \A h \in Handlers :
        /\ jobs[h].step \in {"close", "certify"} => Drafted /\ Residual(session) = 0
        /\ jobs[h].step = "certify" => sound /\ jobs[h].pairs = matches

LEMMA ThroughNow ==
    ASSUME NEW d
    PROVE  Through(d) = SignedSum(txs, {i \in TxIds : txs[i] # None /\ txs[i].date <= d})
<1> DEFINE S == {i \in Live : txs[i].date <= d}
<1>1. S = {i \in TxIds : txs[i] # None /\ txs[i].date <= d}
  BY DEF Live
<1>2. Through(d) = SignedSum(txs, S)
  BY DEF Through, SignedSum
<1>. HIDE DEF S
<1>. QED BY <1>1, <1>2

LEMMA ThroughNext ==
    ASSUME NEW d
    PROVE  Through(d)' = SignedSum(txs', {i \in TxIds : txs'[i] # None /\ txs'[i].date <= d})
<1> DEFINE S == {i \in Live' : txs'[i].date <= d}
<1>1. S = {i \in TxIds : txs'[i] # None /\ txs'[i].date <= d}
  BY DEF Live
<1>2. Through(d)' = SignedSum(txs', S)
  BY DEF Through, SignedSum, MapThenSumSet, MapThenFoldSet
<1>. HIDE DEF S
<1>. QED BY <1>1, <1>2

LEMMA SameResidual ==
    ASSUME UNCHANGED <<txs, session>>
    PROVE  Residual(session)' = Residual(session) /\ (Drafted' <=> Drafted)
<1>1. ASSUME NEW d PROVE Through(d)' = Through(d)
  <2>1. Through(d)' = SignedSum(txs', {i \in TxIds : txs'[i] # None /\ txs'[i].date <= d})
    BY ThroughNext
  <2>2. Through(d) = SignedSum(txs, {i \in TxIds : txs[i] # None /\ txs[i].date <= d})
    BY ThroughNow
  <2>. QED BY <2>1, <2>2
<1>. QED BY <1>1 DEF Residual, Drafted

LEMMA CloseStep ==
    ASSUME "close" \notin Overlap, ReconcileInv, CloseHolds, [Next]_vars
    PROVE  CloseHolds'
<1>. SUFFICES ASSUME NEW h \in Handlers, jobs'[h].step \in {"close", "certify"}
              PROVE  /\ Drafted' /\ Residual(session)' = 0
                     /\ jobs'[h].step = "certify" => sound' /\ jobs'[h].pairs = matches'
  BY DEF CloseHolds
<1>1. Alone(h)'
  BY DEF Alone, RequestOf
<1>2. CASE UNCHANGED vars
  BY <1>2, SameResidual DEF CloseHolds, vars
<1>3. CASE OnlyReads(h) /\ Finds(h)
  BY <1>3, SameResidual DEF OnlyReads, Finds, CloseHolds
<1>. QED BY <1>1, <1>2, <1>3, LoneAdvance

(* As long as nothing comes between the reads of a close and its write,     *)
(* whatever else overlaps: a session is closed at residual zero, on a       *)
(* ledger that adds up, and what is matched is stamped.                     *)
THEOREM ClosedAtZero ==
    ASSUME "close" \notin Overlap
    PROVE  Spec => CertifiedAtZero
<1> DEFINE Zero == /\ Residual(session) = 0 /\ sound
                   /\ \A m \in matches : txs'[m.tx].stamped
<1>1. Init => CloseHolds
  BY DEF Init, CloseHolds, Idle
<1>2. ReconcileInv /\ CloseHolds /\ [Next]_vars => CloseHolds'
  BY CloseStep
<1>3. ReconcileInv /\ CloseHolds /\ [Next]_vars => [Closes => Zero]_vars
  <2>. SUFFICES ASSUME ReconcileInv, CloseHolds, Next, Closes PROVE Zero
    OBVIOUS
  <2>1. /\ session \in Session /\ session.status = "DRAFT" /\ session # None
        /\ session' # None /\ session'.status = "RECONCILED"
    BY DEF Closes, Drafted, ReconcileInv, SessionOK
  <2>2. \A gone : session' # SessionWithout(gone)
    BY <2>1, GoneFrom DEF ReconcileInv
  <2>3. ASSUME NEW h \in Handlers, NEW e \in Endings, NEW d \in Dates, Patch(h, e, d) \/ Abandon(h) PROVE FALSE
    BY <2>1, <2>3 DEF Patch, Abandon, Session
  <2>4. ASSUME NEW h \in Handlers, Abandon(h) PROVE FALSE
    BY <2>1, <2>4 DEF Abandon
  <2>5. ASSUME NEW h \in Handlers, Link(h) PROVE FALSE
    BY <2>1, <2>5, LinkStep DEF Session
  <2>6. PICK h \in Handlers : Certify(h)
    BY <2>1, <2>2, <2>3, <2>4, <2>5, SessionWriters
  <2>7. jobs[h].step = "certify"
    BY <2>6, CertifyStep
  <2>8. Residual(session) = 0 /\ sound /\ jobs[h].pairs = matches
    BY <2>7 DEF CloseHolds
  <2>9. ASSUME NEW m \in matches PROVE txs'[m.tx].stamped
    <3>1. m.tx \in Live /\ m.tx \in TxIds /\ txs[m.tx] \in Tx
      BY DEF ReconcileInv, MatchesOK, Live, BookOK
    <3>2. txs'[m.tx] = [txs[m.tx] EXCEPT !.stamped = TRUE]
      BY <2>1, <2>6, <2>8, <3>1, CertifyStep
    <3>. QED BY <3>1, <3>2 DEF Tx
  <2>. QED BY <2>8, <2>9
<1>4. Spec => [][Closes => Zero]_vars
  <2>. HIDE DEF Zero
  <2>. QED BY <1>1, <1>2, <1>3, InvAlways, PTL DEF Spec
<1>. QED BY <1>4 DEF CertifiedAtZero

-----------------------------------------------------------------------------
(* The adjustment. *)

AdjustHolds ==
    \A h \in Handlers :
        /\ jobs[h].step = "adjust" =>
              Drafted /\ jobs[h].sum = Residual(session) /\ jobs[h].to = session.to
        /\ jobs[h].step = "link" => session # None /\ Residual(session) = 0

(* The residual, booked on the last day of the period, is gone.             *)
LEMMA BookingBalances ==
    ASSUME ReconcileInv, NEW h \in Handlers, NEW i \in TxIds, BookAdjustment(h, i),
           session # None, jobs[h].sum = Residual(session), jobs[h].to = session.to
    PROVE  Residual(session)' = 0
<1> DEFINE to == session.to
           r == jobs[h].sum
           S == {k \in Live : txs[k].date <= to}
<1>1. /\ session' = session /\ session \in Session /\ r \in Int /\ r # 0
      /\ txs[i] = None /\ txs' = [txs EXCEPT ![i] = Booked(r, to)] /\ BookOK /\ BookOK' /\ to \in Dates
  BY BookAdjustmentStep DEF ReconcileInv, SessionOK, Session, JobsOK, Job
<1>2. Booked(r, to) \in Tx /\ Signed(Booked(r, to)) = r /\ Booked(r, to).date = to
  BY <1>1, BookedIs
<1>3. txs'[i] = Booked(r, to) /\ txs'[i] # None /\ \A k \in TxIds \ {i} : txs'[k] = txs[k]
  BY <1>1, <1>2, SignedType DEF BookOK
<1>4. to <= to
  BY <1>1, ReconcileAssumption
<1>5. {k \in TxIds : txs'[k] # None /\ txs'[k].date <= to} = S \cup {i} /\ i \notin S
  BY <1>1, <1>2, <1>3, <1>4 DEF Live
<1>6. session.ending - Through(to)' = Residual(session)'
      /\ Through(to)' = SumOf(SignedOf(txs', S \cup {i}), S \cup {i})
  <2> DEFINE N == {k \in TxIds : txs'[k] # None /\ txs'[k].date <= to}
  <2>1. Through(session.to)' = SignedSum(txs', {k \in TxIds : txs'[k] # None /\ txs'[k].date <= session'.to})
    BY ThroughNext
  <2>2. Through(session.to)' = SignedSum(txs', N)
    BY <1>1, <2>1
  <2>. HIDE DEF S, N
  <2>3. N = S \cup {i}
    BY <1>5 DEF N
  <2>4. Through(to)' = SumOf(SignedOf(txs', S \cup {i}), S \cup {i})
    BY <2>2, <2>3, SignedSumIsSum
  <2>. QED BY <1>1, <2>4 DEF Residual
<1>7. Through(to) = SumOf(SignedOf(txs, S), S)
  BY <1>1, ThroughIs
<1>8. IsFiniteSet(S) /\ S \subseteq Live /\ \A k \in S : Signed(txs[k]) \in Int /\ txs'[k] = txs[k]
  BY <1>1, <1>3, FinitelyMany, SignedType DEF Live, BookOK
<1>. HIDE DEF S
<1> DEFINE f == SignedOf(txs', S \cup {i})
<1>9. SumOf(f, S \cup {i}) = f[i] + SumOf(f, S)
  <2>1. \A k \in S \cup {i} : f[k] \in Int
    BY <1>1, <1>2, <1>3, <1>8 DEF SignedOf
  <2>. HIDE DEF f
  <2>. QED BY <1>5, <1>8, <2>1, SumAdd
<1>10. f[i] = r
  BY <1>2, <1>3 DEF SignedOf
<1>11. SumOf(f, S) = SumOf(SignedOf(txs, S), S)
  <2>1. \A k \in S : f[k] = SignedOf(txs, S)[k]
    BY <1>8 DEF SignedOf
  <2>. HIDE DEF f
  <2>. QED BY <2>1, SumFrame
<1>. HIDE DEF f
<1>12. Through(to)' = r + Through(to) /\ Through(to) \in Int
  BY <1>1, <1>6, <1>7, <1>9, <1>10, <1>11, ThroughIs DEF f
<1>13. r = session.ending - Through(to) /\ session.ending \in Int
  BY <1>1 DEF Residual, Session
<1>. QED BY <1>6, <1>12, <1>13

LEMMA AdjustStep ==
    ASSUME "adjust" \notin Overlap, ReconcileInv, AdjustHolds, [Next]_vars
    PROVE  AdjustHolds'
<1>. SUFFICES ASSUME NEW h \in Handlers, jobs'[h].step \in {"adjust", "link"}
              PROVE  /\ jobs'[h].step = "adjust" =>
                          Drafted' /\ jobs'[h].sum = Residual(session)' /\ jobs'[h].to = session'.to
                     /\ jobs'[h].step = "link" => session' # None /\ Residual(session)' = 0
  BY DEF AdjustHolds
<1>1. Alone(h)'
  BY DEF Alone, RequestOf
<1>2. CASE UNCHANGED vars
  BY <1>2, SameResidual DEF AdjustHolds, vars
<1>3. CASE OnlyReads(h) /\ Finds(h)
  BY <1>3, SameResidual DEF OnlyReads, Finds
<1>4. ASSUME jobs'[h].step = "link", NEW i \in TxIds, BookAdjustment(h, i)
      PROVE  session' # None /\ Residual(session)' = 0
  <2>1. jobs[h].step = "adjust" /\ session' = session
    BY <1>4, BookAdjustmentStep
  <2>2. session # None /\ jobs[h].sum = Residual(session) /\ jobs[h].to = session.to
    BY <2>1 DEF AdjustHolds, Drafted
  <2>. QED BY <1>4, <2>1, <2>2, BookingBalances
<1>. QED BY <1>1, <1>2, <1>3, <1>4, LoneAdvance

(* As long as nothing comes between the reads of an adjustment and its      *)
(* writes, whatever else overlaps and whether or not it dies between the    *)
(* two writes: a session that is tied to an adjustment has no residual left.*)
THEOREM AdjustmentLeavesNothing ==
    ASSUME "adjust" \notin Overlap
    PROVE  Spec => AdjustmentBalances
<1> DEFINE Ties(h) == jobs[h].step = "link" /\ session'.adjustment # session.adjustment
<1>1. Init => AdjustHolds
  BY DEF Init, AdjustHolds, Idle
<1>2. ReconcileInv /\ AdjustHolds /\ [Next]_vars => AdjustHolds'
  BY AdjustStep
<1>3. ReconcileInv /\ AdjustHolds /\ [Next]_vars => [\A h \in Handlers : Ties(h) => Residual(session') = 0]_vars
  <2>. SUFFICES ASSUME ReconcileInv, AdjustHolds, Next, NEW h \in Handlers, Ties(h) PROVE Residual(session') = 0
    OBVIOUS
  <2>1. Alone(h)
    BY DEF Alone, RequestOf
  <2>2. Link(h) \/ Die(h)
    BY <2>1, OnlyTheLoneOne, ContinuesAt
  <2>3. Link(h)
    BY <2>2, DieStep DEF scaffold
  <2>4. session # None /\ \E i \in TxIds : session' = [session EXCEPT !.adjustment = i]
    BY <2>3, LinkStep
  <2>5. session \in Session /\ session'.ending = session.ending /\ session'.to = session.to
    BY <2>4 DEF ReconcileInv, SessionOK, Session
  <2>6. Residual(session) = 0
    BY DEF AdjustHolds
  <2>. QED BY <2>5, <2>6 DEF Residual
<1>4. Spec => [][\A h \in Handlers : Ties(h) => Residual(session') = 0]_vars
  <2>. HIDE DEF Ties
  <2>. QED BY <1>1, <1>2, <1>3, InvAlways, PTL DEF Spec
<1>. QED BY <1>4 DEF AdjustmentBalances

-----------------------------------------------------------------------------
(* The import. *)

(* How often a session has a line.                                          *)
CountIn(stored, l) == Cardinality({r \in RowIds : stored[r] = l})

LEMMA CountIs ==
    ASSUME NEW l \in Lines
    PROVE  Count(l) = CountIn(rows, l) /\ Count(l)' = CountIn(rows', l)
<1>1. l # None
  BY NoneIsNoRow
<1>2. {r \in Filled : rows[r] = l} = {r \in RowIds : rows[r] = l}
  BY <1>1 DEF Filled
<1>3. {r \in Filled' : rows'[r] = l} = {r \in RowIds : rows'[r] = l}
  BY <1>1 DEF Filled
<1>. QED BY <1>2, <1>3 DEF Count, CountIn

LEMMA NoRowsNoLines ==
    ASSUME rows' = [r \in RowIds |-> None], NEW l \in Lines
    PROVE  Count(l)' = 0
<1>1. {r \in RowIds : rows'[r] = l} = {}
  BY NoneIsNoRow
<1>. QED BY <1>1, CountIs, FS_EmptySet DEF CountIn

(* What a file still adds to them.                                          *)
FreshIn(stored, file, l) == IF file[l] > CountIn(stored, l) THEN file[l] - CountIn(stored, l) ELSE 0

ImportHolds ==
    \A h \in Handlers : jobs[h].step = "import" =>
        Drafted /\ \A l \in Lines : jobs[h].fresh[l] = FreshIn(rows, jobs[h].file, l)

LEMMA ImportHoldsStep ==
    ASSUME "import" \notin Overlap, ReconcileInv, ImportHolds, [Next]_vars
    PROVE  ImportHolds'
<1>. SUFFICES ASSUME NEW h \in Handlers, jobs'[h].step = "import"
              PROVE  Drafted' /\ \A l \in Lines : jobs'[h].fresh[l] = FreshIn(rows', jobs'[h].file, l)
  BY DEF ImportHolds
<1>1. Alone(h)'
  BY DEF Alone, RequestOf
<1>2. CASE UNCHANGED vars
  BY <1>2 DEF ImportHolds, Drafted, vars
<1>3. CASE OnlyReads(h) /\ Finds(h)
  <2>1. UNCHANGED <<session, rows>> /\ Drafted /\ jobs'[h].fresh = [l \in Lines |-> Fresh(jobs'[h].file, l)]
    BY <1>3 DEF OnlyReads, Finds
  <2>2. \A l \in Lines : jobs'[h].fresh[l] = FreshIn(rows, jobs'[h].file, l)
    BY <2>1, CountIs DEF Fresh, FreshIn
  <2>. QED BY <2>1, <2>2 DEF Drafted
<1>. QED BY <1>1, <1>2, <1>3, LoneAdvance

LEMMA StoredStep ==
    ASSUME "import" \notin Overlap, ReconcileInv, ImportHolds, StoredAsPrinted, [Next]_vars
    PROVE  StoredAsPrinted'
<1>. SUFFICES ASSUME session' # None, NEW l \in Lines PROVE Count(l)' = printed'[l]
  BY DEF StoredAsPrinted
<1>1. ASSUME UNCHANGED <<rows, printed>>, session # None PROVE Count(l)' = printed'[l]
  BY <1>1, CountIs DEF StoredAsPrinted
<1>2. CASE UNCHANGED vars
  BY <1>1, <1>2 DEF vars
<1>3. ASSUME NEW h \in Handlers, NEW e \in Endings, NEW d \in Dates, Open(h, e, d) PROVE Count(l)' = printed'[l]
  BY <1>3, NoRowsNoLines DEF Open, NoLines
<1>4. ASSUME NEW h \in Handlers, Import(h) PROVE Count(l)' = printed'[l]
  <2>1. /\ jobs[h].step = "import" /\ session # None
        /\ jobs[h].fresh[l] = FreshIn(rows, jobs[h].file, l)
    BY <1>4 DEF Import, ImportHolds, Drafted
  <2>2. Count(l)' = Count(l) + jobs[h].fresh[l]
    BY <1>4, <2>1, CountIs DEF Import, CountIn
  <2>3. printed'[l] = Max({printed[l], jobs[h].file[l]})
    BY <1>4, <2>1 DEF Import
  <2>4. printed[l] \in Nat /\ jobs[h].file[l] \in Nat /\ Count(l) = printed[l]
    BY <2>1 DEF ReconcileInv, RowsOK, JobsOK, Job, StoredAsPrinted
  <2>. QED BY <2>1, <2>2, <2>3, <2>4, CountIs, LargerOf DEF FreshIn
<1>5. ASSUME NEW h \in Handlers, Abandon(h) PROVE FALSE
  BY <1>5 DEF Abandon
<1>6. ASSUME session = None, Next PROVE \E h \in Handlers, e \in Endings, d \in Dates : Open(h, e, d)
  <2>1. \A gone : SessionWithout(gone) = None
    BY <1>6 DEF SessionWithout
  <2>2. ASSUME Beside PROVE FALSE
    BY <1>6, <2>1, <2>2 DEF Beside, Enter, Change, Strike, Disturb, PairByHand, Unpair
  <2>3. ASSUME NEW h \in Handlers, Begins(h) PROVE \E e \in Endings, d \in Dates : Open(h, e, d)
    BY <1>6, <2>3 DEF Begins, CheckStatus, ReadFile, ReadForMerge, RunMatcher, ReadForAdjustment, ReadForClose,
                      scaffold
  <2>4. ASSUME NEW h \in Handlers, NEW p \in TxIds, NEW head \in jobs[h].originals, Merge(h, head, p) PROVE FALSE
    BY <1>6, <2>4, MergeStep
  <2>5. ASSUME NEW h \in Handlers, Continues(h) PROVE FALSE
    <3>1. ASSUME NEW i \in TxIds, BookAdjustment(h, i) PROVE FALSE
      BY <1>6, <3>1 DEF BookAdjustment, scaffold
    <3>2. ASSUME Link(h) PROVE FALSE
      BY <1>6, <3>2, LinkStep
    <3>3. ASSUME Certify(h) PROVE FALSE
      BY <1>6, <3>3, CertifyStep
    <3>4. ASSUME NEW e \in Endings, NEW d \in Dates, Patch(h, e, d) PROVE FALSE
      BY <1>6, <3>4 DEF Patch
    <3>5. ASSUME Import(h) \/ ReadManual(h) \/ Replace(h) \/ CheckLedger(h) \/ Die(h) PROVE FALSE
      BY <1>6, <3>5 DEF Import, ReadManual, Replace, CheckLedger, Die, scaffold
    <3>. QED BY <1>5, <2>4, <2>5, <3>1, <3>2, <3>3, <3>4, <3>5 DEF Continues
  <2>. QED BY <1>6, <2>2, <2>3, <2>5, WhoActs
<1>. QED BY <1>1, <1>2, <1>3, <1>4, <1>5, <1>6, RowWriters

(* As long as nothing comes between the read of an import and its write,    *)
(* whatever else overlaps: a session holds each line exactly as often as    *)
(* the file that prints it most, however often and in whatever order files  *)
(* are imported.                                                            *)
THEOREM LinesAreStoredAsPrinted ==
    ASSUME "import" \notin Overlap
    PROVE  Spec => []StoredAsPrinted
<1>1. Init => ImportHolds /\ StoredAsPrinted
  BY DEF Init, ImportHolds, Idle, StoredAsPrinted
<1>2. ReconcileInv /\ ImportHolds /\ StoredAsPrinted /\ [Next]_vars => ImportHolds' /\ StoredAsPrinted'
  BY ImportHoldsStep, StoredStep
<1>. QED BY <1>1, <1>2, InvAlways, PTL DEF Spec

-----------------------------------------------------------------------------
(* The merge moves no money. *)

MergeHolds ==
    \A h \in Handlers : jobs[h].step = "merge" =>
        /\ jobs[h].row \in Filled
        /\ \E ids \in SUBSET Live :
             /\ \A i \in ids : txs[i].type = "EXPENSE"
             /\ AmountSum(txs, ids) = rows[jobs[h].row].amount
             /\ jobs[h].originals = {<<i, txs[i]>> : i \in ids}

LEMMA MergeHoldsStep ==
    ASSUME "merge" \notin Overlap, ReconcileInv, MergeHolds, [Next]_vars
    PROVE  MergeHolds'
<1>. SUFFICES ASSUME NEW h \in Handlers, jobs'[h].step = "merge"
              PROVE  /\ jobs'[h].row \in Filled'
                     /\ \E ids \in SUBSET Live' :
                          /\ \A i \in ids : txs'[i].type = "EXPENSE"
                          /\ AmountSum(txs', ids) = rows'[jobs'[h].row].amount
                          /\ jobs'[h].originals = {<<i, txs'[i]>> : i \in ids}
  <2>1. \A ids : AmountSum(txs, ids)' = AmountSum(txs', ids)
    BY DEF AmountSum, MapThenSumSet, MapThenFoldSet
  <2>. QED BY <2>1 DEF MergeHolds
<1>1. Alone(h)'
  BY DEF Alone, RequestOf
<1>2. CASE UNCHANGED vars
  <2>1. UNCHANGED <<txs, rows, jobs>>
    BY <1>2 DEF vars
  <2>2. Live' = Live /\ Filled' = Filled
    BY <2>1 DEF Live, Filled
  <2>. QED BY <2>1, <2>2 DEF MergeHolds
<1>3. CASE OnlyReads(h) /\ Finds(h)
  <2>1. UNCHANGED <<txs, rows>>
    BY <1>3 DEF OnlyReads
  <2>2. Live' = Live /\ Filled' = Filled
    BY <2>1 DEF Live, Filled
  <2>. QED BY <1>3, <2>1, <2>2 DEF Finds
<1>. QED BY <1>1, <1>2, <1>3, LoneAdvance

(* The book t, with the expenses ids replaced by one of their sum at p.     *)
Merged(t, ids, p, parent) == [i \in TxIds |-> IF i = p THEN parent ELSE IF i \in ids THEN None ELSE t[i]]

LEMMA TotalStays ==
    ASSUME NEW t \in [TxIds -> Tx \cup {None}], NEW ids \in SUBSET TxIds,
           \A i \in ids : t[i] \in Tx /\ t[i].type = "EXPENSE",
           NEW p \in TxIds, p \in ids \/ t[p] = None,
           NEW parent \in Tx, Signed(parent) = -AmountSum(t, ids)
    PROVE  WorthSum(Merged(t, ids, p, parent), TxIds) = WorthSum(t, TxIds)
<1> DEFINE u == Merged(t, ids, p, parent)
           f == WorthOf(t, TxIds)
           g == WorthOf(u, TxIds)
           K == ids \cup {p}
           a == AmountOf(t, ids)
<1>1. IsFiniteSet(TxIds) /\ IsFiniteSet(ids) /\ IsFiniteSet(K) /\ K \in SUBSET TxIds
  BY FinitelyMany
<1>2. u[p] = parent /\ parent # None /\ \A i \in K \ {p} : u[i] = None
  BY SignedType DEF Merged
<1>3. \A i \in TxIds : f[i] \in Int
  BY SignedType DEF WorthOf
<1>4. \A i \in TxIds : g[i] \in Int
  BY SignedType DEF WorthOf, Merged
<1>5. \A i \in TxIds \ K : f[i] = g[i]
  BY DEF WorthOf, Merged
<1>6. \A i \in ids : a[i] \in Int /\ f[i] = -a[i]
  BY SignedType DEF WorthOf, AmountOf, Signed, Tx
<1>7. \A i \in K \ ids : f[i] = 0
  BY DEF WorthOf
<1>8. g[p] = Signed(parent) /\ \A i \in K \ {p} : g[i] = 0
  BY <1>1, <1>2 DEF WorthOf
<1>9. AmountSum(t, ids) = SumOf(a, ids)
  BY AmountSumIsSum
<1>10. WorthSum(t, TxIds) = SumOf(f, TxIds) /\ WorthSum(u, TxIds) = SumOf(g, TxIds)
  BY WorthSumIsSum
<1>. HIDE DEF f, g, a, u
<1>11. SumOf(f, K) = -SumOf(a, ids)
  <2>1. SumOf(f, K) = SumOf(f, ids)
    <3>1. ids \in SUBSET K /\ \A i \in K : f[i] \in Int
      BY <1>1, <1>3
    <3>. HIDE DEF K
    <3>. QED BY <1>1, <1>7, <3>1, SumDrop
  <2>2. SumOf(f, ids) = -SumOf(a, ids)
    BY <1>1, <1>6, SumNegate
  <2>. QED BY <2>1, <2>2
<1>12. SumOf(g, K) = Signed(parent)
  <2>1. p \in K /\ \A i \in K : g[i] \in Int
    BY <1>1, <1>4
  <2>. HIDE DEF K
  <2>2. SumOf(g, K) = g[p] + SumOf(g, K \ {p})
    BY <1>1, <2>1, SumRemove
  <2>3. SumOf(g, K \ {p}) = 0
    BY <1>1, <1>8, FS_Subset, SumZero
  <2>. QED BY <1>8, <2>1, <2>2, <2>3
<1>. HIDE DEF K
<1>13. SumOf(f, TxIds) = SumOf(g, TxIds)
  BY <1>1, <1>3, <1>4, <1>5, <1>9, <1>11, <1>12, SumSwap
<1>. QED BY <1>10, <1>13 DEF u

(* The account's total is the sum over the transactions that there are.     *)
LEMMA WorthIsSigned ==
    ASSUME NEW t \in [TxIds -> Tx \cup {None}]
    PROVE  WorthSum(t, TxIds) = SignedSum(t, {i \in TxIds : t[i] # None})
<1> DEFINE L == {i \in TxIds : t[i] # None}
           f == WorthOf(t, TxIds)
           g == SignedOf(t, L)
<1>1. IsFiniteSet(TxIds) /\ L \in SUBSET TxIds
  BY FinitelyMany
<1>2. \A i \in TxIds : f[i] \in Int
  BY SignedType DEF WorthOf
<1>3. \A i \in TxIds \ L : f[i] = 0
  BY DEF WorthOf
<1>4. \A i \in L : f[i] = g[i]
  BY DEF WorthOf, SignedOf
<1>5. WorthSum(t, TxIds) = SumOf(f, TxIds) /\ SignedSum(t, L) = SumOf(g, L)
  BY WorthSumIsSum, SignedSumIsSum
<1>. HIDE DEF L, f, g
<1>6. SumOf(f, TxIds) = SumOf(f, L)
  BY <1>1, <1>2, <1>3, SumDrop
<1>7. SumOf(f, L) = SumOf(g, L)
  BY <1>4, SumFrame
<1>. QED BY <1>5, <1>6, <1>7 DEF L

(* What a budget is charged, over all of a book.                            *)
ChargedOf(t, b) == [i \in TxIds |-> IF t[i] # None /\ t[i].type = "EXPENSE" THEN Charge(t[i], b) ELSE 0]

LEMMA ChargeIs ==
    ASSUME NEW t \in Tx, NEW b \in Budgets
    PROVE  /\ Charge(t, b) = t.shares[b] + (IF b = t.budget THEN t.amount - SumOf(t.shares, Budgets) ELSE 0)
           /\ Charge(t, b) \in Int
<1>1. ShareSum(t.shares) = SumOf(t.shares, Budgets)
  BY ShareSumIsSum
<1>2. Charge(t, b) = t.shares[b] + (IF b = t.budget THEN t.amount - ShareSum(t.shares) ELSE 0)
  BY DEF Charge, ShareSum
<1>3. t.shares \in [Budgets -> Nat] /\ t.amount \in Int
  BY DEF Tx
<1>4. SumOf(t.shares, Budgets) \in Int
  BY <1>3, ReconcileAssumption, SumType
<1>. QED BY <1>1, <1>2, <1>3, <1>4

(* An expense in one piece charges its own budget, all of it.               *)
LEMMA WholeCharge ==
    ASSUME NEW t \in Tx, NEW b \in Budgets, t.shares = Nothing
    PROVE  Charge(t, b) = IF b = t.budget THEN t.amount ELSE 0
<1>1. SumOf(Nothing, Budgets) = 0
  <2>1. \A c \in Budgets : Nothing[c] = 0
    BY DEF Nothing
  <2>. QED BY <2>1, ReconcileAssumption, SumZero
<1>2. t.shares[b] = 0 /\ t.amount \in Int
  BY DEF Nothing, Tx
<1>. QED BY <1>1, <1>2, ChargeIs

LEMMA ChargedIs ==
    ASSUME NEW t \in [TxIds -> Tx \cup {None}], NEW b \in Budgets
    PROVE  /\ Charged(t, b) = SumOf(ChargedOf(t, b), TxIds)
           /\ \A i \in TxIds : ChargedOf(t, b)[i] \in Int
<1> DEFINE E == {i \in TxIds : t[i] # None /\ t[i].type = "EXPENSE"}
           f == ChargedOf(t, b)
           g == ChargeOf(t, b, E)
<1>1. IsFiniteSet(TxIds) /\ E \in SUBSET TxIds
  BY FinitelyMany
<1>2. \A i \in TxIds : f[i] \in Int
  <2>1. ASSUME NEW i \in TxIds, t[i] # None PROVE Charge(t[i], b) \in Int
    BY <2>1, ChargeIs
  <2>. QED BY <2>1 DEF ChargedOf
<1>3. \A i \in TxIds \ E : f[i] = 0
  BY DEF ChargedOf
<1>4. \A i \in E : f[i] = g[i]
  BY DEF ChargedOf, ChargeOf
<1>5. Charged(t, b) = SumOf(g, E)
  <2>1. Charged(t, b) = ChargeSum(t, b, E)
    BY DEF Charged, ChargeSum
  <2>. HIDE DEF E
  <2>. QED BY <2>1, ChargeSumIsSum
<1>. HIDE DEF E, f, g
<1>6. SumOf(f, TxIds) = SumOf(f, E)
  BY <1>1, <1>2, <1>3, SumDrop
<1>7. SumOf(f, E) = SumOf(g, E)
  BY <1>4, SumFrame
<1>. QED BY <1>2, <1>5, <1>6, <1>7 DEF f

(* The parent of the originals charges a budget what the originals, each in *)
(* one piece, charge it.                                                    *)
LEMMA ParentCharge ==
    ASSUME NEW line \in Lines, NEW originals, originals \subseteq TxIds \X Tx, IsFiniteSet(originals),
           NEW head \in originals, NEW b \in Budgets,
           line.amount = SumOf(OriginalOf(originals), originals)
    PROVE  Charge(Parent(line, head, originals), b)
             = SumOf(OriginalOf(originals), {o \in originals : o[2].budget = b})
<1> DEFINE parent == Parent(line, head, originals)
           f == OriginalOf(originals)
           rest == originals \ {head}
           For(c) == {o \in rest : o[2].budget = c}
           k == [o \in rest |-> o[2].budget]
           All == {o \in originals : o[2].budget = b}
<1>1. \A o \in originals : o[2] \in Tx /\ o[2].budget \in Budgets /\ f[o] = o[2].amount /\ f[o] \in Int
  BY DEF Tx, OriginalOf
<1>2. IsFiniteSet(rest) /\ IsFiniteSet(All) /\ \A c : IsFiniteSet(For(c))
  <2>1. rest \subseteq originals /\ All \subseteq originals /\ \A c : For(c) \subseteq originals
    OBVIOUS
  <2>. HIDE DEF rest, All, For
  <2>. QED BY <2>1, FS_Subset
<1>3. parent \in Tx /\ parent.amount = line.amount /\ parent.budget = head[2].budget
  BY ParentIs
<1>4. ASSUME NEW c \in Budgets PROVE parent.shares[c] = SumOf(f, For(c))
  <2>1. parent.shares[c] = SumOf(OriginalOf(For(c)), For(c))
    BY ParentIs
  <2>2. \A o \in For(c) : OriginalOf(For(c))[o] = f[o]
    BY DEF OriginalOf
  <2>. HIDE DEF f, For, parent
  <2>3. SumOf(OriginalOf(For(c)), For(c)) = SumOf(f, For(c))
    BY <2>2, SumFrame
  <2>. QED BY <2>1, <2>3
<1>5. \A c \in Budgets : For(c) = {o \in rest : k[o] = c}
  OBVIOUS
<1>6. \A o \in rest : f[o] \in Int /\ k[o] \in Budgets
  BY <1>1
<1>7. head \in originals /\ head \notin rest /\ f[head] = head[2].amount
  BY <1>1
<1>8. All = IF head[2].budget = b THEN For(b) \cup {head} ELSE For(b)
  OBVIOUS
<1>9. head \notin For(b) /\ For(b) \subseteq originals
  OBVIOUS
<1>10. rest = originals \ {head}
  OBVIOUS
<1>. HIDE DEF parent, f, rest, For, k, All
<1>11. SumOf(parent.shares, Budgets) = SumOf(f, rest)
  <2> DEFINE groups == [c \in Budgets |-> SumOf(f, {o \in rest : k[o] = c})]
  <2>1. SumOf(groups, Budgets) = SumOf(f, rest)
    BY <1>2, <1>6, ReconcileAssumption, SumGroups, SMTT(30)
  <2>2. \A c \in Budgets : parent.shares[c] = groups[c]
    BY <1>4, <1>5
  <2>. HIDE DEF groups
  <2>3. SumOf(parent.shares, Budgets) = SumOf(groups, Budgets)
    BY <2>2, SumFrame
  <2>. QED BY <2>1, <2>3
<1>12. SumOf(f, originals) = f[head] + SumOf(f, rest)
  BY <1>1, <1>7, <1>10, SumRemove
<1>13. SumOf(f, rest) \in Int /\ SumOf(f, For(b)) \in Int /\ f[head] \in Int
  BY <1>1, <1>2, <1>6, <1>7, <1>9, SumType
<1>14. Charge(parent, b) = SumOf(f, For(b)) + (IF b = head[2].budget THEN f[head] ELSE 0)
  <2>1. Charge(parent, b) = parent.shares[b] + (IF b = parent.budget THEN parent.amount - SumOf(parent.shares, Budgets) ELSE 0)
    BY <1>3, ChargeIs
  <2>2. parent.amount = f[head] + SumOf(f, rest)
    BY <1>3, <1>12 DEF f
  <2>3. parent.shares[b] = SumOf(f, For(b))
    BY <1>4
  <2>. QED BY <1>3, <1>11, <1>13, <2>1, <2>2, <2>3
<1>15. SumOf(f, All) = SumOf(f, For(b)) + (IF b = head[2].budget THEN f[head] ELSE 0)
  <2>1. CASE head[2].budget = b
    <3>1. SumOf(f, For(b) \cup {head}) = f[head] + SumOf(f, For(b))
      BY <1>1, <1>2, <1>7, <1>9, SumAdd
    <3>. QED BY <1>8, <1>13, <2>1, <3>1
  <2>2. CASE head[2].budget # b
    BY <1>8, <1>13, <2>2
  <2>. QED BY <2>1, <2>2
<1>. QED BY <1>14, <1>15 DEF parent, f, All

LEMMA ChargesStay ==
    ASSUME NEW t \in [TxIds -> Tx \cup {None}], NEW ids \in SUBSET TxIds,
           \A i \in ids : t[i] \in Tx /\ t[i].type = "EXPENSE" /\ t[i].shares = Nothing,
           NEW p \in TxIds, p \in ids \/ t[p] = None,
           NEW line \in Lines, AmountSum(t, ids) = line.amount,
           NEW originals, originals = {<<i, t[i]>> : i \in ids}, NEW head \in originals, NEW b \in Budgets
    PROVE  Charged(Merged(t, ids, p, Parent(line, head, originals)), b) = Charged(t, b)
<1> DEFINE parent == Parent(line, head, originals)
           u == Merged(t, ids, p, parent)
           a == AmountOf(t, ids)
           F == OriginalOf(originals)
           entry == [i \in ids |-> <<i, t[i]>>]
           mine == {i \in ids : t[i].budget = b}
           c == ChargedOf(t, b)
           d == ChargedOf(u, b)
           K == ids \cup {p}
<1>1. /\ IsFiniteSet(TxIds) /\ IsFiniteSet(ids) /\ IsFiniteSet(mine) /\ IsFiniteSet(K) /\ K \in SUBSET TxIds
      /\ mine \in SUBSET ids
  BY FinitelyMany
<1>2. originals \subseteq TxIds \X Tx /\ IsFiniteSet(originals) /\ originals = {entry[i] : i \in ids}
  <2>1. originals \subseteq TxIds \X Tx
    OBVIOUS
  <2>2. originals = {entry[i] : i \in ids}
    OBVIOUS
  <2>. HIDE DEF entry
  <2>. QED BY <1>1, <2>1, <2>2, ImageIsFinite
<1>3. {o \in originals : o[2].budget = b} = {entry[i] : i \in mine}
  OBVIOUS
<1>4. \A i \in ids : a[i] \in Int /\ F[entry[i]] = a[i]
  BY DEF AmountOf, OriginalOf, Tx
<1>5. \A i, j \in ids : entry[i] = entry[j] => i = j
  OBVIOUS
<1>6. parent \in Tx /\ parent # None /\ parent.type = "EXPENSE"
  BY <1>2, ParentIs, SignedType
<1>7. u \in [TxIds -> Tx \cup {None}]
  BY <1>6 DEF Merged
<1>8. \A i \in ids : c[i] = IF i \in mine THEN a[i] ELSE 0
  BY WholeCharge, SignedType DEF ChargedOf, AmountOf
<1>9. \A i \in K \ ids : c[i] = 0
  BY DEF ChargedOf
<1>10. d[p] = Charge(parent, b) /\ \A i \in K \ {p} : d[i] = 0
  BY <1>6 DEF ChargedOf, Merged
<1>11. \A i \in TxIds \ K : d[i] = c[i]
  BY DEF ChargedOf, Merged
<1>12. line.amount = SumOf(a, ids)
  BY AmountSumIsSum
<1>. HIDE DEF u, a, F, entry, mine, c, d, K, parent
<1>13. SumOf(F, originals) = line.amount
  <2>1. SumOf(F, {entry[i] : i \in ids}) = SumOf(a, ids)
    BY <1>1, <1>4, <1>5, SumImage
  <2>. QED BY <1>2, <1>12, <2>1
<1>14. Charge(parent, b) = SumOf(a, mine)
  <2>1. SumOf(F, {entry[i] : i \in mine}) = SumOf(a, mine)
    BY <1>1, <1>4, <1>5, SumImage
  <2>2. Charge(parent, b) = SumOf(F, {o \in originals : o[2].budget = b})
    BY <1>2, <1>13, ParentCharge DEF parent, F
  <2>. QED BY <1>3, <2>1, <2>2
<1>15. \A i \in TxIds : c[i] \in Int /\ d[i] \in Int
  BY <1>7, ChargedIs DEF c, d
<1>16. SumOf(c, K) = SumOf(a, mine)
  <2>1. SumOf(c, K) = SumOf(c, ids)
    <3>1. ids \in SUBSET K /\ \A i \in K : c[i] \in Int
      BY <1>1, <1>15 DEF K
    <3>. QED BY <1>1, <1>9, <3>1, SumDrop
  <2>2. SumOf(c, ids) = SumOf(c, mine)
    BY <1>1, <1>8, <1>15, SumDrop
  <2>3. SumOf(c, mine) = SumOf(a, mine)
    BY <1>1, <1>8, SumFrame
  <2>. QED BY <2>1, <2>2, <2>3
<1>17. SumOf(d, K) = Charge(parent, b)
  <2>1. p \in K /\ \A i \in K : d[i] \in Int
    BY <1>1, <1>15 DEF K
  <2>2. SumOf(d, K) = d[p] + SumOf(d, K \ {p})
    BY <1>1, <2>1, SumRemove
  <2>3. SumOf(d, K \ {p}) = 0
    BY <1>1, <1>10, FS_Subset, SumZero
  <2>. QED BY <1>10, <2>1, <2>2, <2>3
<1>18. SumOf(c, TxIds) = SumOf(d, TxIds)
  BY <1>1, <1>11, <1>14, <1>15, <1>16, <1>17, SumSwap
<1>19. Charged(t, b) = SumOf(c, TxIds) /\ Charged(u, b) = SumOf(d, TxIds)
  BY <1>7, ChargedIs DEF c, d
<1>. QED BY <1>18, <1>19 DEF u, parent

(* What the merge of a lone request does to the book.                       *)
LEMMA MergeReplaces ==
    ASSUME ReconcileInv, MergeHolds, NEW h \in Handlers, NEW head \in jobs[h].originals, NEW p \in TxIds,
           Merge(h, head, p), txs' # txs
    PROVE  \E ids \in SUBSET TxIds, line \in Lines :
             /\ \A i \in ids : txs[i] \in Tx /\ txs[i].type = "EXPENSE"
             /\ AmountSum(txs, ids) = line.amount
             /\ p \in ids \/ txs[p] = None
             /\ jobs[h].originals = {<<i, txs[i]>> : i \in ids}
             /\ txs' = Merged(txs, ids, p, Parent(line, head, jobs[h].originals))
<1>1. /\ jobs[h].step = "merge"
      /\ p \in Gone(jobs[h]) \/ txs[p] = None
      /\ txs' = Merged(txs, Gone(jobs[h]), p, Parent(rows[jobs[h].row], head, jobs[h].originals))
  BY MergeStep DEF Merged
<1>2. PICK ids \in SUBSET Live :
        /\ \A i \in ids : txs[i].type = "EXPENSE"
        /\ AmountSum(txs, ids) = rows[jobs[h].row].amount
        /\ jobs[h].originals = {<<i, txs[i]>> : i \in ids}
  BY <1>1 DEF MergeHolds
<1>3. Gone(jobs[h]) = ids
  <2> DEFINE originals == jobs[h].originals
  <2>1. ASSUME NEW i \in ids PROVE \E o \in originals : o[1] = i
    <3>1. <<i, txs[i]>> \in originals /\ <<i, txs[i]>>[1] = i
      BY <1>2
    <3>. HIDE DEF originals
    <3>. QED BY <3>1
  <2>2. \A o \in originals : o[1] \in ids
    BY <1>2
  <2>3. Gone(jobs[h]) = {o[1] : o \in originals}
    BY DEF Gone
  <2>. HIDE DEF originals
  <2>. QED BY <2>1, <2>2, <2>3
<1>4. rows[jobs[h].row] \in Lines
  BY <1>1 DEF MergeHolds, Filled, ReconcileInv, RowsOK
<1>5. ids \in SUBSET TxIds /\ \A i \in ids : txs[i] \in Tx
  BY DEF Live, ReconcileInv, BookOK
<1>. QED BY <1>1, <1>2, <1>3, <1>4, <1>5

(* As long as nothing comes between the reads of a merge and its write,     *)
(* whatever else overlaps: the account's total stays, and so does what each *)
(* budget is charged when no original has parts, into however many budgets  *)
(* the originals go.                                                        *)
THEOREM MergeMovesNoMoney ==
    ASSUME "merge" \notin Overlap
    PROVE  Spec => MergeIsNeutral
<1> DEFINE Neutral(h) ==
             /\ MapThenSumSet(LAMBDA i : IF txs'[i] = None THEN 0 ELSE Signed(txs'[i]), TxIds)
                   = MapThenSumSet(LAMBDA i : Signed(txs[i]), Live)
             /\ (\A o \in jobs[h].originals : o[2].shares = Nothing) =>
                   \A b \in Budgets : Charged(txs', b) = Charged(txs, b)
<1>1. Init => MergeHolds
  BY DEF Init, MergeHolds, Idle
<1>2. ReconcileInv /\ MergeHolds /\ [Next]_vars => MergeHolds'
  BY MergeHoldsStep
<1>3. ReconcileInv /\ MergeHolds /\ [Next]_vars => [\A h \in Handlers : Merges(h) => Neutral(h)]_vars
  <2>. SUFFICES ASSUME ReconcileInv, MergeHolds, Next, NEW h \in Handlers, Merges(h) PROVE Neutral(h)
    OBVIOUS
  <2>1. Alone(h) /\ txs' # txs /\ jobs[h].step = "merge"
    BY DEF Merges, Alone, RequestOf
  <2>2. PICK p \in TxIds, head \in jobs[h].originals : Merge(h, head, p)
    BY <2>1, OnlyTheLoneOne, ContinuesAt
  <2>3. PICK ids \in SUBSET TxIds, line \in Lines :
             /\ \A i \in ids : txs[i] \in Tx /\ txs[i].type = "EXPENSE"
             /\ AmountSum(txs, ids) = line.amount
             /\ p \in ids \/ txs[p] = None
             /\ jobs[h].originals = {<<i, txs[i]>> : i \in ids}
             /\ txs' = Merged(txs, ids, p, Parent(line, head, jobs[h].originals))
    BY <2>1, <2>2, MergeReplaces
  <2>4. txs \in [TxIds -> Tx \cup {None}]
    BY DEF ReconcileInv, BookOK
  <2>5. MapThenSumSet(LAMBDA i : IF txs'[i] = None THEN 0 ELSE Signed(txs'[i]), TxIds)
          = MapThenSumSet(LAMBDA i : Signed(txs[i]), Live)
    <3> DEFINE parent == Parent(line, head, jobs[h].originals)
    <3>1. jobs[h].originals \subseteq TxIds \X Tx /\ IsFiniteSet(jobs[h].originals)
      BY <2>1 DEF ReconcileInv, JobsOK, JobOK
    <3>2. parent \in Tx /\ Signed(parent) = -AmountSum(txs, ids)
      BY <2>3, <3>1, ParentIs
    <3>3. txs' = Merged(txs, ids, p, parent)
      BY <2>3
    <3>. HIDE DEF parent
    <3>4. WorthSum(txs', TxIds) = WorthSum(txs, TxIds)
      BY <2>3, <2>4, <3>2, <3>3, TotalStays
    <3>5. WorthSum(txs, TxIds) = SignedSum(txs, Live)
      BY <2>4, WorthIsSigned DEF Live
    <3>6. WorthSum(txs', TxIds) = SignedSum(txs, Live)
      BY <3>4, <3>5
    <3>. QED BY <3>6 DEF WorthSum, SignedSum
  <2>6. ASSUME \A o \in jobs[h].originals : o[2].shares = Nothing, NEW b \in Budgets
        PROVE  Charged(txs', b) = Charged(txs, b)
    <3> DEFINE originals == jobs[h].originals
    <3>1. \A i \in ids : <<i, txs[i]>> \in originals
      BY <2>3
    <3>2. \A i \in ids : txs[i].shares = Nothing
      BY <2>6, <3>1
    <3>3. head \in originals /\ originals = {<<i, txs[i]>> : i \in ids}
      BY <2>3
    <3>4. txs' = Merged(txs, ids, p, Parent(line, head, originals))
      BY <2>3
    <3>. HIDE DEF originals
    <3>5. Charged(Merged(txs, ids, p, Parent(line, head, originals)), b) = Charged(txs, b)
      BY <2>3, <2>4, <3>2, <3>3, ChargesStay
    <3>. QED BY <3>4, <3>5
  <2>. QED BY <2>5, <2>6
<1>4. Spec => [][\A h \in Handlers : Merges(h) => Neutral(h)]_vars
  <2>. HIDE DEF Neutral
  <2>. QED BY <1>1, <1>2, <1>3, InvAlways, PTL DEF Spec
<1>. QED BY <1>4 DEF MergeIsNeutral

=============================================================================
