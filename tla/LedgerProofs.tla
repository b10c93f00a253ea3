---------------------------- MODULE LedgerProofs ----------------------------
(***************************************************************************)
(* For every set of accounts, rows, amounts, dates and openings: the       *)
(* variables of Ledger keep their types; an account whose rebuild was      *)
(* neither skipped nor lost has the balance its rows add up to, and the    *)
(* columns of its rows form one chain that ends on that balance.           *)
(***************************************************************************)
EXTENDS Ledger, SumsProofs, SequenceTheorems

-----------------------------------------------------------------------------
(* Sequences of accounts to rebuild. *)

LEMMA ConcatRange ==
    ASSUME NEW S, NEW s \in Seq(S), NEW t \in Seq(S)
    PROVE  s \o t \in Seq(S) /\ Range(s \o t) = Range(s) \cup Range(t)
<1> DEFINE c == s \o t
<1>1. /\ c \in Seq(S)
      /\ Len(c) = Len(s) + Len(t)
      /\ \A i \in 1 .. Len(s) + Len(t) : c[i] = IF i <= Len(s) THEN s[i] ELSE t[i - Len(s)]
  BY ConcatProperties
<1>2. DOMAIN c = 1 .. Len(s) + Len(t) /\ DOMAIN s = 1 .. Len(s) /\ DOMAIN t = 1 .. Len(t)
      /\ Len(s) \in Nat /\ Len(t) \in Nat
  BY <1>1
<1>. HIDE DEF c
<1>3. ASSUME NEW i \in DOMAIN c PROVE c[i] \in Range(s) \cup Range(t)
  <2>1. CASE i <= Len(s)
    BY <1>1, <1>2, <2>1 DEF Range
  <2>2. CASE ~(i <= Len(s))
    <3>1. i - Len(s) \in DOMAIN t /\ c[i] = t[i - Len(s)]
      BY <1>1, <1>2, <2>2
    <3>. QED BY <3>1 DEF Range
  <2>. QED BY <2>1, <2>2
<1>4. ASSUME NEW i \in DOMAIN s PROVE s[i] \in Range(c)
  <2>1. i \in DOMAIN c /\ c[i] = s[i]
    BY <1>1, <1>2
  <2>. QED BY <2>1 DEF Range
<1>5. ASSUME NEW i \in DOMAIN t PROVE t[i] \in Range(c)
  <2>1. i + Len(s) \in DOMAIN c /\ c[i + Len(s)] = t[i]
    BY <1>1, <1>2
  <2>. QED BY <2>1 DEF Range
<1>6. Range(c) = Range(s) \cup Range(t)
  BY <1>3, <1>4, <1>5 DEF Range
<1>. QED BY <1>1, <1>6 DEF c

LEMMA OwedFacts ==
    ASSUME NEW S, NEW a, a # None => a \in S
    PROVE  Owed(a) \in Seq(S) /\ Range(Owed(a)) = {a} \ {None}
<1>1. CASE a = None
  BY <1>1 DEF Owed, Range
<1>2. CASE a # None
  <2>1. Owed(a) = <<a>>
    BY <1>2 DEF Owed
  <2>. QED BY <1>2, <2>1 DEF Range
<1>. QED BY <1>1, <1>2

-----------------------------------------------------------------------------
(* The fold of rebuild_chain over a set of legs. *)

(* SumDelta as a sum of a function on the legs. *)
Deltas(S) == [l \in S |-> l.delta]

LEMMA SumDeltaIsSum ==
    ASSUME NEW S
    PROVE  SumDelta(S) = SumOf(Deltas(S), S)
<1> DEFINE IsDeltaSum(sum) ==
             sum = [T \in SUBSET S |->
                      IF T = {} THEN 0
                      ELSE LET x == CHOOSE x \in T : TRUE IN x.delta + sum[T \ {x}]]
<1>1. SumDelta(S) = (CHOOSE sum : IsDeltaSum(sum))[S]
  BY DEF SumDelta, MapThenSumSet, MapThenFoldSet
<1>2. ASSUME NEW sum PROVE IsSum(sum, Deltas(S), S) <=> IsDeltaSum(sum)
  <2>1. \A T \in SUBSET S : T # {} =>
          Deltas(S)[CHOOSE x \in T : TRUE] = (CHOOSE x \in T : TRUE).delta
    BY DEF Deltas
  <2>. QED BY <2>1 DEF IsSum
<1>3. (CHOOSE sum : IsSum(sum, Deltas(S), S)) = (CHOOSE sum : IsDeltaSum(sum))
  <2>. HIDE DEF IsDeltaSum
  <2>. QED BY <1>2
<1>. QED BY <1>1, <1>3, SumIter

(* Every leg moves whole cents. *)
Cents(legs) == \A l \in legs : l.delta \in Int

LEMMA SumDeltaEmpty == SumDelta({}) = 0
BY SumDeltaIsSum, SumEmpty

(* The legs of a finite set add up to an integer.                           *)
LEMMA SumDeltaType ==
    ASSUME NEW S, IsFiniteSet(S), Cents(S)
    PROVE  SumDelta(S) \in Int
BY SumDeltaIsSum, SumType DEF Cents, Deltas

(* rebuild_chain folds the legs in one order; the sum may be taken apart at *)
(* any of them.                                                             *)
THEOREM SumDeltaRemove ==
    ASSUME NEW S, IsFiniteSet(S), Cents(S), NEW y \in S
    PROVE  SumDelta(S) = y.delta + SumDelta(S \ {y})
<1>1. SumOf(Deltas(S), S) = Deltas(S)[y] + SumOf(Deltas(S), S \ {y})
  BY SumRemove DEF Cents, Deltas
<1>2. SumOf(Deltas(S), S \ {y}) = SumOf(Deltas(S \ {y}), S \ {y})
  BY SumFrame DEF Deltas
<1>3. Deltas(S)[y] = y.delta
  BY DEF Deltas
<1>. QED BY <1>1, <1>2, <1>3, SumDeltaIsSum

-----------------------------------------------------------------------------
(* The legs of an account. *)

(* A table of rows: what the variable txs may hold. *)
Table(t) == DOMAIN t \subseteq TxIds /\ t \in [DOMAIN t -> Row]

LEMMA AmountsAreCents == Amounts \subseteq Int
<1>1. Amounts \subseteq Nat
  BY LedgerAssumption
<1>. QED BY <1>1

LEMMA RowFacts ==
    ASSUME NEW r \in Row
    PROVE  /\ r.net \in Int
           /\ SourceDelta(r) \in Int
           /\ Touches(r) \subseteq Accounts
           /\ RebuildList(r) \in Seq(Touches(r))
           /\ Range(RebuildList(r)) = Touches(r)
<1>1. r.net \in Int /\ -r.net \in Int
  BY DEF Row
<1>2. SourceDelta(r) \in Int
  BY <1>1 DEF SourceDelta
<1>3. Touches(r) \subseteq Accounts
  BY DEF Touches, Row
<1>4. /\ Owed(r.account) \in Seq(Touches(r)) /\ Owed(r.toAccount) \in Seq(Touches(r))
      /\ Range(Owed(r.account)) = {r.account} \ {None}
      /\ Range(Owed(r.toAccount)) = {r.toAccount} \ {None}
  BY OwedFacts DEF Touches
<1>5. RebuildList(r) \in Seq(Touches(r)) /\ Range(RebuildList(r)) = Touches(r)
  BY <1>4, ConcatRange DEF RebuildList, Touches
<1>. QED BY <1>1, <1>2, <1>3, <1>5

(* An account has finitely many legs, in whole cents. *)
LEMMA LegsType ==
    ASSUME NEW t, Table(t), NEW a
    PROVE  IsFiniteSet(Legs(t, a)) /\ Cents(Legs(t, a))
<1>1. IsFiniteSet(TxIds)
  BY LedgerAssumption
<1>2. IsFiniteSet(OutLegs(t, a))
  <2> DEFINE f == [l \in OutLegs(t, a) |-> l.id]
  <2>1. f \in Injection(OutLegs(t, a), TxIds)
    BY DEF Injection, IsInjective, OutLegs, Table
  <2>. QED BY <1>1, <2>1, FS_Injection
<1>3. IsFiniteSet(InLegs(t, a))
  <2> DEFINE f == [l \in InLegs(t, a) |-> l.id]
  <2>1. f \in Injection(InLegs(t, a), TxIds)
    BY DEF Injection, IsInjective, InLegs, Table
  <2>. QED BY <1>1, <2>1, FS_Injection
<1>4. IsFiniteSet(Legs(t, a))
  BY <1>2, <1>3, FS_Union DEF Legs
<1>5. Cents(Legs(t, a))
  <2>1. \A i \in DOMAIN t : t[i].net \in Int /\ SourceDelta(t[i]) \in Int
    BY RowFacts DEF Table
  <2>. QED BY <2>1 DEF Cents, Legs, OutLegs, InLegs
<1>. QED BY <1>4, <1>5

LEMMA TotalType ==
    ASSUME NEW t, Table(t), NEW a, NEW o \in Int
    PROVE  Total(t, a, o) \in Int
BY LegsType, SumDeltaType DEF Total

(* The top-level rows that name an account are all its legs depend on. *)
Mine(t, a) == {i \in DOMAIN t : t[i].parent = None /\ a \in Touches(t[i])}

LEMMA LegsFrame ==
    ASSUME NEW t, NEW u, NEW a, a # None,
           Mine(t, a) = Mine(u, a), \A i \in Mine(t, a) : t[i] = u[i]
    PROVE  Legs(t, a) = Legs(u, a)
<1>1. {j \in DOMAIN t : t[j].account = a /\ t[j].parent = None} =
      {j \in DOMAIN u : u[j].account = a /\ u[j].parent = None}
  BY DEF Mine, Touches
<1>2. \A j \in DOMAIN t : t[j].account = a /\ t[j].parent = None => t[j] = u[j]
  BY DEF Mine, Touches
<1>3. OutLegs(t, a) = OutLegs(u, a)
  BY <1>1, <1>2 DEF OutLegs
<1>4. {j \in DOMAIN t : t[j].toAccount = a /\ t[j].type = "TRANSFER" /\ t[j].parent = None} =
      {j \in DOMAIN u : u[j].toAccount = a /\ u[j].type = "TRANSFER" /\ u[j].parent = None}
  BY DEF Mine, Touches
<1>5. \A j \in DOMAIN t : t[j].toAccount = a /\ t[j].parent = None => t[j] = u[j]
  BY DEF Mine, Touches
<1>6. InLegs(t, a) = InLegs(u, a)
  BY <1>4, <1>5 DEF InLegs
<1>. QED BY <1>3, <1>6 DEF Legs

-----------------------------------------------------------------------------
(* The columns of the chain. *)

Columns(c) == c \in [TxIds \X Sides -> Column]

LEMMA WriteLegsType ==
    ASSUME NEW c, Columns(c), NEW legs, IsFiniteSet(legs), Cents(legs),
           NEW o \in Int, NEW done, done \subseteq legs
    PROVE  Columns(WriteLegs(c, legs, o, done))
<1>1. ASSUME NEW l \in legs
      PROVE  RunningAt(legs, o, l) \in Int /\ RunningAt(legs, o, l) + l.delta \in Int
  <2>1. IsFiniteSet(Earlier(legs, l)) /\ Cents(Earlier(legs, l))
    BY FS_Subset DEF Earlier, Cents
  <2>2. SumDelta(Earlier(legs, l)) \in Int
    BY <2>1, SumDeltaType
  <2>. QED BY <2>2 DEF RunningAt, Cents
<1>2. ASSUME NEW k \in TxIds \X Sides
      PROVE  WriteLegs(c, legs, o, done)[k] \in Column
  <2>1. CASE \E l \in done : <<l.id, l.side>> = k
    <3> DEFINE l == CHOOSE l \in done : <<l.id, l.side>> = k
    <3>1. l \in legs
      BY <2>1
    <3>2. WriteLegs(c, legs, o, done)[k] =
            [before |-> RunningAt(legs, o, l), after |-> RunningAt(legs, o, l) + l.delta]
      BY <2>1 DEF WriteLegs, Columns
    <3>. HIDE DEF l
    <3>. QED BY <1>1, <3>1, <3>2 DEF Column
  <2>2. CASE ~\E l \in done : <<l.id, l.side>> = k
    BY <2>2 DEF WriteLegs, Columns
  <2>. QED BY <2>1, <2>2
<1>3. WriteLegs(c, legs, o, done) = [k \in TxIds \X Sides |-> WriteLegs(c, legs, o, done)[k]]
  BY DEF WriteLegs, Columns
<1>. QED BY <1>2, <1>3 DEF Columns

LEMMA TrimmedType ==
    ASSUME NEW c, Columns(c), NEW t
    PROVE  Columns(Trimmed(c, t))
<1>1. Unwritten \in Column
  BY DEF Unwritten, Column
<1>2. Trimmed(c, t) = [k \in TxIds \X Sides |-> Trimmed(c, t)[k]]
  BY DEF Trimmed, Columns
<1>3. \A k \in TxIds \X Sides : Trimmed(c, t)[k] \in Column
  BY <1>1 DEF Trimmed, Columns
<1>. QED BY <1>2, <1>3 DEF Columns

(* The accounts of the table: what the variable acct may hold. *)
Books(ac) == DOMAIN ac \subseteq Accounts /\ ac \in [DOMAIN ac -> [opening : Int, balance : Int]]

LEMMA RebuiltChainType ==
    ASSUME NEW c, Columns(c), NEW t, Table(t), NEW ac, Books(ac), NEW as \in SUBSET DOMAIN ac
    PROVE  Columns(RebuiltChain(c, ac, t, as))
<1>1. ASSUME NEW a \in as PROVE Columns(WriteLegs(c, Legs(t, a), ac[a].opening, Legs(t, a)))
  BY LegsType, WriteLegsType DEF Books
<1>2. ASSUME NEW k \in TxIds \X Sides
      PROVE  RebuiltChain(c, ac, t, as)[k] \in Column
  <2>1. CASE \E a \in as : \E l \in Legs(t, a) : <<l.id, l.side>> = k
    <3> DEFINE a == CHOOSE a \in as : \E l \in Legs(t, a) : <<l.id, l.side>> = k
    <3>1. a \in as
      BY <2>1
    <3>2. RebuiltChain(c, ac, t, as)[k] = WriteLegs(c, Legs(t, a), ac[a].opening, Legs(t, a))[k]
      BY <2>1 DEF RebuiltChain, Columns
    <3>. HIDE DEF a
    <3>. QED BY <1>1, <3>1, <3>2 DEF Columns
  <2>2. CASE ~\E a \in as : \E l \in Legs(t, a) : <<l.id, l.side>> = k
    BY <2>2 DEF RebuiltChain, Columns
  <2>. QED BY <2>1, <2>2
<1>3. RebuiltChain(c, ac, t, as) = [k \in TxIds \X Sides |-> RebuiltChain(c, ac, t, as)[k]]
  BY DEF RebuiltChain, Columns
<1>. QED BY <1>2, <1>3 DEF Columns

LEMMA RebuiltTotalsType ==
    ASSUME NEW t, Table(t), NEW ac, Books(ac), NEW as
    PROVE  Books(RebuiltTotals(ac, t, as)) /\ DOMAIN RebuiltTotals(ac, t, as) = DOMAIN ac
<1>1. ASSUME NEW a \in DOMAIN ac
      PROVE  RebuiltTotals(ac, t, as)[a] \in [opening : Int, balance : Int]
  <2>1. ac[a] \in [opening : Int, balance : Int] /\ ac[a].opening \in Int
    BY DEF Books
  <2>2. Total(t, a, ac[a].opening) \in Int
    BY <2>1, TotalType
  <2>. QED BY <2>1, <2>2 DEF RebuiltTotals
<1>. QED BY <1>1 DEF RebuiltTotals, Books

-----------------------------------------------------------------------------
(* Types. *)

LEMMA TypeParts ==
    ASSUME TypeOK
    PROVE  Table(txs) /\ Books(acct) /\ Columns(chain)
BY DEF TypeOK, Table, Books, Columns

LEMMA InitType == Init => TypeOK
<1>1. SUFFICES ASSUME Init PROVE TypeOK
  OBVIOUS
<1>2. DOMAIN acct = {} /\ DOMAIN txs = {} /\ acct = [a \in {} |-> a] /\ txs = [i \in {} |-> i]
  BY <1>1 DEF Init
<1>3. Unwritten \in Column
  BY DEF Unwritten, Column
<1>4. chain \in [TxIds \X Sides -> Column]
  BY <1>1, <1>3 DEF Init
<1>5. faults \in 0 .. MaxFaults
  BY <1>1, LedgerAssumption DEF Init
<1>6. todo \in Seq(DOMAIN acct) /\ walked \in BOOLEAN /\ (Idle => ~walked)
  <2>1. todo = <<>> /\ walked = FALSE
    BY <1>1 DEF Init
  <2>2. todo \in Seq(DOMAIN acct)
    BY <2>1
  <2>3. walked \in BOOLEAN /\ ~walked
    BY <2>1
  <2>. QED BY <2>2, <2>3
<1>7. acct \in [DOMAIN acct -> [opening : Int, balance : Int]]
      /\ txs \in [DOMAIN txs -> Row]
  BY <1>2
<1>8. edit \in [Editors -> Edit \cup {None}] /\ driftTotal = {} /\ driftChain = {}
  BY <1>1 DEF Init
<1>. QED BY <1>2, <1>4, <1>5, <1>6, <1>7, <1>8 DEF TypeOK

(* Adding and replacing a row keeps the table a table. *)
LEMMA WithType ==
    ASSUME NEW t, Table(t), NEW i \in TxIds, NEW r \in Row
    PROVE  Table(With(t, i, r)) /\ DOMAIN With(t, i, r) = DOMAIN t \cup {i}
           /\ With(t, i, r)[i] = r /\ \A j \in DOMAIN t \ {i} : With(t, i, r)[j] = t[j]
BY DEF With, Table

LEMMA WithoutType ==
    ASSUME NEW t, Table(t), NEW ids
    PROVE  Table(Without(t, ids)) /\ DOMAIN Without(t, ids) = DOMAIN t \ ids
           /\ \A j \in DOMAIN t \ ids : Without(t, ids)[j] = t[j]
BY DEF Without, Table

(* What is left to show of TypeOK when a step leaves the faults in bounds.  *)
LEMMA FaultBounds ==
    ASSUME TypeOK, Fault \/ NoFault \/ UNCHANGED faults
    PROVE  faults' \in 0 .. MaxFaults
BY LedgerAssumption DEF TypeOK, Fault, NoFault

LEMMA CreateTxType ==
    ASSUME TypeOK, NEW i \in TxIds, NEW r \in Row, CreateTx(i, r)
    PROVE  TypeOK'
<1> DEFINE t == With(txs, i, r)
<1>1. Table(t) /\ DOMAIN t = DOMAIN txs \cup {i}
      /\ t[i] = r /\ \A j \in DOMAIN txs \ {i} : t[j] = txs[j]
  BY TypeParts, WithType, ZenonT(40)
<1>. HIDE DEF t
<1>4. txs' = t
  BY DEF CreateTx, t
<1>2. RebuildList(r) \in Seq(DOMAIN acct)
  BY RowFacts DEF CreateTx
<1>3. \A j \in DOMAIN txs' : Touches(txs'[j]) \subseteq DOMAIN acct
  BY <1>1, <1>4 DEF CreateTx, TypeOK
<1>. QED BY <1>1, <1>2, <1>3, <1>4 DEF CreateTx, TypeOK, Table, Idle

LEMMA UpdateTxType ==
    ASSUME TypeOK, NEW i \in TxIds, NEW type \in Types, NEW a \in MaybeAccount,
           NEW b \in MaybeAccount, NEW net \in Amounts, NEW date \in Dates,
           UpdateTx(i, type, a, b, net, date)
    PROVE  TypeOK'
<1> DEFINE new == [txs[i] EXCEPT !.type = type, !.account = a, !.toAccount = b,
                                 !.net = net, !.date = date]
<1>1. i \in DOMAIN txs /\ txs[i] \in Row /\ Touches(txs[i]) \subseteq DOMAIN acct
  BY DEF UpdateTx, TypeOK
<1>2. new \in Row
  <2>1. net \in Int /\ type \in TransactionTypes
    BY AmountsAreCents, LedgerAssumption
  <2>. QED BY <1>1, <2>1 DEF Row, MaybeAccount
<1>3. Touches(new) \subseteq DOMAIN acct
  <2>1. Touches(new) = {a, b} \ {None}
    BY <1>1 DEF Touches, Row
  <2>. QED BY <2>1 DEF UpdateTx
<1>4. txs' = With(txs, i, new) /\ todo' = RebuildList(new) \o RebuildList(txs[i])
      /\ chain' = Trimmed(chain, txs')
  BY DEF UpdateTx
<1>. HIDE DEF new
<1>5. Table(txs') /\ DOMAIN txs' = DOMAIN txs
      /\ \A j \in DOMAIN txs' : txs'[j] = IF j = i THEN new ELSE txs[j]
  <2> DEFINE t == With(txs, i, new)
  <2>1. Table(t) /\ DOMAIN t = DOMAIN txs \cup {i}
        /\ t[i] = new /\ \A j \in DOMAIN txs \ {i} : t[j] = txs[j]
    BY <1>2, TypeParts, WithType, ZenonT(40)
  <2>. HIDE DEF t
  <2>2. txs' = t
    BY <1>4 DEF t
  <2>. QED BY <1>1, <2>1, <2>2
<1>6. \A j \in DOMAIN txs' : Touches(txs'[j]) \subseteq DOMAIN acct
  BY <1>3, <1>5 DEF TypeOK
<1>7. todo' \in Seq(DOMAIN acct)
  <2>1. RebuildList(new) \in Seq(DOMAIN acct) /\ RebuildList(txs[i]) \in Seq(DOMAIN acct)
    BY <1>1, <1>2, <1>3, RowFacts
  <2>. QED BY <1>4, <2>1, ConcatRange
<1>8. Columns(chain')
  BY <1>4, TypeParts, TrimmedType
<1>. QED BY <1>5, <1>6, <1>7, <1>8 DEF UpdateTx, TypeOK, Table, Columns, Idle

LEMMA DeleteTxType ==
    ASSUME TypeOK, NEW i \in TxIds, DeleteTx(i)
    PROVE  TypeOK'
<1>1. Table(txs') /\ DOMAIN txs' = DOMAIN txs \ {i} /\ \A j \in DOMAIN txs' : txs'[j] = txs[j]
  <2> DEFINE t == Without(txs, {i})
  <2>1. Table(t) /\ DOMAIN t = DOMAIN txs \ {i} /\ \A j \in DOMAIN txs \ {i} : t[j] = txs[j]
    BY TypeParts, WithoutType
  <2>. HIDE DEF t
  <2>2. txs' = t
    BY DEF DeleteTx, t
  <2>. QED BY <2>1, <2>2
<1>2. RebuildList(txs[i]) \in Seq(DOMAIN acct)
  BY RowFacts DEF DeleteTx, TypeOK
<1>3. Columns(chain')
  BY TypeParts, TrimmedType DEF DeleteTx
<1>. QED BY <1>1, <1>2, <1>3 DEF DeleteTx, TypeOK, Table, Columns, Idle

LEMMA HeadFacts ==
    ASSUME TypeOK, ~Idle
    PROVE  /\ Head(todo) \in DOMAIN acct /\ acct[Head(todo)] \in [opening : Int, balance : Int]
           /\ Head(todo) \in Pending /\ Tail(todo) \in Seq(DOMAIN acct)
           /\ Pending = {Head(todo)} \cup Range(Tail(todo)) /\ Pending \subseteq DOMAIN acct
<1>1. todo \in Seq(DOMAIN acct) /\ todo # <<>>
  BY DEF TypeOK, Idle
<1>2. /\ Tail(todo) \in Seq(DOMAIN acct) /\ Len(Tail(todo)) = Len(todo) - 1
      /\ \A n \in 1 .. Len(Tail(todo)) : Tail(todo)[n] = todo[n + 1]
      /\ Head(todo) = todo[1] /\ Len(todo) \in Nat \ {0}
      /\ DOMAIN todo = 1 .. Len(todo) /\ DOMAIN Tail(todo) = 1 .. Len(Tail(todo))
  BY <1>1, HeadTailProperties
<1>3. Head(todo) \in Pending
  BY <1>2 DEF Pending, Range
<1>4. Range(Tail(todo)) \subseteq Pending
  <2>1. ASSUME NEW n \in DOMAIN Tail(todo) PROVE Tail(todo)[n] \in Pending
    <3>1. n + 1 \in DOMAIN todo /\ Tail(todo)[n] = todo[n + 1]
      BY <1>2
    <3>. QED BY <3>1 DEF Pending, Range
  <2>. QED BY <2>1 DEF Range
<1>5. Pending \subseteq {Head(todo)} \cup Range(Tail(todo))
  <2>1. ASSUME NEW n \in DOMAIN todo PROVE todo[n] \in {Head(todo)} \cup Range(Tail(todo))
    <3>1. CASE n = 1
      BY <1>2, <3>1
    <3>2. CASE n # 1
      <4>1. n - 1 \in DOMAIN Tail(todo) /\ Tail(todo)[n - 1] = todo[n]
        BY <1>2, <3>2
      <4>. QED BY <4>1 DEF Range
    <3>. QED BY <3>1, <3>2
  <2>. QED BY <2>1 DEF Pending, Range
<1>6. Pending \subseteq DOMAIN acct
  BY <1>1 DEF Pending, Range
<1>. QED BY <1>2, <1>3, <1>4, <1>5, <1>6 DEF TypeOK

LEMMA WalkRowsType ==
    ASSUME TypeOK, WalkRows
    PROVE  TypeOK'
<1>1. Head(todo) \in DOMAIN acct /\ acct[Head(todo)].opening \in Int
  BY HeadFacts DEF WalkRows
<1>2. Columns(chain')
  BY <1>1, TypeParts, LegsType, WriteLegsType DEF WalkRows
<1>. QED BY <1>2 DEF WalkRows, TypeOK, Columns, Idle

LEMMA WriteTotalType ==
    ASSUME TypeOK, WriteTotal
    PROVE  TypeOK'
<1>1. /\ Head(todo) \in DOMAIN acct /\ acct[Head(todo)].opening \in Int
      /\ Tail(todo) \in Seq(DOMAIN acct)
  BY HeadFacts DEF WriteTotal
<1>2. Total(txs, Head(todo), acct[Head(todo)].opening) \in Int
  BY <1>1, TypeParts, TotalType
<1>3. acct' \in [DOMAIN acct -> [opening : Int, balance : Int]] /\ DOMAIN acct' = DOMAIN acct
  BY <1>1, <1>2 DEF WriteTotal, TypeOK
<1>. QED BY <1>1, <1>3 DEF WriteTotal, TypeOK, Idle

LEMMA InterruptType ==
    ASSUME TypeOK, Interrupt
    PROVE  TypeOK'
<1>1. Head(todo) \in DOMAIN acct /\ acct[Head(todo)].opening \in Int /\ Pending \subseteq DOMAIN acct
  BY HeadFacts DEF Interrupt
<1>2. Columns(chain')
  <2>1. PICK done \in SUBSET Legs(txs, Head(todo)) :
          chain' = WriteLegs(chain, Legs(txs, Head(todo)), acct[Head(todo)].opening, done)
    BY DEF Interrupt
  <2>. QED BY <1>1, <2>1, TypeParts, LegsType, WriteLegsType
<1>3. faults' \in 0 .. MaxFaults
  BY FaultBounds DEF Interrupt
<1>4. driftTotal' \subseteq DOMAIN acct /\ driftChain' \subseteq DOMAIN acct
  BY <1>1 DEF Interrupt, TypeOK
<1>5. todo' \in Seq(DOMAIN acct) /\ walked' = FALSE
      /\ UNCHANGED <<acct, txs, edit>>
  BY DEF Interrupt
<1>. QED BY <1>2, <1>3, <1>4, <1>5 DEF TypeOK, Columns, Idle

LEMMA CreateChildType ==
    ASSUME TypeOK, NEW i \in TxIds, NEW p \in TxIds, NEW net \in Amounts,
           CreateChild(i, p, net)
    PROVE  TypeOK'
<1> DEFINE r == [txs[p] EXCEPT !.parent = p, !.net = net, !.toAccount = None, !.dir = None]
           t == With(txs, i, r)
<1>1. txs[p] \in Row /\ Touches(txs[p]) \subseteq DOMAIN acct
  BY DEF CreateChild, TypeOK
<1>2. r \in Row
  <2>1. net \in Int
    BY AmountsAreCents
  <2>. QED BY <1>1, <2>1 DEF Row
<1>3. Touches(r) \subseteq DOMAIN acct
  <2>1. r.account = txs[p].account /\ r.toAccount = None
    BY <1>1 DEF Row
  <2>. QED BY <1>1, <2>1 DEF Touches
<1>4. txs' = t
  BY DEF CreateChild
<1>. HIDE DEF r
<1>5. Table(t) /\ DOMAIN t = DOMAIN txs \cup {i}
      /\ t[i] = r /\ \A j \in DOMAIN txs \ {i} : t[j] = txs[j]
  <2>1. Table(txs)
    BY TypeParts
  <2>2. ASSUME NEW q \in Row
        PROVE  /\ Table(With(txs, i, q)) /\ DOMAIN With(txs, i, q) = DOMAIN txs \cup {i}
               /\ With(txs, i, q)[i] = q
               /\ \A j \in DOMAIN txs \ {i} : With(txs, i, q)[j] = txs[j]
    BY <2>1 DEF With, Table
  <2>. QED BY <1>2, <2>2
<1>. HIDE DEF t
<1>6. \A j \in DOMAIN txs' : Touches(txs'[j]) \subseteq DOMAIN acct
  BY <1>3, <1>4, <1>5 DEF TypeOK
<1>. QED BY <1>4, <1>5, <1>6 DEF CreateChild, TypeOK, Table, Idle

LEMMA DeleteChildType ==
    ASSUME TypeOK, NEW i \in TxIds, DeleteChild(i)
    PROVE  TypeOK'
<1> DEFINE t == Without(txs, {i})
<1>1. Table(t) /\ DOMAIN t = DOMAIN txs \ {i} /\ \A j \in DOMAIN txs \ {i} : t[j] = txs[j]
  BY TypeParts, WithoutType
<1>. HIDE DEF t
<1>2. txs' = t
  BY DEF DeleteChild, t
<1>3. Columns(chain')
  BY TypeParts, TrimmedType DEF DeleteChild
<1>. QED BY <1>1, <1>2, <1>3 DEF DeleteChild, TypeOK, Table, Columns, Idle

(* A batch keeps the types if the rows it leaves are rows of accounts there are. *)
LEMMA CommitBatchType ==
    ASSUME TypeOK, NEW t, Table(t), \A j \in DOMAIN t : Touches(t[j]) \subseteq DOMAIN acct,
           NEW as \in SUBSET DOMAIN acct, CommitBatch(t, as)
    PROVE  TypeOK'
<1>1. Books(acct') /\ DOMAIN acct' = DOMAIN acct
  <2>1. Books(RebuiltTotals(acct, t, as)) /\ DOMAIN RebuiltTotals(acct, t, as) = DOMAIN acct
    BY TypeParts, RebuiltTotalsType
  <2>. QED BY <2>1 DEF CommitBatch
<1>2. Columns(chain')
  <2>1. Columns(Trimmed(chain, t))
    BY TypeParts, TrimmedType
  <2>2. Columns(RebuiltChain(Trimmed(chain, t), acct, t, as))
    BY <2>1, TypeParts, RebuiltChainType
  <2>. QED BY <2>2 DEF CommitBatch
<1>. QED BY <1>1, <1>2 DEF CommitBatch, TypeOK, Table, Books, Columns, Idle

Payments == UNION {[ids -> [account : Accounts, net : Amounts]] : ids \in SUBSET TxIds}

(* The rows a split purchase adds. *)
Blank(date) ==
    [type |-> "EXPENSE", dir |-> None, account |-> None,
     toAccount |-> None, parent |-> None, net |-> 0, date |-> date]
PurchaseRows(anchor, pay, date) ==
    [i \in {anchor} \cup DOMAIN pay |->
        IF i = anchor
        THEN [Blank(date) EXCEPT !.net =
                 SumDelta({[id |-> j, delta |-> pay[j].net] : j \in DOMAIN pay})]
        ELSE [Blank(date) EXCEPT !.account = pay[i].account, !.net = pay[i].net]]
AddRows(t, new) ==
    [i \in DOMAIN t \cup DOMAIN new |-> IF i \in DOMAIN new THEN new[i] ELSE t[i]]

PaidFrom(pay) == {pay[i].account : i \in DOMAIN pay}

(* The step is a batch that adds the rows new, giving t, and rebuilds as.   *)
Purchased(new, t, as) ==
    /\ CommitBatch(t, as)
    /\ as \subseteq DOMAIN acct
    /\ Table(t) /\ DOMAIN t = DOMAIN txs \cup DOMAIN new
    /\ DOMAIN new \cap DOMAIN txs = {}
    /\ \A i \in DOMAIN txs : t[i] = txs[i]
    /\ \A i \in DOMAIN new : t[i] = new[i] /\ Touches(t[i]) \subseteq as

LEMMA PurchaseFacts ==
    ASSUME TypeOK, NEW anchor \in TxIds, NEW pay \in Payments, NEW date \in Dates,
           CreatePurchase(anchor, pay, date)
    PROVE  Purchased(PurchaseRows(anchor, pay, date),
                     AddRows(txs, PurchaseRows(anchor, pay, date)), PaidFrom(pay))
<1> DEFINE new == PurchaseRows(anchor, pay, date)
           t == AddRows(txs, new)
           as == PaidFrom(pay)
           parts == {[id |-> j, delta |-> pay[j].net] : j \in DOMAIN pay}
<1>1. CommitBatch(t, as) /\ as \subseteq DOMAIN acct
      /\ ({anchor} \cup DOMAIN pay) \cap DOMAIN txs = {} /\ anchor \notin DOMAIN pay
  BY DEF CreatePurchase, PurchaseRows, AddRows, Blank, PaidFrom
<1>2. DOMAIN pay \subseteq TxIds /\ \A i \in DOMAIN pay : pay[i].account \in Accounts /\ pay[i].net \in Int
  <2>1. PICK ids \in SUBSET TxIds : pay \in [ids -> [account : Accounts, net : Amounts]]
    BY DEF Payments
  <2>. QED BY <2>1, AmountsAreCents
<1>3. SumDelta(parts) \in Int
  <2>1. IsFiniteSet(parts)
    <3> DEFINE f == [l \in parts |-> l.id]
    <3>1. f \in Injection(parts, TxIds)
      BY <1>2 DEF Injection, IsInjective
    <3>. QED BY <3>1, LedgerAssumption, FS_Injection
  <2>2. Cents(parts)
    BY <1>2 DEF Cents
  <2>. HIDE DEF parts
  <2>. QED BY <2>1, <2>2, SumDeltaType
<1>4. Blank(date) \in Row /\ Blank(date).account = None /\ Blank(date).toAccount = None
  BY DEF Blank, Row, TransactionTypes
<1>5. DOMAIN new = {anchor} \cup DOMAIN pay
  BY DEF PurchaseRows
<1>6. ASSUME NEW i \in DOMAIN new
      PROVE  new[i] \in Row /\ Touches(new[i]) \subseteq as
  <2>1. CASE i = anchor
    <3>1. new[i] = [Blank(date) EXCEPT !.net = SumDelta(parts)]
      BY <2>1 DEF PurchaseRows
    <3>. HIDE DEF parts, new
    <3>2. new[i] \in Row /\ new[i].account = None /\ new[i].toAccount = None
      BY <3>1, <1>3, <1>4 DEF Row
    <3>. QED BY <3>2 DEF Touches
  <2>2. CASE i # anchor
    <3>1. i \in DOMAIN pay /\ new[i] = [Blank(date) EXCEPT !.account = pay[i].account, !.net = pay[i].net]
      BY <2>2, <1>5 DEF PurchaseRows
    <3>2. pay[i].account \in as
      BY <3>1 DEF PaidFrom
    <3>. HIDE DEF new, as
    <3>3. new[i] \in Row /\ new[i].account = pay[i].account /\ new[i].toAccount = None
      BY <3>1, <1>2, <1>4 DEF Row
    <3>. QED BY <3>2, <3>3 DEF Touches
  <2>. QED BY <2>1, <2>2
<1>. HIDE DEF new, as
<1>7. /\ DOMAIN t = DOMAIN txs \cup DOMAIN new
      /\ \A i \in DOMAIN txs : t[i] = txs[i]
      /\ \A i \in DOMAIN new : t[i] = new[i]
      /\ t \in [DOMAIN t -> Row] /\ DOMAIN t \subseteq TxIds
  BY <1>1, <1>2, <1>5, <1>6 DEF AddRows, TypeOK
<1>. HIDE DEF t
<1>8. Table(t) /\ DOMAIN new \cap DOMAIN txs = {}
  BY <1>1, <1>5, <1>7 DEF Table
<1>9. \A i \in DOMAIN new : Touches(t[i]) \subseteq as
  BY <1>6, <1>7
<1>10. Purchased(new, t, as)
  BY <1>1, <1>7, <1>8, <1>9 DEF Purchased
<1>. QED BY <1>10 DEF new, t, as

LEMMA CreatePurchaseType ==
    ASSUME TypeOK, NEW anchor \in TxIds, NEW pay \in Payments, NEW date \in Dates,
           CreatePurchase(anchor, pay, date)
    PROVE  TypeOK'
<1> DEFINE new == PurchaseRows(anchor, pay, date)
           t == AddRows(txs, new)
           as == PaidFrom(pay)
<1>1. Purchased(new, t, as)
  BY PurchaseFacts
<1>. HIDE DEF new, t, as
<1>2. \A j \in DOMAIN t : Touches(t[j]) \subseteq DOMAIN acct
  BY <1>1 DEF TypeOK, Purchased
<1>3. Table(t) /\ as \in SUBSET DOMAIN acct /\ CommitBatch(t, as)
  BY <1>1 DEF Purchased
<1>. QED BY <1>2, <1>3, CommitBatchType

LEMMA DeleteRowsType ==
    ASSUME TypeOK, NEW ids \in SUBSET TxIds, DeleteRows(ids)
    PROVE  TypeOK'
<1> DEFINE gone == WithChildren(txs, ids)
           t == Without(txs, gone)
           as == UNION {Touches(txs[i]) : i \in ids}
<1>1. CommitBatch(t, as) /\ ids \subseteq DOMAIN txs
  BY DEF DeleteRows
<1>2. as \in SUBSET DOMAIN acct
  BY <1>1 DEF TypeOK
<1>3. Table(t) /\ DOMAIN t = DOMAIN txs \ gone /\ \A j \in DOMAIN txs \ gone : t[j] = txs[j]
  BY TypeParts, WithoutType
<1>. HIDE DEF t, as, gone
<1>4. \A j \in DOMAIN t : Touches(t[j]) \subseteq DOMAIN acct
  BY <1>3 DEF TypeOK
<1>. QED BY <1>1, <1>2, <1>3, <1>4, CommitBatchType

LEMMA EmptyTable ==
    ASSUME NEW t, t = << >>
    PROVE  Table(t) /\ DOMAIN t = {} /\ \A a : Legs(t, a) = {}
<1>1. DOMAIN t = {} /\ t = [i \in {} |-> i]
  OBVIOUS
<1>. QED BY <1>1 DEF Table, Legs, OutLegs, InLegs

LEMMA WipeAllType ==
    ASSUME TypeOK, WipeAll
    PROVE  TypeOK'
<1>1. Table(txs') /\ DOMAIN txs' = {}
  BY EmptyTable DEF WipeAll
<1>2. Columns(chain')
  BY TypeParts, TrimmedType DEF WipeAll
<1>3. DOMAIN acct' = DOMAIN acct /\ acct' \in [DOMAIN acct -> [opening : Int, balance : Int]]
  BY DEF WipeAll, TypeOK
<1>. QED BY <1>1, <1>2, <1>3 DEF WipeAll, TypeOK, Table, Columns, Idle

LEMMA CreateAccountType ==
    ASSUME TypeOK, NEW a \in Accounts, NEW opening \in Openings, CreateAccount(a, opening)
    PROVE  TypeOK'
<1>1. opening \in Int
  BY LedgerAssumption
<1>2. DOMAIN acct' = DOMAIN acct \cup {a}
      /\ acct' \in [DOMAIN acct' -> [opening : Int, balance : Int]]
  BY <1>1 DEF CreateAccount, TypeOK
<1>3. todo' = <<>> /\ todo' \in Seq(DOMAIN acct')
  BY EmptySeq DEF CreateAccount, Idle
<1>. QED BY <1>2, <1>3 DEF CreateAccount, TypeOK, Idle

LEMMA DeleteAccountType ==
    ASSUME TypeOK, NEW a \in Accounts, DeleteAccount(a)
    PROVE  TypeOK'
<1> DEFINE mine == {i \in DOMAIN txs : a \in Touches(txs[i])}
           gone == WithChildren(txs, mine)
           left == (UNION {Touches(txs[i]) : i \in {j \in gone : txs[j].parent = None}}) \ {a}
           t == Without(txs, gone)
<1>1. /\ txs' = t /\ chain' = Trimmed(chain, txs')
      /\ driftTotal' = (driftTotal \cup left) \ {a}
      /\ driftChain' = (driftChain \cup left) \ {a}
      /\ Fault \/ NoFault
      /\ acct' = [x \in DOMAIN acct \ {a} |-> acct[x]]
      /\ UNCHANGED <<todo, walked, edit>> /\ todo = <<>>
  BY DEF DeleteAccount, Idle
<1>2. Table(t) /\ DOMAIN t = DOMAIN txs \ gone /\ \A j \in DOMAIN txs \ gone : t[j] = txs[j]
  BY TypeParts, WithoutType
<1>3. mine \subseteq gone /\ gone \subseteq DOMAIN txs
  BY DEF WithChildren
<1>4. left \subseteq DOMAIN acct
  <2>1. \A i \in gone : Touches(txs[i]) \subseteq DOMAIN acct
    BY <1>3 DEF TypeOK
  <2>. HIDE DEF gone
  <2>. QED BY <2>1
<1>5. DOMAIN acct' = DOMAIN acct \ {a}
      /\ acct' \in [DOMAIN acct' -> [opening : Int, balance : Int]]
  BY <1>1 DEF TypeOK
<1>6. Columns(chain')
  BY <1>1, TypeParts, TrimmedType
<1>7. ASSUME NEW j \in DOMAIN t PROVE Touches(t[j]) \subseteq DOMAIN acct'
  <2>1. j \in DOMAIN txs /\ j \notin mine /\ t[j] = txs[j]
    BY <1>2, <1>3
  <2>. QED BY <2>1, <1>5 DEF TypeOK
<1>8. faults' \in 0 .. MaxFaults
  BY <1>1, FaultBounds
<1>9. todo' = <<>> /\ todo' \in Seq(DOMAIN acct')
  BY <1>1, EmptySeq
<1>. HIDE DEF t, left, gone, mine
<1>10. driftTotal' \subseteq DOMAIN acct' /\ driftChain' \subseteq DOMAIN acct'
  BY <1>1, <1>4, <1>5 DEF TypeOK
<1>. QED BY <1>1, <1>2, <1>5, <1>6, <1>7, <1>8, <1>9, <1>10 DEF TypeOK, Table, Columns, Idle

(* What an editor has read, and what it may become. *)
LEMMA EditTypes ==
    ASSUME TypeOK, NEW h \in Editors, NEW e \in Edit \cup {None}
    PROVE  /\ edit[h] = None \/ edit[h] \in Edit
           /\ [edit EXCEPT ![h] = e] \in [Editors -> Edit \cup {None}]
BY DEF TypeOK

LEMMA ReadAccountType ==
    ASSUME TypeOK, NEW h \in Editors, NEW a \in Accounts, NEW kind \in EditKinds, ReadAccount(h, a, kind)
    PROVE  TypeOK'
<1> DEFINE e == [kind |-> kind, id |-> a, opening |-> acct[a].opening, balance |-> acct[a].balance]
<1>1. acct[a] \in [opening : Int, balance : Int]
  BY DEF ReadAccount, TypeOK
<1>2. e \in Edit
  BY <1>1 DEF Edit
<1>3. edit' = [edit EXCEPT ![h] = e]
  BY DEF ReadAccount
<1>. HIDE DEF e
<1>4. edit' \in [Editors -> Edit \cup {None}]
  BY <1>2, <1>3, EditTypes
<1>. QED BY <1>4 DEF ReadAccount, TypeOK, Idle

LEMMA WritePutType ==
    ASSUME TypeOK, NEW h \in Editors, NEW opening \in Openings \cup {None},
           NEW balance \in Openings \cup {None}, WritePut(h, opening, balance)
    PROVE  TypeOK'
<1> DEFINE a == edit[h].id
           new == [opening |-> IF opening = None THEN edit[h].opening ELSE opening,
                   balance |-> IF balance = None THEN edit[h].balance ELSE balance]
           due == [edit[h] EXCEPT !.kind = "rebuild"]
<1>1. edit[h] \in Edit
  BY EditTypes DEF WritePut, Editing
<1>2. new \in [opening : Int, balance : Int] /\ due \in Edit
  BY <1>1, LedgerAssumption DEF Edit
<1>3. faults' \in 0 .. MaxFaults
  <2>1. Fault \/ NoFault \/ UNCHANGED faults
    BY DEF WritePut
  <2>. QED BY <2>1, FaultBounds
<1>4. UNCHANGED <<txs, chain, todo, walked>>
  BY DEF WritePut
<1>5. edit' \in [Editors -> Edit \cup {None}]
  <2>1. edit' = [edit EXCEPT ![h] = None] \/ edit' = [edit EXCEPT ![h] = due]
    BY DEF WritePut
  <2>. HIDE DEF due
  <2>. QED BY <1>2, <2>1, EditTypes
<1>. HIDE DEF due
<1>6. CASE a \notin DOMAIN acct
  <2>1. UNCHANGED <<acct, driftTotal, driftChain, faults>>
    BY <1>6 DEF WritePut
  <2>. QED BY <1>4, <1>5, <2>1 DEF TypeOK, Idle
<1>7. CASE a \in DOMAIN acct
  <2>1. /\ acct' = [acct EXCEPT ![a] = new]
        /\ driftTotal' \subseteq driftTotal \cup {a}
        /\ driftChain' \subseteq driftChain \cup {a}
    BY <1>7 DEF WritePut
  <2>. HIDE DEF new
  <2>2. DOMAIN acct' = DOMAIN acct /\ acct' \in [DOMAIN acct' -> [opening : Int, balance : Int]]
    BY <1>2, <1>7, <2>1 DEF TypeOK
  <2>. QED BY <1>3, <1>4, <1>5, <1>7, <2>1, <2>2 DEF TypeOK, Idle
<1>. QED BY <1>6, <1>7

LEMMA RebuildEditedType ==
    ASSUME TypeOK, NEW h \in Editors, RebuildEdited(h)
    PROVE  TypeOK'
<1>1. edit' \in [Editors -> Edit \cup {None}]
  BY EditTypes DEF RebuildEdited
<1>2. todo' \in Seq(DOMAIN acct)
  <2>1. CASE edit[h].id \in DOMAIN acct
    <3>1. todo' = <<edit[h].id>>
      BY <2>1 DEF RebuildEdited
    <3>. QED BY <2>1, <3>1
  <2>2. CASE edit[h].id \notin DOMAIN acct
    BY <2>2, EmptySeq DEF RebuildEdited
  <2>. QED BY <2>1, <2>2
<1>. QED BY <1>1, <1>2 DEF RebuildEdited, TypeOK, Idle

LEMMA WriteRecalculatedType ==
    ASSUME TypeOK, NEW h \in Editors, WriteRecalculated(h)
    PROVE  TypeOK'
<1> DEFINE a == edit[h].id
           new == Total(txs, a, edit[h].opening)
<1>1. edit[h] \in Edit
  BY EditTypes DEF WriteRecalculated, Editing
<1>2. new \in Int
  BY <1>1, TypeParts, TotalType DEF Edit
<1>3. faults' \in 0 .. MaxFaults
  <2>1. Fault \/ NoFault \/ UNCHANGED faults
    BY DEF WriteRecalculated
  <2>. QED BY <2>1, FaultBounds
<1>4. UNCHANGED <<txs, chain, todo, walked, driftChain>> /\ edit' \in [Editors -> Edit \cup {None}]
  BY EditTypes DEF WriteRecalculated
<1>5. CASE a \notin DOMAIN acct
  BY <1>3, <1>4, <1>5 DEF WriteRecalculated, TypeOK, Idle
<1>6. CASE a \in DOMAIN acct
  <2>1. /\ acct' = [acct EXCEPT ![a].balance = new]
        /\ driftTotal' \subseteq driftTotal \cup {a}
    BY <1>6 DEF WriteRecalculated
  <2>. HIDE DEF new
  <2>2. DOMAIN acct' = DOMAIN acct /\ acct' \in [DOMAIN acct' -> [opening : Int, balance : Int]]
    BY <1>2, <1>6, <2>1 DEF TypeOK
  <2>. QED BY <1>3, <1>4, <1>6, <2>1, <2>2 DEF TypeOK, Idle
<1>. QED BY <1>5, <1>6

LEMMA AbandonEditType ==
    ASSUME TypeOK, NEW h \in Editors, AbandonEdit(h)
    PROVE  TypeOK'
<1>1. edit' \in [Editors -> Edit \cup {None}]
  BY EditTypes DEF AbandonEdit
<1>. QED BY <1>1 DEF AbandonEdit, TypeOK, Idle

LEMMA RebuildAccountType ==
    ASSUME TypeOK, NEW a \in Accounts, RebuildAccount(a)
    PROVE  TypeOK'
<1>1. todo' \in Seq(DOMAIN acct)
  BY DEF RebuildAccount
<1>. QED BY <1>1 DEF RebuildAccount, TypeOK, Idle

(* Every step keeps the types. *)
LEMMA NextType ==
    ASSUME TypeOK, [Next]_vars
    PROVE  TypeOK'
<1>1. CASE \E i \in TxIds, type \in Types, dir \in Directions \cup {None},
              a, b \in MaybeAccount, net \in Amounts, date \in Dates :
              CreateTx(i, [type |-> type, dir |-> dir, account |-> a, toAccount |-> b,
                           parent |-> None, net |-> net, date |-> date])
  <2>1. PICK i \in TxIds, type \in Types, dir \in Directions \cup {None},
             a \in MaybeAccount, b \in MaybeAccount, net \in Amounts, date \in Dates :
             CreateTx(i, [type |-> type, dir |-> dir, account |-> a, toAccount |-> b,
                          parent |-> None, net |-> net, date |-> date])
    BY <1>1
  <2>2. [type |-> type, dir |-> dir, account |-> a, toAccount |-> b,
         parent |-> None, net |-> net, date |-> date] \in Row
    <3>1. net \in Int /\ type \in TransactionTypes
      BY AmountsAreCents, LedgerAssumption
    <3>. QED BY <3>1 DEF Row, MaybeAccount
  <2>. QED BY <2>1, <2>2, CreateTxType
<1>2. CASE \E i \in TxIds, type \in Types, a, b \in MaybeAccount,
              net \in Amounts, date \in Dates : UpdateTx(i, type, a, b, net, date)
  BY <1>2, UpdateTxType
<1>3. CASE \E i \in TxIds : DeleteTx(i)
  BY <1>3, DeleteTxType
<1>4. CASE WalkRows
  BY <1>4, WalkRowsType
<1>5. CASE WriteTotal
  BY <1>5, WriteTotalType
<1>6. CASE Interrupt
  BY <1>6, InterruptType
<1>7. CASE \E i, p \in TxIds, net \in Amounts : CreateChild(i, p, net)
  BY <1>7, CreateChildType
<1>8. CASE \E i \in TxIds : DeleteChild(i)
  BY <1>8, DeleteChildType
<1>9. CASE \E anchor \in TxIds, ids \in SUBSET TxIds, date \in Dates :
              \E pay \in [ids -> [account : Accounts, net : Amounts]] :
                CreatePurchase(anchor, pay, date)
  <2>1. PICK anchor \in TxIds, ids \in SUBSET TxIds, date \in Dates :
               \E pay \in [ids -> [account : Accounts, net : Amounts]] :
                 CreatePurchase(anchor, pay, date)
    BY <1>9
  <2>2. PICK pay \in [ids -> [account : Accounts, net : Amounts]] :
               CreatePurchase(anchor, pay, date)
    BY <2>1
  <2>3. pay \in Payments
    BY DEF Payments
  <2>. QED BY <2>2, <2>3, CreatePurchaseType
<1>10. CASE \E ids \in SUBSET TxIds : DeleteRows(ids)
  BY <1>10, DeleteRowsType
<1>11. CASE WipeAll
  BY <1>11, WipeAllType
<1>12. CASE \E a \in Accounts, opening \in Openings : CreateAccount(a, opening)
  BY <1>12, CreateAccountType
<1>13. CASE \E a \in Accounts : DeleteAccount(a)
  BY <1>13, DeleteAccountType
<1>14. CASE \E h \in Editors, a \in Accounts, kind \in EditKinds : ReadAccount(h, a, kind)
  BY <1>14, ReadAccountType
<1>15. CASE \E h \in Editors, opening, balance \in Openings \cup {None} : WritePut(h, opening, balance)
  BY <1>15, WritePutType
<1>16. CASE \E h \in Editors : WriteRecalculated(h)
  BY <1>16, WriteRecalculatedType
<1>17. CASE \E h \in Editors : AbandonEdit(h) \/ RebuildEdited(h)
  BY <1>17, AbandonEditType, RebuildEditedType
<1>18. CASE \E a \in Accounts : RebuildAccount(a)
  BY <1>18, RebuildAccountType
<1>19. CASE UNCHANGED vars
  BY <1>19 DEF vars, TypeOK, Idle
<1>. QED
  BY <1>1, <1>2, <1>3, <1>4, <1>5, <1>6, <1>7, <1>8, <1>9, <1>10, <1>11, <1>12,
     <1>13, <1>14, <1>15, <1>16, <1>17, <1>18, <1>19 DEF Next

(* The variables of the ledger always hold what their columns may hold, and *)
(* every row, edit and owed rebuild names something that exists.            *)
THEOREM TypesAreKept == Spec => []TypeOK
<1>1. Init => TypeOK
  BY InitType
<1>2. TypeOK /\ [Next]_vars => TypeOK'
  BY NextType
<1>. QED BY <1>1, <1>2, PTL DEF Spec

-----------------------------------------------------------------------------
(* The total of an account. *)

(* A step that leaves the top-level rows of x and its two figures alone     *)
(* leaves a right total right.                                              *)
LEMMA TotalFrame ==
    ASSUME TypeOK, NEW x \in DOMAIN acct, x \in DOMAIN acct', acct'[x] = acct[x],
           Mine(txs, x) = Mine(txs', x), \A i \in Mine(txs, x) : txs'[i] = txs[i],
           TotalIsRight(x)
    PROVE  TotalIsRight(x)'
<1>1. x # None
  BY LedgerAssumption DEF TypeOK
<1>2. Legs(txs, x) = Legs(txs', x)
  BY <1>1, LegsFrame
<1>. QED BY <1>2 DEF TotalIsRight, Total

(* With a step's table t: what it changes of Mine.                          *)
LEMMA MineWith ==
    ASSUME NEW t, Table(t), NEW i \in TxIds, NEW r \in Row, NEW x,
           x \notin Touches(r) \/ r.parent # None,
           i \in DOMAIN t => x \notin Touches(t[i]) \/ t[i].parent # None
    PROVE  Mine(t, x) = Mine(With(t, i, r), x)
           /\ \A j \in Mine(t, x) : With(t, i, r)[j] = t[j]
<1>1. DOMAIN With(t, i, r) = DOMAIN t \cup {i} /\ With(t, i, r)[i] = r
      /\ \A j \in DOMAIN t \ {i} : With(t, i, r)[j] = t[j]
  BY WithType
<1>2. i \notin Mine(t, x) /\ i \notin Mine(With(t, i, r), x)
  BY <1>1 DEF Mine
<1>. QED BY <1>1, <1>2 DEF Mine

LEMMA MineWithout ==
    ASSUME NEW t, Table(t), NEW ids, NEW x,
           \A i \in ids \cap DOMAIN t : x \notin Touches(t[i]) \/ t[i].parent # None
    PROVE  Mine(t, x) = Mine(Without(t, ids), x)
           /\ \A j \in Mine(t, x) : Without(t, ids)[j] = t[j]
<1>1. DOMAIN Without(t, ids) = DOMAIN t \ ids
      /\ \A j \in DOMAIN t \ ids : Without(t, ids)[j] = t[j]
  BY WithoutType
<1>. QED BY <1>1 DEF Mine

LEMMA CreateTxSound ==
    ASSUME TypeOK, BalanceSound, NEW i \in TxIds, NEW r \in Row, CreateTx(i, r)
    PROVE  BalanceSound'
<1>1. SUFFICES ASSUME NEW x \in DOMAIN acct', x \notin driftTotal' \cup Pending'
               PROVE  TotalIsRight(x)'
  BY DEF BalanceSound
<1>2. Pending' = Touches(r) /\ Pending = {} /\ UNCHANGED <<acct, driftTotal>>
  BY RowFacts DEF CreateTx, Idle, Pending, Range
<1>3. TotalIsRight(x)
  BY <1>1, <1>2 DEF BalanceSound
<1>4. txs' = With(txs, i, r) /\ i \notin DOMAIN txs /\ x \notin Touches(r)
  BY <1>1, <1>2 DEF CreateTx
<1>5. Mine(txs, x) = Mine(txs', x) /\ \A j \in Mine(txs, x) : txs'[j] = txs[j]
  BY <1>4, TypeParts, MineWith
<1>. QED BY <1>1, <1>2, <1>3, <1>5, TotalFrame

LEMMA UpdateTxSound ==
    ASSUME TypeOK, BalanceSound, NEW i \in TxIds, NEW type \in Types, NEW a \in MaybeAccount,
           NEW b \in MaybeAccount, NEW net \in Amounts, NEW date \in Dates,
           UpdateTx(i, type, a, b, net, date)
    PROVE  BalanceSound'
<1> DEFINE new == [txs[i] EXCEPT !.type = type, !.account = a, !.toAccount = b,
                                 !.net = net, !.date = date]
<1>1. SUFFICES ASSUME NEW x \in DOMAIN acct', x \notin driftTotal' \cup Pending'
               PROVE  TotalIsRight(x)'
  BY DEF BalanceSound
<1>2. /\ i \in DOMAIN txs /\ txs[i] \in Row /\ txs' = With(txs, i, new)
      /\ todo' = RebuildList(new) \o RebuildList(txs[i]) /\ Pending = {}
      /\ UNCHANGED <<acct, driftTotal>>
  BY DEF UpdateTx, TypeOK, Idle, Pending, Range
<1>3. new \in Row
  <2>1. net \in Int /\ type \in TransactionTypes
    BY AmountsAreCents, LedgerAssumption
  <2>. QED BY <1>2, <2>1 DEF Row, MaybeAccount
<1>. HIDE DEF new
<1>4. Pending' = Touches(new) \cup Touches(txs[i])
  <2>1. /\ RebuildList(new) \in Seq(Accounts) /\ RebuildList(txs[i]) \in Seq(Accounts)
        /\ Range(RebuildList(new)) = Touches(new)
        /\ Range(RebuildList(txs[i])) = Touches(txs[i])
    BY <1>2, <1>3, RowFacts
  <2>2. Range(todo') = Touches(new) \cup Touches(txs[i])
    BY <1>2, <2>1, ConcatRange
  <2>. QED BY <2>2 DEF Pending
<1>5. TotalIsRight(x)
  BY <1>1, <1>2 DEF BalanceSound
<1>6. Mine(txs, x) = Mine(txs', x) /\ \A j \in Mine(txs, x) : txs'[j] = txs[j]
  BY <1>1, <1>2, <1>3, <1>4, TypeParts, MineWith
<1>. QED BY <1>1, <1>2, <1>5, <1>6, TotalFrame

LEMMA DeleteTxSound ==
    ASSUME TypeOK, BalanceSound, NEW i \in TxIds, DeleteTx(i)
    PROVE  BalanceSound'
<1>1. SUFFICES ASSUME NEW x \in DOMAIN acct', x \notin driftTotal' \cup Pending'
               PROVE  TotalIsRight(x)'
  BY DEF BalanceSound
<1>2. Pending = {} /\ UNCHANGED <<acct, driftTotal>> /\ txs' = Without(txs, {i})
      /\ todo' = RebuildList(txs[i]) /\ txs[i] \in Row
  BY DEF DeleteTx, Idle, Pending, Range, TypeOK
<1>3. Pending' = Touches(txs[i])
  BY <1>2, RowFacts DEF Pending
<1>4. TotalIsRight(x)
  BY <1>1, <1>2 DEF BalanceSound
<1>5. Mine(txs, x) = Mine(txs', x) /\ \A j \in Mine(txs, x) : txs'[j] = txs[j]
  BY <1>1, <1>2, <1>3, TypeParts, MineWithout
<1>. QED BY <1>1, <1>2, <1>4, <1>5, TotalFrame

LEMMA WriteTotalSound ==
    ASSUME TypeOK, BalanceSound, WriteTotal
    PROVE  BalanceSound'
<1> DEFINE h == Head(todo)
<1>1. SUFFICES ASSUME NEW x \in DOMAIN acct', x \notin driftTotal' \cup Pending'
               PROVE  TotalIsRight(x)'
  BY DEF BalanceSound
<1>2. /\ acct' = [acct EXCEPT ![h].balance = Total(txs, h, acct[h].opening)]
      /\ driftTotal' = driftTotal \ {h} /\ todo' = Tail(todo) /\ txs' = txs
  BY DEF WriteTotal
<1>3. h \in DOMAIN acct /\ acct[h] \in [opening : Int, balance : Int]
      /\ Pending = {h} \cup Range(Tail(todo))
  BY HeadFacts DEF WriteTotal
<1>. HIDE DEF h
<1>4. acct \in [DOMAIN acct -> [opening : Int, balance : Int]]
  BY DEF TypeOK
<1>5. CASE x = h
  BY <1>2, <1>3, <1>4, <1>5 DEF TotalIsRight
<1>6. CASE x # h
  <2>1. x \in DOMAIN acct /\ x \notin driftTotal \cup Pending /\ acct'[x] = acct[x]
    BY <1>1, <1>2, <1>3, <1>4, <1>6 DEF Pending
  <2>2. TotalIsRight(x)
    BY <2>1 DEF BalanceSound
  <2>. QED BY <1>2, <2>1, <2>2 DEF TotalIsRight
<1>. QED BY <1>5, <1>6

LEMMA InterruptSound ==
    ASSUME TypeOK, BalanceSound, Interrupt
    PROVE  BalanceSound'
<1>1. driftTotal' = driftTotal \cup Pending /\ UNCHANGED <<acct, txs>>
  BY DEF Interrupt
<1>. QED BY <1>1 DEF BalanceSound, TotalIsRight

LEMMA CreateChildSound ==
    ASSUME TypeOK, BalanceSound, NEW i \in TxIds, NEW p \in TxIds, NEW net \in Amounts,
           CreateChild(i, p, net)
    PROVE  BalanceSound'
<1> DEFINE r == [txs[p] EXCEPT !.parent = p, !.net = net, !.toAccount = None, !.dir = None]
<1>1. SUFFICES ASSUME NEW x \in DOMAIN acct', x \notin driftTotal' \cup Pending'
               PROVE  TotalIsRight(x)'
  BY DEF BalanceSound
<1>2. UNCHANGED <<acct, todo, driftTotal>> /\ txs' = With(txs, i, r)
      /\ i \notin DOMAIN txs /\ txs[p] \in Row
  BY DEF CreateChild, TypeOK
<1>3. r \in Row /\ r.parent # None
  <2>1. net \in Int /\ p # None
    BY AmountsAreCents, LedgerAssumption
  <2>. QED BY <1>2, <2>1 DEF Row
<1>. HIDE DEF r
<1>4. x \in DOMAIN acct /\ acct'[x] = acct[x] /\ TotalIsRight(x)
  BY <1>1, <1>2 DEF BalanceSound, Pending
<1>5. Mine(txs, x) = Mine(txs', x) /\ \A j \in Mine(txs, x) : txs'[j] = txs[j]
  BY <1>2, <1>3, TypeParts, MineWith
<1>. QED BY <1>1, <1>4, <1>5, TotalFrame

LEMMA DeleteChildSound ==
    ASSUME TypeOK, BalanceSound, NEW i \in TxIds, DeleteChild(i)
    PROVE  BalanceSound'
<1>1. SUFFICES ASSUME NEW x \in DOMAIN acct', x \notin driftTotal' \cup Pending'
               PROVE  TotalIsRight(x)'
  BY DEF BalanceSound
<1>2. UNCHANGED <<acct, todo, driftTotal>> /\ txs' = Without(txs, {i})
      /\ txs[i].parent # None
  BY DEF DeleteChild
<1>3. x \in DOMAIN acct /\ acct'[x] = acct[x] /\ TotalIsRight(x)
  BY <1>1, <1>2 DEF BalanceSound, Pending
<1>4. Mine(txs, x) = Mine(txs', x) /\ \A j \in Mine(txs, x) : txs'[j] = txs[j]
  BY <1>2, TypeParts, MineWithout, SMTT(30)
<1>. QED BY <1>1, <1>3, <1>4, TotalFrame

(* A batch is sound if the accounts it does not rebuild keep their rows.    *)
LEMMA CommitBatchSound ==
    ASSUME TypeOK, BalanceSound, NEW t, NEW as, CommitBatch(t, as),
           \A x \in DOMAIN acct \ as :
              Mine(txs, x) = Mine(t, x) /\ \A j \in Mine(txs, x) : t[j] = txs[j]
    PROVE  BalanceSound'
<1>1. SUFFICES ASSUME NEW x \in DOMAIN acct', x \notin driftTotal' \cup Pending'
               PROVE  TotalIsRight(x)'
  BY DEF BalanceSound
<1>2. /\ txs' = t /\ todo' = todo /\ driftTotal' = driftTotal \ as
      /\ acct' = RebuiltTotals(acct, t, as)
  BY DEF CommitBatch
<1>3. DOMAIN acct' = DOMAIN acct
  BY <1>2 DEF RebuiltTotals
<1>4. acct[x] \in [opening : Int, balance : Int]
  BY <1>1, <1>3 DEF TypeOK
<1>5. CASE x \in as
  <2>1. acct'[x] = [acct[x] EXCEPT !.balance = Total(t, x, acct[x].opening)]
    BY <1>1, <1>2, <1>3, <1>5 DEF RebuiltTotals
  <2>. QED BY <1>2, <1>4, <2>1 DEF TotalIsRight
<1>6. CASE x \notin as
  <2>1. acct'[x] = acct[x]
    BY <1>1, <1>2, <1>3, <1>6 DEF RebuiltTotals
  <2>2. TotalIsRight(x)
    BY <1>1, <1>2, <1>3, <1>6 DEF BalanceSound, Pending
  <2>. QED BY <1>1, <1>2, <1>3, <1>6, <2>1, <2>2, TotalFrame
<1>. QED BY <1>5, <1>6

LEMMA CreatePurchaseSound ==
    ASSUME TypeOK, BalanceSound, NEW anchor \in TxIds, NEW pay \in Payments, NEW date \in Dates,
           CreatePurchase(anchor, pay, date)
    PROVE  BalanceSound'
<1> DEFINE new == PurchaseRows(anchor, pay, date)
           t == AddRows(txs, new)
           as == PaidFrom(pay)
<1>1. Purchased(new, t, as)
  BY PurchaseFacts
<1>. HIDE DEF new, t, as
<1>2. ASSUME NEW x \in DOMAIN acct \ as
      PROVE  Mine(txs, x) = Mine(t, x) /\ \A j \in Mine(txs, x) : t[j] = txs[j]
  BY <1>1 DEF Mine, Purchased
<1>. QED BY <1>1, <1>2, CommitBatchSound DEF Purchased

LEMMA DeleteRowsSound ==
    ASSUME TypeOK, BalanceSound, NEW ids \in SUBSET TxIds, DeleteRows(ids)
    PROVE  BalanceSound'
<1> DEFINE gone == WithChildren(txs, ids)
           t == Without(txs, gone)
           as == UNION {Touches(txs[i]) : i \in ids}
<1>1. CommitBatch(t, as) /\ ids \subseteq DOMAIN txs
  BY DEF DeleteRows
<1>2. ASSUME NEW x \in DOMAIN acct \ as
      PROVE  Mine(txs, x) = Mine(t, x) /\ \A j \in Mine(txs, x) : t[j] = txs[j]
  <2>1. \A i \in ids : x \notin Touches(txs[i])
    BY <1>2
  <2>2. None \notin ids
    BY LedgerAssumption
  <2>3. \A i \in gone \cap DOMAIN txs : x \notin Touches(txs[i]) \/ txs[i].parent # None
    BY <2>1, <2>2 DEF WithChildren
  <2>. HIDE DEF gone
  <2>. QED BY <2>3, TypeParts, MineWithout
<1>. HIDE DEF t, as
<1>. QED BY <1>1, <1>2, CommitBatchSound

LEMMA WipeAllSound ==
    ASSUME TypeOK, BalanceSound, WipeAll
    PROVE  BalanceSound'
<1>1. SUFFICES ASSUME NEW x \in DOMAIN acct' PROVE TotalIsRight(x)'
  BY DEF BalanceSound
<1>2. txs' = << >> /\ acct' = [a \in DOMAIN acct |-> [acct[a] EXCEPT !.balance = acct[a].opening]]
  BY DEF WipeAll
<1>3. Legs(txs', x) = {}
  BY <1>2, EmptyTable
<1>4. SumDelta(Legs(txs', x)) = 0
  BY <1>3, SumDeltaEmpty
<1>5. /\ acct[x] \in [opening : Int, balance : Int]
      /\ acct'[x].balance = acct[x].opening /\ acct'[x].opening = acct[x].opening
  BY <1>1, <1>2 DEF TypeOK
<1>. QED BY <1>4, <1>5 DEF TotalIsRight, Total

LEMMA CreateAccountSound ==
    ASSUME TypeOK, BalanceSound, NEW a \in Accounts, NEW opening \in Openings,
           CreateAccount(a, opening)
    PROVE  BalanceSound'
<1>1. SUFFICES ASSUME NEW x \in DOMAIN acct', x \notin driftTotal' \cup Pending'
               PROVE  TotalIsRight(x)'
  BY DEF BalanceSound
<1>2. /\ a \notin DOMAIN acct /\ UNCHANGED <<txs, todo, driftTotal>>
      /\ acct' = [y \in DOMAIN acct \cup {a} |->
                    IF y = a THEN [opening |-> opening, balance |-> opening] ELSE acct[y]]
  BY DEF CreateAccount
<1>3. CASE x = a
  <2>1. acct'[x].opening = opening /\ acct'[x].balance = opening /\ opening \in Int
    BY <1>2, <1>3, LedgerAssumption
  <2>2. Legs(txs, x) = {}
    <3>1. \A i \in DOMAIN txs : x \notin Touches(txs[i])
      BY <1>2, <1>3 DEF TypeOK
    <3>2. x # None
      BY <1>3, LedgerAssumption
    <3>3. \A i \in DOMAIN txs : txs[i].account # x /\ txs[i].toAccount # x
      BY <3>1, <3>2 DEF Touches
    <3>. QED BY <3>3 DEF Legs, OutLegs, InLegs
  <2>3. SumDelta(Legs(txs, x)) = 0
    BY <2>2, SumDeltaEmpty
  <2>. QED BY <1>2, <2>1, <2>3 DEF TotalIsRight, Total
<1>4. CASE x # a
  <2>1. x \in DOMAIN acct /\ acct'[x] = acct[x] /\ TotalIsRight(x)
    BY <1>1, <1>2, <1>4 DEF BalanceSound, Pending
  <2>. QED BY <1>2, <2>1 DEF TotalIsRight
<1>. QED BY <1>3, <1>4

LEMMA DeleteAccountSound ==
    ASSUME TypeOK, BalanceSound, NEW a \in Accounts, DeleteAccount(a)
    PROVE  BalanceSound'
<1> DEFINE mine == {i \in DOMAIN txs : a \in Touches(txs[i])}
           gone == WithChildren(txs, mine)
           left == (UNION {Touches(txs[i]) : i \in {j \in gone : txs[j].parent = None}}) \ {a}
<1>1. SUFFICES ASSUME NEW x \in DOMAIN acct', x \notin driftTotal' \cup Pending'
               PROVE  TotalIsRight(x)'
  BY DEF BalanceSound
<1>2. /\ txs' = Without(txs, gone) /\ todo' = todo
      /\ driftTotal' = (driftTotal \cup left) \ {a}
      /\ acct' = [y \in DOMAIN acct \ {a} |-> acct[y]]
  BY DEF DeleteAccount
<1>3. \A i \in gone \cap DOMAIN txs : x \in Touches(txs[i]) /\ txs[i].parent = None => x \in left \cup {a}
  <2>. HIDE DEF gone
  <2>. QED OBVIOUS
<1>. HIDE DEF left, gone
<1>4. x \in DOMAIN acct /\ x # a /\ acct'[x] = acct[x] /\ x \notin left
      /\ x \notin driftTotal \cup Pending
  BY <1>1, <1>2 DEF Pending
<1>5. TotalIsRight(x)
  BY <1>4 DEF BalanceSound
<1>6. Mine(txs, x) = Mine(txs', x) /\ \A j \in Mine(txs, x) : txs'[j] = txs[j]
  BY <1>2, <1>3, <1>4, TypeParts, MineWithout
<1>. QED BY <1>1, <1>4, <1>5, <1>6, TotalFrame

LEMMA WritePutSound ==
    ASSUME TypeOK, BalanceSound, NEW h \in Editors, NEW opening \in Openings \cup {None},
           NEW balance \in Openings \cup {None}, WritePut(h, opening, balance)
    PROVE  BalanceSound'
<1> DEFINE a == edit[h].id
           new == [opening |-> IF opening = None THEN edit[h].opening ELSE opening,
                   balance |-> IF balance = None THEN edit[h].balance ELSE balance]
<1>1. UNCHANGED <<txs, todo>>
  BY DEF WritePut
<1>2. CASE a \notin DOMAIN acct
  <2>1. UNCHANGED <<acct, driftTotal>>
    BY <1>2 DEF WritePut
  <2>. QED BY <1>1, <2>1 DEF BalanceSound, TotalIsRight, Pending
<1>3. CASE a \in DOMAIN acct
  <2>1. acct' = [acct EXCEPT ![a] = new]
        /\ driftTotal' = IF new = acct[a] THEN driftTotal ELSE driftTotal \cup {a}
    BY <1>3 DEF WritePut
  <2>. HIDE DEF a, new
  <2>2. acct \in [DOMAIN acct -> [opening : Int, balance : Int]]
    BY DEF TypeOK
  <2>3. SUFFICES ASSUME NEW x \in DOMAIN acct', x \notin driftTotal' \cup Pending'
                 PROVE  TotalIsRight(x)'
    BY DEF BalanceSound
  <2>4. x \in DOMAIN acct /\ acct'[x] = acct[x] /\ x \notin driftTotal \cup Pending
    BY <1>1, <1>3, <2>1, <2>2, <2>3 DEF Pending
  <2>5. TotalIsRight(x)
    BY <1>1, <2>4 DEF BalanceSound
  <2>. QED BY <1>1, <2>4, <2>5 DEF TotalIsRight
<1>. QED BY <1>2, <1>3

LEMMA WriteRecalculatedSound ==
    ASSUME TypeOK, BalanceSound, NEW h \in Editors, WriteRecalculated(h)
    PROVE  BalanceSound'
<1> DEFINE a == edit[h].id
<1>1. txs' = txs /\ todo' = todo
  BY DEF WriteRecalculated
<1>2. CASE a \notin DOMAIN acct
  <2>1. UNCHANGED <<acct, driftTotal>>
    BY <1>2 DEF WriteRecalculated
  <2>. QED BY <1>1, <2>1 DEF BalanceSound, TotalIsRight, Pending
<1>3. CASE a \in DOMAIN acct
  <2>1. /\ acct' = [acct EXCEPT ![a].balance = Total(txs, a, edit[h].opening)]
        /\ driftTotal' = IF edit[h].opening = acct[a].opening
                          THEN driftTotal \ {a} ELSE driftTotal \cup {a}
    BY <1>3 DEF WriteRecalculated
  <2>. HIDE DEF a
  <2>2. acct \in [DOMAIN acct -> [opening : Int, balance : Int]]
    BY DEF TypeOK
  <2>3. SUFFICES ASSUME NEW x \in DOMAIN acct', x \notin driftTotal' \cup Pending'
                 PROVE  TotalIsRight(x)'
    BY DEF BalanceSound
  <2>4. CASE x = a
    <3>1. edit[h].opening = acct[a].opening
      BY <2>1, <2>3, <2>4
    <3>. QED BY <1>1, <1>3, <2>1, <2>2, <2>4, <3>1 DEF TotalIsRight
  <2>5. CASE x # a
    <3>1. x \in DOMAIN acct /\ acct'[x] = acct[x] /\ x \notin driftTotal \cup Pending
      BY <1>1, <2>1, <2>2, <2>3, <2>5 DEF Pending
    <3>2. TotalIsRight(x)
      BY <3>1 DEF BalanceSound
    <3>. QED BY <1>1, <3>1, <3>2 DEF TotalIsRight
  <2>. QED BY <2>4, <2>5
<1>. QED BY <1>2, <1>3

LEMMA NextSound ==
    ASSUME TypeOK, BalanceSound, [Next]_vars
    PROVE  BalanceSound'
<1>1. CASE \E i \in TxIds, type \in Types, dir \in Directions \cup {None},
              a, b \in MaybeAccount, net \in Amounts, date \in Dates :
              CreateTx(i, [type |-> type, dir |-> dir, account |-> a, toAccount |-> b,
                           parent |-> None, net |-> net, date |-> date])
  <2>1. PICK i \in TxIds, type \in Types, dir \in Directions \cup {None},
             a \in MaybeAccount, b \in MaybeAccount, net \in Amounts, date \in Dates :
             CreateTx(i, [type |-> type, dir |-> dir, account |-> a, toAccount |-> b,
                          parent |-> None, net |-> net, date |-> date])
    BY <1>1
  <2>2. [type |-> type, dir |-> dir, account |-> a, toAccount |-> b,
         parent |-> None, net |-> net, date |-> date] \in Row
    <3>1. net \in Int /\ type \in TransactionTypes
      BY AmountsAreCents, LedgerAssumption
    <3>. QED BY <3>1 DEF Row, MaybeAccount
  <2>. QED BY <2>1, <2>2, CreateTxSound
<1>2. CASE \E i \in TxIds, type \in Types, a, b \in MaybeAccount,
              net \in Amounts, date \in Dates : UpdateTx(i, type, a, b, net, date)
  BY <1>2, UpdateTxSound
<1>3. CASE \E i \in TxIds : DeleteTx(i)
  BY <1>3, DeleteTxSound
<1>4. CASE WalkRows
  BY <1>4 DEF WalkRows, BalanceSound, TotalIsRight, Pending
<1>5. CASE WriteTotal
  BY <1>5, WriteTotalSound
<1>6. CASE Interrupt
  BY <1>6, InterruptSound
<1>7. CASE \E i, p \in TxIds, net \in Amounts : CreateChild(i, p, net)
  BY <1>7, CreateChildSound
<1>8. CASE \E i \in TxIds : DeleteChild(i)
  BY <1>8, DeleteChildSound
<1>9. CASE \E anchor \in TxIds, ids \in SUBSET TxIds, date \in Dates :
              \E pay \in [ids -> [account : Accounts, net : Amounts]] :
                CreatePurchase(anchor, pay, date)
  <2>1. PICK anchor \in TxIds, ids \in SUBSET TxIds, date \in Dates :
               \E pay \in [ids -> [account : Accounts, net : Amounts]] :
                 CreatePurchase(anchor, pay, date)
    BY <1>9
  <2>2. PICK pay \in [ids -> [account : Accounts, net : Amounts]] :
               CreatePurchase(anchor, pay, date)
    BY <2>1
  <2>3. pay \in Payments
    BY DEF Payments
  <2>. QED BY <2>2, <2>3, CreatePurchaseSound
<1>10. CASE \E ids \in SUBSET TxIds : DeleteRows(ids)
  BY <1>10, DeleteRowsSound
<1>11. CASE WipeAll
  BY <1>11, WipeAllSound
<1>12. CASE \E a \in Accounts, opening \in Openings : CreateAccount(a, opening)
  BY <1>12, CreateAccountSound
<1>13. CASE \E a \in Accounts : DeleteAccount(a)
  BY <1>13, DeleteAccountSound
<1>14. CASE \E h \in Editors, a \in Accounts, kind \in EditKinds : ReadAccount(h, a, kind)
  BY <1>14 DEF ReadAccount, BalanceSound, TotalIsRight, Pending
<1>15. CASE \E h \in Editors, opening, balance \in Openings \cup {None} : WritePut(h, opening, balance)
  BY <1>15, WritePutSound
<1>16. CASE \E h \in Editors : WriteRecalculated(h)
  BY <1>16, WriteRecalculatedSound
<1>17. CASE \E h \in Editors : AbandonEdit(h) \/ RebuildEdited(h)
  <2>1. CASE \E h \in Editors : AbandonEdit(h)
    BY <2>1 DEF AbandonEdit, BalanceSound, TotalIsRight, Pending
  <2>2. CASE \E h \in Editors : RebuildEdited(h)
    <3>1. Pending = {} /\ UNCHANGED <<acct, txs, driftTotal>>
      BY <2>2 DEF RebuildEdited, Idle, Pending, Range
    <3>. QED BY <3>1 DEF BalanceSound, TotalIsRight
  <2>. QED BY <1>17, <2>1, <2>2
<1>18. CASE \E a \in Accounts : RebuildAccount(a)
  <2>1. Pending = {} /\ UNCHANGED <<acct, txs, driftTotal>>
    BY <1>18 DEF RebuildAccount, Idle, Pending, Range
  <2>. QED BY <2>1 DEF BalanceSound, TotalIsRight
<1>19. CASE UNCHANGED vars
  BY <1>19 DEF vars, BalanceSound, TotalIsRight, Pending
<1>. QED
  BY <1>1, <1>2, <1>3, <1>4, <1>5, <1>6, <1>7, <1>8, <1>9, <1>10, <1>11, <1>12,
     <1>13, <1>14, <1>15, <1>16, <1>17, <1>18, <1>19 DEF Next

(* Whatever is posted, moved, split, deleted, wiped or interrupted, and in  *)
(* whatever order: an account whose rebuild was neither skipped nor lost    *)
(* has exactly its opening balance plus what its rows apply.                *)
THEOREM BalancesAddUp == Spec => []BalanceSound
<1>1. Init => TypeOK /\ BalanceSound
  <2>1. Init => BalanceSound
    BY DEF Init, BalanceSound
  <2>. QED BY <2>1, InitType
<1>2. TypeOK /\ BalanceSound /\ [Next]_vars => TypeOK' /\ BalanceSound'
  BY NextType, NextSound
<1>. QED BY <1>1, <1>2, PTL DEF Spec

-----------------------------------------------------------------------------
(* The chain of an account. *)

(* What the walk of the chain computes for a leg: the running balance       *)
(* before it and after it.                                                  *)
Step(legs, o, l) ==
    [before |-> RunningAt(legs, o, l), after |-> RunningAt(legs, o, l) + l.delta]

(* The columns of every row of account x hold what the walk computes.       *)
Walked(c, t, x, o) == \A l \in Legs(t, x) : c[<<l.id, l.side>>] = Step(Legs(t, x), o, l)

ChainIsWalked(x) == Walked(chain, txs, x, acct[x].opening)

(* The account whose rows the rebuild in progress has already rewritten.    *)
Rewritten == IF walked THEN {Head(todo)} ELSE {}

(* ChainSound is not inductive: between the two halves of rebuild_chain the *)
(* account is still owed its total, and is already walked.                  *)
ChainInv ==
    \A x \in DOMAIN acct :
        x \notin driftChain /\ x \notin Pending \ Rewritten => ChainIsWalked(x)

(* A leg is one row's effect on one of its two accounts.                    *)
LEMMA LegFacts ==
    ASSUME NEW t, Table(t), NEW x, NEW l \in Legs(t, x)
    PROVE  /\ l.id \in DOMAIN t /\ l.id \in TxIds /\ l.id \in Nat
           /\ l.date = t[l.id].date /\ l.date \in Nat
           /\ l.side \in Sides
           /\ l.delta \in Int
<1>1. l \in OutLegs(t, x) \/ l \in InLegs(t, x)
  BY DEF Legs
<1>2. PICK i \in DOMAIN t :
        \/ /\ l = [date |-> t[i].date, id |-> i, side |-> 0, delta |-> SourceDelta(t[i])]
           /\ t[i].account = x
        \/ /\ l = [date |-> t[i].date, id |-> i, side |-> 1, delta |-> t[i].net]
           /\ t[i].toAccount = x
  BY <1>1 DEF OutLegs, InLegs
<1>3. t[i] \in Row /\ i \in TxIds /\ i \in Nat
  BY LedgerAssumption DEF Table
<1>4. t[i].date \in Nat /\ t[i].net \in Int /\ SourceDelta(t[i]) \in Int
  <2>1. t[i].date \in Dates /\ Dates \subseteq Nat
    BY <1>3, LedgerAssumption DEF Row
  <2>. QED BY <1>3, <2>1, RowFacts
<1>. QED BY <1>2, <1>3, <1>4 DEF Sides

LEMMA ColumnOfLeg ==
    ASSUME NEW t, Table(t), NEW x, NEW l \in Legs(t, x)
    PROVE  <<l.id, l.side>> \in TxIds \X Sides
BY LegFacts

(* The account a leg belongs to, read back from its row.                    *)
Owner(t, l) == IF l.side = 0 THEN t[l.id].account ELSE t[l.id].toAccount

LEMMA OwnerOfLeg ==
    ASSUME NEW t, Table(t), NEW x, NEW l \in Legs(t, x)
    PROVE  Owner(t, l) = x
<1>1. l \in OutLegs(t, x) \/ l \in InLegs(t, x)
  BY DEF Legs
<1>2. PICK i \in DOMAIN t :
        \/ /\ l = [date |-> t[i].date, id |-> i, side |-> 0, delta |-> SourceDelta(t[i])]
           /\ t[i].account = x
        \/ /\ l = [date |-> t[i].date, id |-> i, side |-> 1, delta |-> t[i].net]
           /\ t[i].toAccount = x
  BY <1>1 DEF OutLegs, InLegs
<1>. QED BY <1>2 DEF Owner

(* A column belongs to one leg of one account.                              *)
LEMMA KeyIsUnique ==
    ASSUME NEW t, Table(t), NEW x, NEW y, NEW l \in Legs(t, x), NEW m \in Legs(t, y),
           l.id = m.id, l.side = m.side
    PROVE  x = y /\ l = m
<1>1. x = y
  <2>1. Owner(t, l) = x /\ Owner(t, m) = y
    BY OwnerOfLeg
  <2>2. Owner(t, l) = Owner(t, m)
    BY DEF Owner
  <2>. QED BY <2>1, <2>2
<1>2. (\A q \in OutLegs(t, x) : q.side = 0) /\ (\A q \in InLegs(t, x) : q.side = 1)
  BY DEF OutLegs, InLegs
<1>3. l \in OutLegs(t, x) \/ l \in InLegs(t, x)
  BY DEF Legs
<1>4. m \in OutLegs(t, x) \/ m \in InLegs(t, x)
  BY <1>1 DEF Legs
<1>5. CASE l \in OutLegs(t, x)
  <2>1. l.side = 0
    BY <1>2, <1>5
  <2>2. m.side = 0
    BY <2>1
  <2>3. m \in OutLegs(t, x)
    BY <1>2, <1>4, <2>2
  <2>4. \A p, q \in OutLegs(t, x) : p.id = q.id => p = q
    BY DEF OutLegs
  <2>. QED BY <1>1, <1>5, <2>3, <2>4
<1>6. CASE l \in InLegs(t, x)
  <2>1. l.side = 1
    BY <1>2, <1>6
  <2>2. m.side = 1
    BY <2>1
  <2>3. m \in InLegs(t, x)
    BY <1>2, <1>4, <2>2
  <2>4. \A p, q \in InLegs(t, x) : p.id = q.id => p = q
    BY DEF InLegs
  <2>. QED BY <1>1, <1>6, <2>3, <2>4
<1>. QED BY <1>3, <1>5, <1>6

(* The walk writes what it computes into the columns of the legs it did,    *)
(* and no other account's.                                                  *)
LEMMA WriteLegsAt ==
    ASSUME NEW c, Columns(c), NEW t, Table(t), NEW x, NEW o,
           NEW done, done \subseteq Legs(t, x), NEW y, NEW m \in Legs(t, y)
    PROVE  WriteLegs(c, Legs(t, x), o, done)[<<m.id, m.side>>] =
             IF m \in done
             THEN Step(Legs(t, x), o, m)
             ELSE c[<<m.id, m.side>>]
<1> DEFINE k == <<m.id, m.side>>
<1>1. k \in TxIds \X Sides /\ k \in DOMAIN c
  BY ColumnOfLeg DEF Columns
<1>2. \A l \in done : <<l.id, l.side>> = k => l = m
  BY KeyIsUnique
<1>3. CASE m \in done
  <2>1. \E l \in done : <<l.id, l.side>> = k
    BY <1>3
  <2>2. (CHOOSE l \in done : <<l.id, l.side>> = k) = m
    <3>. HIDE DEF k
    <3>. QED BY <1>2, <2>1
  <2>. HIDE DEF k
  <2>. QED BY <1>1, <1>3, <2>1, <2>2 DEF WriteLegs, Step, k
<1>4. CASE m \notin done
  <2>1. ~\E l \in done : <<l.id, l.side>> = k
    BY <1>2, <1>4
  <2>. HIDE DEF k
  <2>2. WriteLegs(c, Legs(t, x), o, done)[k] = c[k]
    BY <1>1, <2>1 DEF WriteLegs
  <2>. QED BY <1>4, <2>2 DEF k
<1>. QED BY <1>3, <1>4

LEMMA TrimmedAt ==
    ASSUME NEW c, Columns(c), NEW t, Table(t), NEW x \in Accounts, NEW m \in Legs(t, x)
    PROVE  Trimmed(c, t)[<<m.id, m.side>>] = c[<<m.id, m.side>>]
<1>1. <<m.id, m.side>> \in DOMAIN c
  BY ColumnOfLeg DEF Columns
<1>. QED BY <1>1 DEF Trimmed

(* Two accounts have no column in common. *)
LEMMA ColumnOfOne ==
    ASSUME NEW t, Table(t), NEW x, NEW y, NEW m \in Legs(t, x), NEW l \in Legs(t, y),
           <<l.id, l.side>> = <<m.id, m.side>>
    PROVE  y = x
BY KeyIsUnique

(* The columns of a leg. *)
ColumnOf(c, l) == c[<<l.id, l.side>>]

(* A rebuild of the accounts owed writes the columns of their legs, and no  *)
(* others.                                                                  *)
LEMMA RebuiltChainOwed ==
    ASSUME NEW c, Columns(c), NEW t, Table(t), NEW ac, NEW owed, NEW x \in owed,
           NEW m \in Legs(t, x), NEW o, o = ac[x].opening
    PROVE  ColumnOf(RebuiltChain(c, ac, t, owed), m) = Step(Legs(t, x), o, m)
<1> DEFINE k == <<m.id, m.side>>
           Has(a) == \E l \in Legs(t, a) : <<l.id, l.side>> = k
<1>1. k \in DOMAIN c
  BY ColumnOfLeg DEF Columns
<1>2. ASSUME NEW a, Has(a) PROVE a = x
  BY <1>2, ColumnOfOne
<1>3. Has(x)
  OBVIOUS
<1>4. RebuiltChain(c, ac, t, owed)[k] =
        IF \E a \in owed : Has(a)
        THEN LET a == CHOOSE a \in owed : Has(a)
             IN  WriteLegs(c, Legs(t, a), ac[a].opening, Legs(t, a))[k]
        ELSE c[k]
  BY <1>1 DEF RebuiltChain
<1>5. (CHOOSE a \in owed : Has(a)) = x /\ \E a \in owed : Has(a)
  <2>. HIDE DEF Has
  <2>. QED BY <1>2, <1>3
<1>. HIDE DEF Has, k
<1>6. RebuiltChain(c, ac, t, owed)[k] = WriteLegs(c, Legs(t, x), o, Legs(t, x))[k]
  BY <1>4, <1>5
<1>7. WriteLegs(c, Legs(t, x), o, Legs(t, x))[k] = Step(Legs(t, x), o, m)
  BY WriteLegsAt DEF k
<1>. QED BY <1>6, <1>7 DEF k, ColumnOf

LEMMA RebuiltChainOther ==
    ASSUME NEW c, Columns(c), NEW t, Table(t), NEW ac, NEW owed, NEW x, x \notin owed,
           NEW m \in Legs(t, x)
    PROVE  ColumnOf(RebuiltChain(c, ac, t, owed), m) = ColumnOf(c, m)
<1> DEFINE k == <<m.id, m.side>>
           Has(a) == \E l \in Legs(t, a) : <<l.id, l.side>> = k
<1>1. k \in DOMAIN c
  BY ColumnOfLeg DEF Columns
<1>2. ASSUME NEW a, Has(a) PROVE a = x
  BY <1>2, ColumnOfOne
<1>3. ~\E a \in owed : Has(a)
  <2>. HIDE DEF Has
  <2>. QED BY <1>2
<1>. QED BY <1>1, <1>3 DEF RebuiltChain, ColumnOf

(* The walk of the whole chain leaves it walked. *)
LEMMA WalkIsWalked ==
    ASSUME NEW c, Columns(c), NEW t, Table(t), NEW x, NEW o
    PROVE  Walked(WriteLegs(c, Legs(t, x), o, Legs(t, x)), t, x, o)
<1> DEFINE d == WriteLegs(c, Legs(t, x), o, Legs(t, x))
<1>1. ASSUME NEW l \in Legs(t, x)
      PROVE  d[<<l.id, l.side>>] = Step(Legs(t, x), o, l)
  BY WriteLegsAt
<1>. HIDE DEF d
<1>2. Walked(d, t, x, o)
  BY <1>1 DEF Walked
<1>. QED BY <1>2 DEF d

(* A step that leaves the top-level rows of x, its opening balance and the  *)
(* columns of its rows alone leaves its chain walked.                       *)
LEMMA WalkedFrame ==
    ASSUME NEW t, NEW u, NEW c, NEW d, NEW x, x # None, NEW o, Walked(c, t, x, o),
           Mine(t, x) = Mine(u, x), \A i \in Mine(t, x) : t[i] = u[i],
           \A l \in Legs(u, x) : d[<<l.id, l.side>>] = c[<<l.id, l.side>>]
    PROVE  Walked(d, u, x, o)
<1>1. Legs(t, x) = Legs(u, x)
  BY LegsFrame
<1>. QED BY <1>1 DEF Walked

LEMMA ChainFrame ==
    ASSUME TypeOK, NEW x \in DOMAIN acct, acct'[x].opening = acct[x].opening,
           Mine(txs, x) = Mine(txs', x), \A i \in Mine(txs, x) : txs'[i] = txs[i],
           \A l \in Legs(txs', x) : chain'[<<l.id, l.side>>] = chain[<<l.id, l.side>>],
           ChainIsWalked(x)
    PROVE  ChainIsWalked(x)'
<1>1. x # None
  BY LedgerAssumption DEF TypeOK
<1>2. Walked(chain', txs', x, acct[x].opening)
  BY <1>1, WalkedFrame DEF ChainIsWalked
<1>. QED BY <1>2 DEF ChainIsWalked

(* The accounts whose chain a state vouches for, when no rebuild is owed.   *)
LEMMA IdleChain ==
    ASSUME TypeOK, ChainInv, Idle
    PROVE  Pending = {} /\ ~walked /\ \A x \in DOMAIN acct \ driftChain : ChainIsWalked(x)
<1>1. Pending = {} /\ ~walked
  BY DEF Idle, Pending, Range, TypeOK
<1>. QED BY <1>1 DEF ChainInv

(* A step from an idle ledger whose columns are at most trimmed keeps the   *)
(* chains of the accounts it neither rebuilds nor leaves behind.            *)
LEMMA IdleStep ==
    ASSUME TypeOK, ChainInv, Idle, TypeOK', walked' = walked,
           chain' = chain \/ chain' = Trimmed(chain, txs'),
           \A x \in DOMAIN acct' : x \notin driftChain' /\ x \notin Pending' =>
              \/ /\ x \in DOMAIN acct \ driftChain
                 /\ acct'[x].opening = acct[x].opening
                 /\ Mine(txs, x) = Mine(txs', x)
                 /\ \A i \in Mine(txs, x) : txs'[i] = txs[i]
              \/ Legs(txs', x) = {}
    PROVE  ChainInv'
<1>1. SUFFICES ASSUME NEW x \in DOMAIN acct', x \notin driftChain', x \notin Pending'
               PROVE  ChainIsWalked(x)'
  BY IdleChain DEF ChainInv, Rewritten
<1>2. CASE Legs(txs', x) = {}
  BY <1>2 DEF ChainIsWalked, Walked
<1>3. CASE /\ x \in DOMAIN acct \ driftChain
           /\ acct'[x].opening = acct[x].opening
           /\ Mine(txs, x) = Mine(txs', x)
           /\ \A i \in Mine(txs, x) : txs'[i] = txs[i]
  <2>1. ChainIsWalked(x)
    BY <1>3, IdleChain
  <2>2. Table(txs') /\ Columns(chain) /\ x \in Accounts
    BY <1>1 DEF TypeOK, Table, Columns
  <2>3. ASSUME NEW l \in Legs(txs', x)
        PROVE  chain'[<<l.id, l.side>>] = chain[<<l.id, l.side>>]
    <3>1. Trimmed(chain, txs')[<<l.id, l.side>>] = chain[<<l.id, l.side>>]
      BY <2>2, TrimmedAt
    <3>. QED BY <3>1
  <2>. QED BY <1>3, <2>1, <2>3, ChainFrame
<1>. QED BY <1>1, <1>2, <1>3

LEMMA CreateTxChain ==
    ASSUME TypeOK, ChainInv, TypeOK', NEW i \in TxIds, NEW r \in Row, CreateTx(i, r)
    PROVE  ChainInv'
<1>1. Pending' = Touches(r) /\ UNCHANGED <<acct, chain, walked, driftChain>>
      /\ txs' = With(txs, i, r) /\ i \notin DOMAIN txs /\ Idle
  BY RowFacts DEF CreateTx, Pending
<1>2. ASSUME NEW x \in DOMAIN acct, x \notin Pending'
      PROVE  Mine(txs, x) = Mine(txs', x) /\ \A j \in Mine(txs, x) : txs'[j] = txs[j]
  BY <1>1, <1>2, TypeParts, MineWith
<1>. QED BY <1>1, <1>2, IdleStep

LEMMA UpdateTxChain ==
    ASSUME TypeOK, ChainInv, TypeOK', NEW i \in TxIds, NEW type \in Types,
           NEW a \in MaybeAccount, NEW b \in MaybeAccount, NEW net \in Amounts,
           NEW date \in Dates, UpdateTx(i, type, a, b, net, date)
    PROVE  ChainInv'
<1> DEFINE new == [txs[i] EXCEPT !.type = type, !.account = a, !.toAccount = b,
                                 !.net = net, !.date = date]
<1>1. /\ i \in DOMAIN txs /\ txs[i] \in Row /\ txs' = With(txs, i, new)
      /\ todo' = RebuildList(new) \o RebuildList(txs[i]) /\ Idle
      /\ UNCHANGED <<acct, walked, driftChain>> /\ chain' = Trimmed(chain, txs')
  BY DEF UpdateTx, TypeOK
<1>2. new \in Row
  <2>1. net \in Int /\ type \in TransactionTypes
    BY AmountsAreCents, LedgerAssumption
  <2>. QED BY <1>1, <2>1 DEF Row, MaybeAccount
<1>. HIDE DEF new
<1>3. Pending' = Touches(new) \cup Touches(txs[i])
  <2>1. /\ RebuildList(new) \in Seq(Accounts) /\ RebuildList(txs[i]) \in Seq(Accounts)
        /\ Range(RebuildList(new)) = Touches(new)
        /\ Range(RebuildList(txs[i])) = Touches(txs[i])
    BY <1>1, <1>2, RowFacts
  <2>2. Range(todo') = Touches(new) \cup Touches(txs[i])
    BY <1>1, <2>1, ConcatRange
  <2>. QED BY <2>2 DEF Pending
<1>4. ASSUME NEW x \in DOMAIN acct, x \notin Pending'
      PROVE  Mine(txs, x) = Mine(txs', x) /\ \A j \in Mine(txs, x) : txs'[j] = txs[j]
  BY <1>1, <1>2, <1>3, <1>4, TypeParts, MineWith
<1>. QED BY <1>1, <1>4, IdleStep

LEMMA DeleteTxChain ==
    ASSUME TypeOK, ChainInv, TypeOK', NEW i \in TxIds, DeleteTx(i)
    PROVE  ChainInv'
<1>1. UNCHANGED <<acct, walked, driftChain>> /\ txs' = Without(txs, {i}) /\ Idle
      /\ chain' = Trimmed(chain, txs')
      /\ todo' = RebuildList(txs[i]) /\ txs[i] \in Row
  BY DEF DeleteTx, TypeOK
<1>2. Pending' = Touches(txs[i])
  BY <1>1, RowFacts DEF Pending
<1>3. ASSUME NEW x \in DOMAIN acct, x \notin Pending'
      PROVE  Mine(txs, x) = Mine(txs', x) /\ \A j \in Mine(txs, x) : txs'[j] = txs[j]
  BY <1>1, <1>2, <1>3, TypeParts, MineWithout
<1>. QED BY <1>1, <1>3, IdleStep

(* Walking the chain of one account touches no other account's.             *)
LEMMA WalkOfAnother ==
    ASSUME TypeOK, NEW h, NEW o, NEW done, done \subseteq Legs(txs, h),
           chain' = WriteLegs(chain, Legs(txs, h), o, done), UNCHANGED txs,
           NEW x \in DOMAIN acct, acct'[x].opening = acct[x].opening,
           x # h \/ done = {}, ChainIsWalked(x)
    PROVE  ChainIsWalked(x)'
<1>1. Table(txs) /\ Columns(chain)
  BY TypeParts
<1>2. ASSUME NEW l \in Legs(txs, x)
      PROVE  chain'[<<l.id, l.side>>] = chain[<<l.id, l.side>>]
  <2>1. l \notin done
    BY <1>1, KeyIsUnique
  <2>2. WriteLegs(chain, Legs(txs, h), o, done)[<<l.id, l.side>>] =
           IF l \in done
           THEN Step(Legs(txs, h), o, l)
           ELSE chain[<<l.id, l.side>>]
    BY <1>1, WriteLegsAt
  <2>. QED BY <2>1, <2>2
<1>. QED BY <1>2, ChainFrame

LEMMA WalkRowsChain ==
    ASSUME TypeOK, ChainInv, WalkRows
    PROVE  ChainInv'
<1> DEFINE h == Head(todo)
<1>1. /\ chain' = WriteLegs(chain, Legs(txs, h), acct[h].opening, Legs(txs, h))
      /\ driftChain' = driftChain \ {h} /\ UNCHANGED <<acct, txs, todo>>
      /\ ~walked /\ walked' = TRUE
  BY DEF WalkRows
<1>2. SUFFICES ASSUME NEW x \in DOMAIN acct, x \notin driftChain \ {h}, x \notin Pending \ {h}
               PROVE  ChainIsWalked(x)'
  BY <1>1 DEF ChainInv, Rewritten, Pending
<1>3. CASE x = h
  BY <1>1, <1>3, TypeParts, WalkIsWalked DEF ChainIsWalked
<1>4. CASE x # h
  <2>1. ChainIsWalked(x)
    BY <1>1, <1>2, <1>4 DEF ChainInv
  <2>. QED BY <1>1, <1>4, <2>1, WalkOfAnother
<1>. QED BY <1>3, <1>4

LEMMA WriteTotalChain ==
    ASSUME TypeOK, ChainInv, WriteTotal
    PROVE  ChainInv'
<1> DEFINE h == Head(todo)
<1>1. /\ acct' = [acct EXCEPT ![h].balance = Total(txs, h, acct[h].opening)]
      /\ todo' = Tail(todo) /\ UNCHANGED <<txs, chain, driftChain>>
      /\ walked /\ walked' = FALSE
  BY DEF WriteTotal
<1>2. h \in DOMAIN acct /\ acct[h] \in [opening : Int, balance : Int]
      /\ Pending = {h} \cup Range(Tail(todo))
  BY HeadFacts DEF WriteTotal
<1>. HIDE DEF h
<1>3. SUFFICES ASSUME NEW x \in DOMAIN acct, x \notin driftChain, x \notin Range(Tail(todo))
               PROVE  ChainIsWalked(x)'
  BY <1>1 DEF ChainInv, Rewritten, Pending
<1>4. ChainIsWalked(x)
  BY <1>1, <1>2, <1>3 DEF ChainInv, Rewritten, h
<1>5. acct \in [DOMAIN acct -> [opening : Int, balance : Int]]
  BY DEF TypeOK
<1>6. acct'[x].opening = acct[x].opening
  BY <1>1, <1>2, <1>5
<1>. QED BY <1>1, <1>4, <1>6 DEF ChainIsWalked

LEMMA InterruptChain ==
    ASSUME TypeOK, ChainInv, Interrupt
    PROVE  ChainInv'
<1> DEFINE h == Head(todo)
<1>1. PICK done \in SUBSET Legs(txs, h) :
        /\ chain' = WriteLegs(chain, Legs(txs, h), acct[h].opening, done)
        /\ walked => done = {}
  BY DEF Interrupt
<1>2. /\ driftChain' = driftChain \cup (IF walked THEN Pending \ {h} ELSE Pending)
      /\ UNCHANGED <<acct, txs>> /\ walked' = FALSE
  BY DEF Interrupt
<1>3. h \in Pending
  BY HeadFacts DEF Interrupt
<1>4. SUFFICES ASSUME NEW x \in DOMAIN acct, x \notin driftChain'
               PROVE  ChainIsWalked(x)'
  BY <1>2 DEF ChainInv
<1>5. ChainIsWalked(x)
  BY <1>2, <1>4 DEF ChainInv, Rewritten
<1>6. x # h \/ done = {}
  BY <1>1, <1>2, <1>3, <1>4
<1>. QED BY <1>1, <1>2, <1>5, <1>6, WalkOfAnother

LEMMA CreateChildChain ==
    ASSUME TypeOK, ChainInv, TypeOK', NEW i \in TxIds, NEW p \in TxIds, NEW net \in Amounts,
           CreateChild(i, p, net)
    PROVE  ChainInv'
<1> DEFINE r == [txs[p] EXCEPT !.parent = p, !.net = net, !.toAccount = None, !.dir = None]
<1>1. UNCHANGED <<acct, chain, todo, walked, driftChain>> /\ txs' = With(txs, i, r)
      /\ i \notin DOMAIN txs /\ txs[p] \in Row /\ Idle
  BY DEF CreateChild, TypeOK
<1>2. r \in Row /\ r.parent # None
  <2>1. net \in Int /\ p # None
    BY AmountsAreCents, LedgerAssumption
  <2>. QED BY <1>1, <2>1 DEF Row
<1>. HIDE DEF r
<1>3. ASSUME NEW x \in DOMAIN acct
      PROVE  Mine(txs, x) = Mine(txs', x) /\ \A j \in Mine(txs, x) : txs'[j] = txs[j]
  BY <1>1, <1>2, TypeParts, MineWith
<1>. QED BY <1>1, <1>3, IdleStep

LEMMA DeleteChildChain ==
    ASSUME TypeOK, ChainInv, TypeOK', NEW i \in TxIds, DeleteChild(i)
    PROVE  ChainInv'
<1>1. UNCHANGED <<acct, todo, walked, driftChain>> /\ txs' = Without(txs, {i})
      /\ txs[i].parent # None /\ chain' = Trimmed(chain, txs') /\ Idle
  BY DEF DeleteChild
<1>2. ASSUME NEW x \in DOMAIN acct
      PROVE  Mine(txs, x) = Mine(txs', x) /\ \A j \in Mine(txs, x) : txs'[j] = txs[j]
  <2>1. \A j \in {i} \cap DOMAIN txs : x \notin Touches(txs[j]) \/ txs[j].parent # None
    BY <1>1
  <2>2. Mine(txs, x) = Mine(Without(txs, {i}), x)
        /\ \A j \in Mine(txs, x) : Without(txs, {i})[j] = txs[j]
    BY <2>1, TypeParts, MineWithout
  <2>. QED BY <1>1, <2>2
<1>. QED BY <1>1, <1>2, IdleStep

(* A batch walks the chains of the accounts it rebuilds, and must leave the *)
(* rows of the others alone.                                                *)
LEMMA CommitBatchChain ==
    ASSUME TypeOK, ChainInv, TypeOK', NEW t, Table(t), NEW owed, CommitBatch(t, owed),
           \A x \in DOMAIN acct \ owed :
              Mine(txs, x) = Mine(t, x) /\ \A j \in Mine(txs, x) : t[j] = txs[j]
    PROVE  ChainInv'
<1> DEFINE c == Trimmed(chain, t)
<1>1. /\ txs' = t /\ todo' = todo /\ walked' = walked /\ driftChain' = driftChain \ owed
      /\ acct' = RebuiltTotals(acct, t, owed) /\ chain' = RebuiltChain(c, acct, t, owed)
      /\ Idle
  BY DEF CommitBatch
<1>2. DOMAIN acct' = DOMAIN acct /\ \A x \in DOMAIN acct : acct'[x].opening = acct[x].opening
  BY <1>1 DEF RebuiltTotals, TypeOK
<1>3. Columns(c) /\ Columns(chain)
  BY TypeParts, TrimmedType
<1>4. SUFFICES ASSUME NEW x \in DOMAIN acct, x \notin driftChain \ owed
               PROVE  ChainIsWalked(x)'
  BY <1>1, <1>2 DEF ChainInv
<1>5. x \in Accounts /\ x # None
  BY LedgerAssumption DEF TypeOK
<1>. HIDE DEF c
<1>6. CASE x \in owed
  <2> DEFINE o == acct[x].opening
  <2>1. acct'[x].opening = o /\ o = acct[x].opening
    BY <1>2
  <2>. HIDE DEF o
  <2>2. ASSUME NEW l \in Legs(t, x)
        PROVE  chain'[<<l.id, l.side>>] = Step(Legs(t, x), o, l)
    <3>1. ColumnOf(RebuiltChain(c, acct, t, owed), l) = Step(Legs(t, x), o, l)
      BY <1>3, <1>6, <2>1, RebuiltChainOwed
    <3>. QED BY <1>1, <3>1 DEF ColumnOf
  <2>3. Walked(chain', t, x, o)
    BY <2>2 DEF Walked
  <2>. QED BY <1>1, <2>1, <2>3 DEF ChainIsWalked
<1>7. CASE x \notin owed
  <2>1. ChainIsWalked(x)
    BY <1>1, <1>4, <1>7, IdleChain
  <2>2. ASSUME NEW l \in Legs(t, x)
        PROVE  chain'[<<l.id, l.side>>] = chain[<<l.id, l.side>>]
    <3>1. ColumnOf(RebuiltChain(c, acct, t, owed), l) = ColumnOf(c, l)
      BY <1>3, <1>7, RebuiltChainOther
    <3>2. Trimmed(chain, t)[<<l.id, l.side>>] = chain[<<l.id, l.side>>]
      BY <1>3, <1>5, TrimmedAt
    <3>. QED BY <1>1, <3>1, <3>2 DEF c, ColumnOf
  <2>. QED BY <1>1, <1>2, <1>7, <2>1, <2>2, ChainFrame
<1>. QED BY <1>6, <1>7

LEMMA CreatePurchaseChain ==
    ASSUME TypeOK, ChainInv, TypeOK', NEW anchor \in TxIds, NEW pay \in Payments,
           NEW date \in Dates, CreatePurchase(anchor, pay, date)
    PROVE  ChainInv'
<1> DEFINE new == PurchaseRows(anchor, pay, date)
           t == AddRows(txs, new)
           as == PaidFrom(pay)
<1>1. Purchased(new, t, as)
  BY PurchaseFacts
<1>. HIDE DEF new, t, as
<1>2. ASSUME NEW x \in DOMAIN acct \ as
      PROVE  Mine(txs, x) = Mine(t, x) /\ \A j \in Mine(txs, x) : t[j] = txs[j]
  BY <1>1 DEF Mine, Purchased
<1>3. Table(t) /\ CommitBatch(t, as)
  BY <1>1 DEF Purchased
<1>. QED BY <1>2, <1>3, CommitBatchChain

LEMMA DeleteRowsChain ==
    ASSUME TypeOK, ChainInv, TypeOK', NEW ids \in SUBSET TxIds, DeleteRows(ids)
    PROVE  ChainInv'
<1> DEFINE gone == WithChildren(txs, ids)
           t == Without(txs, gone)
           as == UNION {Touches(txs[i]) : i \in ids}
<1>1. CommitBatch(t, as) /\ ids \subseteq DOMAIN txs
  BY DEF DeleteRows
<1>2. ASSUME NEW x \in DOMAIN acct \ as
      PROVE  Mine(txs, x) = Mine(t, x) /\ \A j \in Mine(txs, x) : t[j] = txs[j]
  <2>1. \A i \in ids : x \notin Touches(txs[i])
    BY <1>2
  <2>2. None \notin ids
    BY LedgerAssumption
  <2>3. \A i \in gone \cap DOMAIN txs : x \notin Touches(txs[i]) \/ txs[i].parent # None
    BY <2>1, <2>2 DEF WithChildren
  <2>. HIDE DEF gone
  <2>. QED BY <2>3, TypeParts, MineWithout
<1>3. Table(t)
  BY TypeParts, WithoutType
<1>. HIDE DEF t, as
<1>. QED BY <1>1, <1>2, <1>3, CommitBatchChain

LEMMA WipeAllChain ==
    ASSUME TypeOK, ChainInv, TypeOK', WipeAll
    PROVE  ChainInv'
<1>1. \A x : Legs(txs', x) = {}
  BY EmptyTable DEF WipeAll
<1>2. Idle /\ walked' = walked /\ chain' = Trimmed(chain, txs')
  BY DEF WipeAll
<1>. QED BY <1>1, <1>2, IdleStep

LEMMA CreateAccountChain ==
    ASSUME TypeOK, ChainInv, TypeOK', NEW a \in Accounts, NEW opening \in Openings,
           CreateAccount(a, opening)
    PROVE  ChainInv'
<1>1. /\ a \notin DOMAIN acct /\ UNCHANGED <<txs, chain, todo, walked, driftChain>> /\ Idle
      /\ acct' = [y \in DOMAIN acct \cup {a} |->
                    IF y = a THEN [opening |-> opening, balance |-> opening] ELSE acct[y]]
  BY DEF CreateAccount
<1>2. Legs(txs', a) = {}
  <2>1. \A i \in DOMAIN txs : a \notin Touches(txs[i])
    BY <1>1 DEF TypeOK
  <2>2. a # None
    BY LedgerAssumption
  <2>3. \A i \in DOMAIN txs : txs[i].account # a /\ txs[i].toAccount # a
    BY <2>1, <2>2 DEF Touches
  <2>. QED BY <1>1, <2>3 DEF Legs, OutLegs, InLegs
<1>3. ASSUME NEW x \in DOMAIN acct', x # a
      PROVE  /\ x \in DOMAIN acct /\ acct'[x].opening = acct[x].opening
             /\ Mine(txs, x) = Mine(txs', x)
             /\ \A i \in Mine(txs, x) : txs'[i] = txs[i]
  BY <1>1, <1>3
<1>. QED BY <1>1, <1>2, <1>3, IdleStep

LEMMA DeleteAccountChain ==
    ASSUME TypeOK, ChainInv, TypeOK', NEW a \in Accounts, DeleteAccount(a)
    PROVE  ChainInv'
<1> DEFINE mine == {i \in DOMAIN txs : a \in Touches(txs[i])}
           gone == WithChildren(txs, mine)
           left == (UNION {Touches(txs[i]) : i \in {j \in gone : txs[j].parent = None}}) \ {a}
<1>1. /\ txs' = Without(txs, gone) /\ UNCHANGED <<todo, walked>> /\ Idle
      /\ driftChain' = (driftChain \cup left) \ {a} /\ chain' = Trimmed(chain, txs')
      /\ acct' = [y \in DOMAIN acct \ {a} |-> acct[y]]
  BY DEF DeleteAccount
<1>2. \A x : \A i \in gone \cap DOMAIN txs :
         x \in Touches(txs[i]) /\ txs[i].parent = None => x \in left \cup {a}
  <2>. HIDE DEF gone
  <2>. QED OBVIOUS
<1>. HIDE DEF left, gone
<1>3. ASSUME NEW x \in DOMAIN acct', x \notin driftChain'
      PROVE  /\ x \in DOMAIN acct \ driftChain /\ acct'[x].opening = acct[x].opening
             /\ Mine(txs, x) = Mine(txs', x)
             /\ \A i \in Mine(txs, x) : txs'[i] = txs[i]
  <2>1. x \in DOMAIN acct /\ x # a /\ acct'[x] = acct[x] /\ x \notin left
        /\ x \notin driftChain
    BY <1>1, <1>3
  <2>. QED BY <1>1, <1>2, <2>1, TypeParts, MineWithout
<1>. QED BY <1>1, <1>3, IdleStep

LEMMA WritePutChain ==
    ASSUME TypeOK, ChainInv, TypeOK', NEW h \in Editors, NEW opening \in Openings \cup {None},
           NEW balance \in Openings \cup {None}, WritePut(h, opening, balance)
    PROVE  ChainInv'
<1> DEFINE a == edit[h].id
           new == [opening |-> IF opening = None THEN edit[h].opening ELSE opening,
                   balance |-> IF balance = None THEN edit[h].balance ELSE balance]
<1>1. Idle /\ UNCHANGED <<txs, chain, walked>>
  BY DEF WritePut
<1>2. CASE a \notin DOMAIN acct
  <2>1. UNCHANGED <<acct, driftChain>>
    BY <1>2 DEF WritePut
  <2>. QED BY <1>1, <2>1, IdleStep
<1>3. CASE a \in DOMAIN acct
  <2>1. acct' = [acct EXCEPT ![a] = new]
        /\ driftChain' = IF new.opening = acct[a].opening THEN driftChain
                         ELSE driftChain \cup {a}
    BY <1>3 DEF WritePut
  <2>. HIDE DEF a, new
  <2>2. \A x \in DOMAIN acct' : x \notin driftChain' =>
           x \in DOMAIN acct \ driftChain /\ acct'[x].opening = acct[x].opening
    BY <1>3, <2>1 DEF TypeOK
  <2>. QED BY <1>1, <2>2, IdleStep
<1>. QED BY <1>2, <1>3

LEMMA WriteRecalculatedChain ==
    ASSUME TypeOK, ChainInv, TypeOK', NEW h \in Editors, WriteRecalculated(h)
    PROVE  ChainInv'
<1> DEFINE a == edit[h].id
<1>1. Idle /\ UNCHANGED <<txs, chain, todo, walked, driftChain>>
  BY DEF WriteRecalculated
<1>2. DOMAIN acct' = DOMAIN acct /\ \A x \in DOMAIN acct : acct'[x].opening = acct[x].opening
  <2>1. CASE a \notin DOMAIN acct
    BY <2>1 DEF WriteRecalculated
  <2>2. CASE a \in DOMAIN acct
    <3>1. acct' = [acct EXCEPT ![a].balance = Total(txs, a, edit[h].opening)]
      BY <2>2 DEF WriteRecalculated
    <3>. QED BY <2>2, <3>1 DEF TypeOK
  <2>. QED BY <2>1, <2>2
<1>. QED BY <1>1, <1>2, IdleStep

LEMMA NextChain ==
    ASSUME TypeOK, ChainInv, TypeOK', [Next]_vars
    PROVE  ChainInv'
<1>1. CASE \E i \in TxIds, type \in Types, dir \in Directions \cup {None},
              a, b \in MaybeAccount, net \in Amounts, date \in Dates :
              CreateTx(i, [type |-> type, dir |-> dir, account |-> a, toAccount |-> b,
                           parent |-> None, net |-> net, date |-> date])
  <2>1. PICK i \in TxIds, type \in Types, dir \in Directions \cup {None},
             a \in MaybeAccount, b \in MaybeAccount, net \in Amounts, date \in Dates :
             CreateTx(i, [type |-> type, dir |-> dir, account |-> a, toAccount |-> b,
                          parent |-> None, net |-> net, date |-> date])
    BY <1>1
  <2>2. [type |-> type, dir |-> dir, account |-> a, toAccount |-> b,
         parent |-> None, net |-> net, date |-> date] \in Row
    <3>1. net \in Int /\ type \in TransactionTypes
      BY AmountsAreCents, LedgerAssumption
    <3>. QED BY <3>1 DEF Row, MaybeAccount
  <2>. QED BY <2>1, <2>2, CreateTxChain
<1>2. CASE \E i \in TxIds, type \in Types, a, b \in MaybeAccount,
              net \in Amounts, date \in Dates : UpdateTx(i, type, a, b, net, date)
  BY <1>2, UpdateTxChain
<1>3. CASE \E i \in TxIds : DeleteTx(i)
  BY <1>3, DeleteTxChain
<1>4. CASE WalkRows
  BY <1>4, WalkRowsChain
<1>5. CASE WriteTotal
  BY <1>5, WriteTotalChain
<1>6. CASE Interrupt
  BY <1>6, InterruptChain
<1>7. CASE \E i, p \in TxIds, net \in Amounts : CreateChild(i, p, net)
  BY <1>7, CreateChildChain
<1>8. CASE \E i \in TxIds : DeleteChild(i)
  BY <1>8, DeleteChildChain
<1>9. CASE \E anchor \in TxIds, ids \in SUBSET TxIds, date \in Dates :
              \E pay \in [ids -> [account : Accounts, net : Amounts]] :
                CreatePurchase(anchor, pay, date)
  <2>1. PICK anchor \in TxIds, ids \in SUBSET TxIds, date \in Dates :
               \E pay \in [ids -> [account : Accounts, net : Amounts]] :
                 CreatePurchase(anchor, pay, date)
    BY <1>9
  <2>2. PICK pay \in [ids -> [account : Accounts, net : Amounts]] :
               CreatePurchase(anchor, pay, date)
    BY <2>1
  <2>3. pay \in Payments
    BY DEF Payments
  <2>. QED BY <2>2, <2>3, CreatePurchaseChain
<1>10. CASE \E ids \in SUBSET TxIds : DeleteRows(ids)
  BY <1>10, DeleteRowsChain
<1>11. CASE WipeAll
  BY <1>11, WipeAllChain
<1>12. CASE \E a \in Accounts, opening \in Openings : CreateAccount(a, opening)
  BY <1>12, CreateAccountChain
<1>13. CASE \E a \in Accounts : DeleteAccount(a)
  BY <1>13, DeleteAccountChain
<1>14. CASE \E h \in Editors, a \in Accounts, kind \in EditKinds : ReadAccount(h, a, kind)
  BY <1>14 DEF ReadAccount, ChainInv, ChainIsWalked, Pending, Rewritten
<1>15. CASE \E h \in Editors, opening, balance \in Openings \cup {None} : WritePut(h, opening, balance)
  BY <1>15, WritePutChain
<1>16. CASE \E h \in Editors : WriteRecalculated(h)
  BY <1>16, WriteRecalculatedChain
<1>17. CASE \E h \in Editors : AbandonEdit(h) \/ RebuildEdited(h)
  <2>1. CASE \E h \in Editors : AbandonEdit(h)
    BY <2>1 DEF AbandonEdit, ChainInv, ChainIsWalked, Pending, Rewritten
  <2>2. CASE \E h \in Editors : RebuildEdited(h)
    <3>1. Idle /\ UNCHANGED <<acct, txs, chain, walked, driftChain>>
      BY <2>2 DEF RebuildEdited
    <3>. QED BY <3>1, IdleStep
  <2>. QED BY <1>17, <2>1, <2>2
<1>18. CASE \E a \in Accounts : RebuildAccount(a)
  <2>1. Idle /\ UNCHANGED <<acct, txs, chain, walked, driftChain>>
    BY <1>18 DEF RebuildAccount
  <2>. QED BY <2>1, IdleStep
<1>19. CASE UNCHANGED vars
  BY <1>19 DEF vars, ChainInv, ChainIsWalked, Pending, Rewritten
<1>. QED
  BY <1>1, <1>2, <1>3, <1>4, <1>5, <1>6, <1>7, <1>8, <1>9, <1>10, <1>11, <1>12,
     <1>13, <1>14, <1>15, <1>16, <1>17, <1>18, <1>19 DEF Next

THEOREM ChainsAreWalked == Spec => [](TypeOK /\ ChainInv)
<1>1. Init => TypeOK /\ ChainInv
  <2>1. Init => ChainInv
    BY DEF Init, ChainInv
  <2>. QED BY <2>1, InitType
<1>2. TypeOK /\ ChainInv /\ [Next]_vars => TypeOK' /\ ChainInv'
  BY NextType, NextChain
<1>. QED BY <1>1, <1>2, PTL DEF Spec

(* The legs of an account are ordered by date, id and side, and no two tie. *)
LEMMA LegsAreOrdered ==
    ASSUME NEW t, Table(t), NEW x
    PROVE  /\ \A l \in Legs(t, x) : ~Precedes(l, l)
           /\ \A k, l \in Legs(t, x) : k = l \/ Precedes(k, l) \/ Precedes(l, k)
           /\ \A k, l, m \in Legs(t, x) : Precedes(k, l) /\ Precedes(l, m) => Precedes(k, m)
<1>1. ASSUME NEW l \in Legs(t, x)
      PROVE  l.date \in Int /\ l.id \in Int /\ l.side \in Int
  <2>1. l.date \in Nat /\ l.id \in Nat /\ l.side \in Sides
    BY LegFacts
  <2>. QED BY <2>1 DEF Sides
<1>2. \A l \in Legs(t, x) : ~Precedes(l, l)
  BY <1>1 DEF Precedes
<1>3. ASSUME NEW k \in Legs(t, x), NEW l \in Legs(t, x)
      PROVE  k = l \/ Precedes(k, l) \/ Precedes(l, k)
  <2>1. CASE k.id = l.id
    <3>1. k.date = l.date
      <4>1. k.date = t[k.id].date /\ l.date = t[l.id].date
        BY LegFacts
      <4>. QED BY <2>1, <4>1
    <3>2. k.side = l.side => k = l
      BY <2>1, KeyIsUnique
    <3>. QED BY <1>1, <2>1, <3>1, <3>2 DEF Precedes
  <2>2. CASE k.id # l.id
    BY <1>1, <2>2 DEF Precedes
  <2>. QED BY <2>1, <2>2
<1>4. \A k, l, m \in Legs(t, x) : Precedes(k, l) /\ Precedes(l, m) => Precedes(k, m)
  BY <1>1 DEF Precedes
<1>. QED BY <1>2, <1>3, <1>4

(* The running balance of an account's walk, at its first leg and from one  *)
(* leg to the next.                                                         *)
LEMMA RunningFacts ==
    ASSUME NEW t, Table(t), NEW x, NEW o \in Int, NEW l \in Legs(t, x)
    PROVE  /\ RunningAt(Legs(t, x), o, l) \in Int
           /\ Earlier(Legs(t, x), l) = {} => RunningAt(Legs(t, x), o, l) = o
           /\ \A k \in Legs(t, x) : Follows(Legs(t, x), k, l) =>
                 RunningAt(Legs(t, x), o, l) = RunningAt(Legs(t, x), o, k) + k.delta
<1> DEFINE L == Legs(t, x)
<1>1. ASSUME NEW k \in L
      PROVE  IsFiniteSet(Earlier(L, k)) /\ Cents(Earlier(L, k)) /\ SumDelta(Earlier(L, k)) \in Int
  <2>1. IsFiniteSet(L) /\ Cents(L)
    BY LegsType
  <2>2. IsFiniteSet(Earlier(L, k)) /\ Cents(Earlier(L, k))
    <3>. HIDE DEF L
    <3>. QED BY <2>1, FS_Subset DEF Earlier, Cents
  <2>. QED BY <2>2, SumDeltaType
<1>2. RunningAt(L, o, l) \in Int
  BY <1>1 DEF RunningAt
<1>3. Earlier(L, l) = {} => RunningAt(L, o, l) = o
  BY SumDeltaEmpty DEF RunningAt
<1>4. ASSUME NEW k \in L, Follows(L, k, l)
      PROVE  RunningAt(L, o, l) = RunningAt(L, o, k) + k.delta
  <2>1. k \in Earlier(L, l) /\ Earlier(L, l) \ {k} = Earlier(L, k)
    <3>1. /\ \A m \in L : ~Precedes(m, m)
          /\ \A m, n \in L : m = n \/ Precedes(m, n) \/ Precedes(n, m)
          /\ \A m, n, p \in L : Precedes(m, n) /\ Precedes(n, p) => Precedes(m, p)
      BY LegsAreOrdered
    <3>. HIDE DEF L
    <3>. QED BY <1>4, <3>1 DEF Follows, Earlier, L
  <2>2. k.delta \in Int
    BY LegFacts
  <2>3. SumDelta(Earlier(L, l)) = k.delta + SumDelta(Earlier(L, k))
    <3>1. IsFiniteSet(Earlier(L, l)) /\ Cents(Earlier(L, l))
      BY <1>1
    <3>2. SumDelta(Earlier(L, l)) = k.delta + SumDelta(Earlier(L, l) \ {k})
      BY <2>1, <3>1, SumDeltaRemove
    <3>. QED BY <2>1, <3>2
  <2>. QED BY <1>1, <2>2, <2>3 DEF RunningAt
<1>. QED BY <1>2, <1>3, <1>4

(* The last running balance of the walk is the total.                       *)
LEMMA LastIsTotal ==
    ASSUME NEW t, Table(t), NEW x, NEW o \in Int, NEW l \in Legs(t, x),
           \A k \in Legs(t, x) : ~Precedes(l, k)
    PROVE  RunningAt(Legs(t, x), o, l) + l.delta = Total(t, x, o)
<1> DEFINE L == Legs(t, x)
<1>1. Earlier(L, l) = L \ {l}
  <2>1. /\ \A m \in L : ~Precedes(m, m)
        /\ \A m, n \in L : m = n \/ Precedes(m, n) \/ Precedes(n, m)
    BY LegsAreOrdered
  <2>. HIDE DEF L
  <2>. QED BY <2>1 DEF Earlier, L
<1>2. IsFiniteSet(L) /\ Cents(L) /\ l.delta \in Int
  BY LegsType, LegFacts
<1>. HIDE DEF L
<1>3. SumDelta(L) = l.delta + SumDelta(L \ {l})
  BY <1>2, SumDeltaRemove DEF L
<1>4. SumDelta(L \ {l}) \in Int
  <2>1. IsFiniteSet(L \ {l}) /\ Cents(L \ {l})
    BY <1>2, FS_Subset DEF Cents
  <2>. QED BY <2>1, SumDeltaType
<1>. QED BY <1>1, <1>2, <1>3, <1>4 DEF RunningAt, Total, L

(* What the columns of a walked chain say, leg by leg.                      *)
LEMMA WalkedColumns ==
    ASSUME TypeOK, NEW x \in DOMAIN acct, ChainIsWalked(x), NEW l \in Legs(txs, x)
    PROVE  /\ Col(l).before = RunningAt(Legs(txs, x), acct[x].opening, l)
           /\ Col(l).after = RunningAt(Legs(txs, x), acct[x].opening, l) + l.delta
<1>1. Col(l) = Step(Legs(txs, x), acct[x].opening, l)
  BY DEF ChainIsWalked, Walked, Col
<1>. QED BY <1>1 DEF Step

LEMMA WalkedIsRight ==
    ASSUME TypeOK, NEW x \in DOMAIN acct, ChainIsWalked(x)
    PROVE  ChainIsRight(x)
<1> DEFINE L == Legs(txs, x)
           o == acct[x].opening
<1>1. Table(txs) /\ o \in Int
  BY TypeParts DEF Books
<1>2. ASSUME NEW l \in L
      PROVE  /\ Col(l).before # None
             /\ Col(l).after = Col(l).before + l.delta
             /\ Earlier(L, l) = {} => Col(l).before = o
             /\ \A k \in L : Follows(L, k, l) => Col(l).before = Col(k).after
  <2>1. /\ Col(l).before = RunningAt(L, o, l)
        /\ Col(l).after = RunningAt(L, o, l) + l.delta
    BY WalkedColumns
  <2>2. \A k \in L : Col(k).after = RunningAt(L, o, k) + k.delta
    BY WalkedColumns
  <2>3. /\ RunningAt(L, o, l) \in Int
        /\ Earlier(L, l) = {} => RunningAt(L, o, l) = o
        /\ \A k \in L : Follows(L, k, l) => RunningAt(L, o, l) = RunningAt(L, o, k) + k.delta
    <3>. HIDE DEF o
    <3>. QED BY <1>1, RunningFacts
  <2>4. RunningAt(L, o, l) # None
    BY <2>3, LedgerAssumption
  <2>. HIDE DEF L, o
  <2>. QED BY <2>1, <2>2, <2>3, <2>4
<1>. QED BY <1>2 DEF ChainIsRight

(* However rows are posted, moved, split, deleted or wiped, and wherever a  *)
(* rebuild is cut short: the columns of an account whose rebuild was        *)
(* neither skipped nor lost run from its opening balance, each row from the *)
(* one before it, in the order rebuild_chain reads them.                    *)
THEOREM ChainsAreSound == Spec => []ChainSound
<1>1. TypeOK /\ ChainInv => ChainSound
  BY WalkedIsRight DEF ChainInv, ChainSound
<1>. QED BY <1>1, ChainsAreWalked, PTL

(* The balance of an account and the last figure of its chain, written by   *)
(* two statements of rebuild_chain and by several other routes, are the     *)
(* same unless one of them is known to have been left behind.               *)
THEOREM BalanceEndsTheChain == Spec => []LedgersAgree
<1>1. TypeOK /\ ChainInv /\ BalanceSound => LedgersAgree
  <2>1. SUFFICES ASSUME TypeOK, ChainInv, BalanceSound,
                        NEW x \in DOMAIN acct \ (driftTotal \cup driftChain \cup Pending),
                        NEW l \in Legs(txs, x), \A k \in Legs(txs, x) : ~Precedes(l, k)
                 PROVE  Col(l).after = acct[x].balance
    BY DEF LedgersAgree
  <2>2. TotalIsRight(x) /\ ChainIsWalked(x)
    BY <2>1 DEF BalanceSound, ChainInv
  <2>3. Table(txs) /\ acct[x].opening \in Int
    BY <2>1, TypeParts DEF Books
  <2>4. Col(l).after = RunningAt(Legs(txs, x), acct[x].opening, l) + l.delta
    BY <2>1, <2>2, WalkedColumns
  <2>5. RunningAt(Legs(txs, x), acct[x].opening, l) + l.delta = Total(txs, x, acct[x].opening)
    BY <2>1, <2>3, LastIsTotal
  <2>. QED BY <2>2, <2>4, <2>5 DEF TotalIsRight
<1>. QED BY <1>1, ChainsAreWalked, BalancesAddUp, PTL
=============================================================================
