----------------------------- MODULE GateProofs -----------------------------
(***************************************************************************)
(* What the TypeScript backend keeps beside its rows, for every set of     *)
(* accounts, rows, holdings and expenses and any number of requests in     *)
(* flight: the totals implement the book, a transfer of holdings moves its *)
(* cost, a budget covers the expenses linked to it, and every row carries  *)
(* the balance before and after it.                                        *)
(***************************************************************************)
EXTENDS MCGate, SumsProofs, SequenceTheorems

-----------------------------------------------------------------------------
(* The sums of the gate as sums of functions.                               *)

At(legs, a) == {i \in DOMAIN legs : legs[i].account = a}
Deltas(legs) == [i \in DOMAIN legs |-> legs[i].delta]

LEMMA SumOfLegsIsSum ==
    ASSUME NEW legs, NEW a
    PROVE  SumOfLegs(legs, a) = SumOf(Deltas(legs), At(legs, a))
<1> DEFINE S == At(legs, a)
           IsLegSum(sum) ==
             sum = [T \in SUBSET S |->
                      IF T = {} THEN 0
                      ELSE LET x == CHOOSE x \in T : TRUE IN legs[x].delta + sum[T \ {x}]]
<1>1. SumOfLegs(legs, a) = (CHOOSE sum : IsLegSum(sum))[S]
  BY DEF SumOfLegs, MapThenSumSet, MapThenFoldSet, At
<1>2. ASSUME NEW sum PROVE IsSum(sum, Deltas(legs), S) <=> IsLegSum(sum)
  <2>1. \A T \in SUBSET S : T # {} =>
          Deltas(legs)[CHOOSE x \in T : TRUE] = legs[CHOOSE x \in T : TRUE].delta
    BY DEF Deltas, At
  <2>. HIDE DEF S
  <2>. QED BY <2>1 DEF IsSum
<1>3. (CHOOSE sum : IsSum(sum, Deltas(legs), S)) = (CHOOSE sum : IsLegSum(sum))
  <2>. HIDE DEF IsLegSum, S
  <2>. QED BY <1>2
<1>. HIDE DEF IsLegSum
<1>. QED BY <1>1, <1>3, SumIter

RawSum(t, a) == MapThenSumSet(LAMBDA i : Moved(t[i], a), Ids)
MovedOf(t, a) == [i \in Ids |-> Moved(t[i], a)]

LEMMA RawSumIsSum ==
    ASSUME NEW t, NEW a
    PROVE  RawSum(t, a) = SumOf(MovedOf(t, a), Ids)
<1> DEFINE IsRowSum(sum) ==
             sum = [T \in SUBSET Ids |->
                      IF T = {} THEN 0
                      ELSE LET x == CHOOSE x \in T : TRUE IN Moved(t[x], a) + sum[T \ {x}]]
<1>1. RawSum(t, a) = (CHOOSE sum : IsRowSum(sum))[Ids]
  BY DEF RawSum, MapThenSumSet, MapThenFoldSet
<1>2. ASSUME NEW sum PROVE IsSum(sum, MovedOf(t, a), Ids) <=> IsRowSum(sum)
  <2>1. \A T \in SUBSET Ids : T # {} =>
          MovedOf(t, a)[CHOOSE x \in T : TRUE] = Moved(t[CHOOSE x \in T : TRUE], a)
    BY DEF MovedOf
  <2>. QED BY <2>1 DEF IsSum
<1>3. (CHOOSE sum : IsSum(sum, MovedOf(t, a), Ids)) = (CHOOSE sum : IsRowSum(sum))
  <2>. HIDE DEF IsRowSum
  <2>. QED BY <1>2
<1>. HIDE DEF IsRowSum
<1>. QED BY <1>1, <1>3, SumIter

(* What one request still owes an account. *)
Owes(j, a) ==
    CASE j.step = "created" -> Moves(j.new, a)
      [] j.step = "written" -> Moves(j.new, a) - Moves(j.old, a)
      [] j.step = "legs"    -> SumOfLegs(j.legs, a)
      [] OTHER              -> 0

RawOwed(js, a) == MapThenSumSet(LAMBDA h : Owes(js[h], a), Handlers)
OwedOf(js, a) == [h \in Handlers |-> Owes(js[h], a)]

LEMMA RawOwedIsSum ==
    ASSUME NEW js, NEW a
    PROVE  RawOwed(js, a) = SumOf(OwedOf(js, a), Handlers)
<1> DEFINE IsOwedSum(sum) ==
             sum = [T \in SUBSET Handlers |->
                      IF T = {} THEN 0
                      ELSE LET x == CHOOSE x \in T : TRUE IN Owes(js[x], a) + sum[T \ {x}]]
<1>1. RawOwed(js, a) = (CHOOSE sum : IsOwedSum(sum))[Handlers]
  BY DEF RawOwed, MapThenSumSet, MapThenFoldSet
<1>2. ASSUME NEW sum PROVE IsSum(sum, OwedOf(js, a), Handlers) <=> IsOwedSum(sum)
  <2>1. \A T \in SUBSET Handlers : T # {} =>
          OwedOf(js, a)[CHOOSE x \in T : TRUE] = Owes(js[CHOOSE x \in T : TRUE], a)
    BY DEF OwedOf
  <2>. QED BY <2>1 DEF IsSum
<1>3. (CHOOSE sum : IsSum(sum, OwedOf(js, a), Handlers)) = (CHOOSE sum : IsOwedSum(sum))
  <2>. HIDE DEF IsOwedSum
  <2>. QED BY <1>2
<1>. HIDE DEF IsOwedSum
<1>. QED BY <1>1, <1>3, SumIter

-----------------------------------------------------------------------------
(* The legs of a row. *)

LegOn(l, a) == IF l.account = a THEN l.delta ELSE 0

LEMMA LegsAt ==
    ASSUME NEW legs \in Seq(Leg), NEW a
    PROVE  /\ IsFiniteSet(At(legs, a))
           /\ \A i \in At(legs, a) : Deltas(legs)[i] \in Int
<1>1. At(legs, a) \subseteq 1..Len(legs)
  BY DEF At
<1>2. IsFiniteSet(1..Len(legs))
  BY FS_Interval
<1>3. IsFiniteSet(At(legs, a))
  <2>. HIDE DEF At
  <2>. QED BY <1>1, <1>2, FS_Subset
<1>4. ASSUME NEW i \in At(legs, a) PROVE Deltas(legs)[i] \in Int
  <2>1. i \in DOMAIN legs /\ legs[i] \in Leg
    BY <1>1 DEF At
  <2>. QED BY <2>1 DEF Deltas, Leg
<1>. QED BY <1>3, <1>4

LEMMA LegSumType ==
    ASSUME NEW legs \in Seq(Leg), NEW a
    PROVE  SumOfLegs(legs, a) \in Int
<1>1. SumOfLegs(legs, a) = SumOf(Deltas(legs), At(legs, a))
  BY SumOfLegsIsSum
<1>. QED BY <1>1, LegsAt, SumType

LEMMA LegSumEmpty == ASSUME NEW a PROVE SumOfLegs(<<>>, a) = 0
<1>1. At(<<>>, a) = {}
  BY DEF At
<1>. QED BY <1>1, SumEmpty, SumOfLegsIsSum

(* The first leg and the rest of them. *)
LEMMA LegSumHead ==
    ASSUME NEW legs \in Seq(Leg), legs # <<>>, NEW a
    PROVE  SumOfLegs(legs, a) = LegOn(Head(legs), a) + SumOfLegs(Tail(legs), a)
<1> DEFINE rest == Tail(legs)
           T == At(rest, a)
           h == [i \in T |-> i + 1]
           image == {h[i] : i \in T}
           f == Deltas(legs)
           g == Deltas(rest)
<1>1. /\ rest \in Seq(Leg) /\ Len(legs) \in Nat \ {0} /\ Len(rest) = Len(legs) - 1
      /\ DOMAIN legs = 1..Len(legs) /\ DOMAIN rest = 1..Len(rest)
      /\ \A i \in 1..Len(rest) : rest[i] = legs[i + 1]
      /\ Head(legs) = legs[1] /\ legs[1] \in Leg
  OBVIOUS
<1>. HIDE DEF rest
<1>2. T \subseteq 1..Len(rest) /\ IsFiniteSet(T)
  <2>1. T \subseteq 1..Len(rest)
    BY <1>1 DEF At
  <2>. QED BY <1>1, <2>1, LegsAt
<1>3. \A i \in T : h[i] = i + 1 /\ g[i] \in Int /\ f[h[i]] = g[i]
  <2>1. ASSUME NEW i \in T PROVE h[i] = i + 1 /\ g[i] \in Int /\ f[h[i]] = g[i]
    <3>1. i \in 1..Len(rest) /\ i + 1 \in 1..Len(legs) /\ rest[i] = legs[i + 1] /\ rest[i] \in Leg
      BY <1>1, <1>2, <2>1
    <3>. QED BY <1>1, <2>1, <3>1 DEF Deltas, Leg
  <2>. QED BY <2>1
<1>4. \A i, k \in T : h[i] = h[k] => i = k
  BY <1>1, <1>2, <1>3
<1>5. image = At(legs, a) \ {1}
  <2>1. ASSUME NEW x \in image PROVE x \in At(legs, a) \ {1}
    <3>1. PICK i \in T : x = i + 1
      BY <1>3, <2>1
    <3>2. i \in 1..Len(rest) /\ rest[i].account = a /\ rest[i] = legs[i + 1]
      BY <1>1, <3>1 DEF At
    <3>. QED BY <1>1, <3>1, <3>2 DEF At
  <2>2. ASSUME NEW x \in At(legs, a) \ {1} PROVE x \in image
    <3>1. x \in 1..Len(legs) /\ x # 1 /\ legs[x].account = a
      BY <1>1, <2>2 DEF At
    <3>2. x - 1 \in 1..Len(rest) /\ rest[x - 1] = legs[x]
      BY <1>1, <3>1
    <3>3. x - 1 \in T
      BY <1>1, <3>1, <3>2 DEF At
    <3>4. h[x - 1] = x
      BY <1>3, <3>1, <3>3
    <3>. QED BY <3>3, <3>4
  <2>. QED BY <2>1, <2>2
<1>6. SumOf(f, image) = SumOf(g, T)
  <2>1. \A i \in T : g[i] \in Int /\ f[h[i]] = g[i]
    BY <1>3
  <2>2. IsFiniteSet(T)
    BY <1>2
  <2>. HIDE DEF T, h, f, g
  <2>3. SumOf(f, {h[i] : i \in T}) = SumOf(g, T)
    BY <1>4, <2>1, <2>2, SumImage
  <2>. QED BY <2>3
<1>7. SumOfLegs(legs, a) = SumOf(f, At(legs, a)) /\ SumOfLegs(rest, a) = SumOf(g, T)
  BY SumOfLegsIsSum
<1>8. SumOf(g, T) \in Int
  BY <1>1, <1>7, LegSumType
<1>9. IsFiniteSet(At(legs, a)) /\ \A i \in At(legs, a) : f[i] \in Int
  BY LegsAt
<1>10. CASE legs[1].account = a
  <2>1. 1 \in At(legs, a) /\ f[1] = legs[1].delta /\ legs[1].delta \in Int
    BY <1>1, <1>10 DEF At, Deltas, Leg
  <2>2. LegOn(Head(legs), a) = legs[1].delta
    BY <1>1, <1>10 DEF LegOn
  <2> DEFINE S == At(legs, a)
  <2>. HIDE DEF S, f, g, image
  <2>3. SumOf(f, S) = f[1] + SumOf(f, S \ {1})
    BY <1>9, <2>1, SumRemove DEF S
  <2>4. SumOf(f, S \ {1}) = SumOf(g, T)
    BY <1>5, <1>6 DEF S
  <2>. QED BY <1>7, <1>8, <2>1, <2>2, <2>3, <2>4 DEF S, rest
<1>11. CASE legs[1].account # a
  <2>1. image = At(legs, a)
    BY <1>5, <1>11 DEF At
  <2>2. LegOn(Head(legs), a) = 0
    BY <1>1, <1>11 DEF LegOn
  <2>. HIDE DEF f, g, image
  <2>. QED BY <1>6, <1>7, <1>8, <2>1, <2>2 DEF rest
<1>. QED BY <1>10, <1>11

LEMMA LegSumCons ==
    ASSUME NEW l \in Leg, NEW legs \in Seq(Leg), NEW a
    PROVE  /\ <<l>> \o legs \in Seq(Leg) /\ <<l>> \o legs # <<>>
           /\ SumOfLegs(<<l>> \o legs, a) = LegOn(l, a) + SumOfLegs(legs, a)
<1> DEFINE all == <<l>> \o legs
<1>1. all \in Seq(Leg) /\ all # <<>> /\ Head(all) = l /\ Tail(all) = legs
  OBVIOUS
<1>. HIDE DEF all
<1>2. SumOfLegs(all, a) = LegOn(Head(all), a) + SumOfLegs(Tail(all), a)
  BY <1>1, LegSumHead
<1>. QED BY <1>1, <1>2 DEF all

LEMMA PairIsTwo == ASSUME NEW S, NEW x \in S, NEW y \in S PROVE <<x, y>> = <<x>> \o <<y>>
<1> DEFINE p == <<x>> q == <<y>>
<1>1. p \in Seq(S) /\ q \in Seq(S) /\ Len(p) = 1 /\ Len(q) = 1 /\ p[1] = x /\ q[1] = y
  OBVIOUS
<1>. HIDE DEF p, q
<1>2. p \o q \in Seq(S) /\ Len(p \o q) = 2 /\ (p \o q)[1] = x /\ (p \o q)[2] = y
  BY <1>1, ConcatProperties
<1>3. <<x, y>> \in Seq(S) /\ Len(<<x, y>>) = 2 /\ <<x, y>>[1] = x /\ <<x, y>>[2] = y
  OBVIOUS
<1> DEFINE r == <<x, y>>
           s == p \o q
<1>4. r \in Seq(S) /\ s \in Seq(S) /\ Len(r) = 2 /\ Len(s) = 2 /\ r[1] = s[1] /\ r[2] = s[2]
  BY <1>2, <1>3
<1>. HIDE DEF r, s
<1>5. \A i \in 1 .. Len(r) : r[i] = s[i]
  BY <1>4
<1>6. r = s
  BY <1>4, <1>5, SeqEqual
<1>. QED BY <1>6 DEF r, s, p, q

(* What a row adds to an account, written out. *)
Effect(r, a) ==
    (IF r.from = a THEN IF r.type = "INCOME" THEN r.amount ELSE -r.amount ELSE 0)
        + (IF r.type = "TRANSFER" /\ r.to = a THEN r.amount ELSE 0)

LEMMA LegsFollow ==
    ASSUME NEW r \in Rows, NEW m \in {1, -1}, NEW legs \in Seq(Leg), NEW a
    PROVE  /\ LegsOf(r, m) \o legs \in Seq(Leg) /\ LegsOf(r, m) \o legs # <<>>
           /\ SumOfLegs(LegsOf(r, m) \o legs, a) = m * Effect(r, a) + SumOfLegs(legs, a)
           /\ Effect(r, a) \in Int
<1> DEFINE out == [account |-> r.from, delta |-> m * (IF r.type = "INCOME" THEN r.amount ELSE -r.amount)]
           in == [account |-> r.to, delta |-> m * r.amount]
<1>1. r.amount \in Nat \ {0} /\ r.from \in Accounts
      /\ (r.type = "TRANSFER" => r.to \in Accounts /\ r.to # r.from)
  BY GateAssumption DEF Rows
<1>2. out \in Leg /\ (r.type = "TRANSFER" => in \in Leg)
  BY <1>1 DEF Leg
<1>3. Effect(r, a) \in Int
  BY <1>1 DEF Effect
<1>4. SumOfLegs(legs, a) \in Int
  BY LegSumType
<1>5. CASE r.type # "TRANSFER"
  <2>1. LegsOf(r, m) = <<out>>
    BY <1>5 DEF LegsOf
  <2>2. LegOn(out, a) = m * Effect(r, a)
    BY <1>1, <1>5 DEF LegOn, Effect
  <2>. HIDE DEF out
  <2>. QED BY <1>2, <1>3, <1>4, <2>1, <2>2, LegSumCons
<1>6. CASE r.type = "TRANSFER"
  <2>1. LegsOf(r, m) = <<out, in>>
    BY <1>6 DEF LegsOf
  <2>2. LegOn(out, a) + LegOn(in, a) = m * Effect(r, a) /\ LegOn(out, a) \in Int /\ LegOn(in, a) \in Int
    BY <1>1, <1>6 DEF LegOn, Effect
  <2>. HIDE DEF out, in
  <2> DEFINE tail == <<in>> \o legs
  <2>3. <<out, in>> \o legs = <<out>> \o tail
    <3>1. out \in Leg /\ in \in Leg
      BY <1>2, <1>6
    <3>2. <<out, in>> = <<out>> \o <<in>>
      <4>. HIDE DEF out, in
      <4>. QED BY <3>1, PairIsTwo
    <3>3. (<<out>> \o <<in>>) \o legs = <<out>> \o (<<in>> \o legs)
      <4>1. <<out>> \in Seq(Leg) /\ <<in>> \in Seq(Leg)
        BY <3>1
      <4>. QED BY <4>1, ConcatAssociative
    <3>. QED BY <3>2, <3>3
  <2>4. tail \in Seq(Leg) /\ SumOfLegs(tail, a) = LegOn(in, a) + SumOfLegs(legs, a)
    BY <1>2, <1>6, LegSumCons
  <2>. HIDE DEF tail
  <2>5. /\ <<out>> \o tail \in Seq(Leg) /\ <<out>> \o tail # <<>>
        /\ SumOfLegs(<<out>> \o tail, a) = LegOn(out, a) + SumOfLegs(tail, a)
    BY <1>2, <2>4, LegSumCons
  <2> DEFINE all == <<out>> \o tail
  <2>6. LegsOf(r, m) \o legs = all
    BY <2>1, <2>3
  <2>7. all \in Seq(Leg) /\ all # <<>> /\ SumOfLegs(all, a) = LegOn(out, a) + SumOfLegs(tail, a)
    BY <2>5
  <2>. HIDE DEF all
  <2>8. SumOfLegs(all, a) = m * Effect(r, a) + SumOfLegs(legs, a)
    BY <1>3, <1>4, <2>2, <2>4, <2>7
  <2>. QED BY <1>3, <2>6, <2>7, <2>8
<1>. QED BY <1>5, <1>6

LEMMA RowMoves ==
    ASSUME NEW r \in Rows, NEW m \in {1, -1}, NEW a
    PROVE  /\ Moves(r, a) = Effect(r, a) /\ Effect(r, a) \in Int
           /\ LegsOf(r, m) \in Seq(Leg) /\ LegsOf(r, m) # <<>>
           /\ SumOfLegs(LegsOf(r, m), a) = m * Effect(r, a)
<1>1. ASSUME NEW n \in {1, -1}
      PROVE  /\ LegsOf(r, n) \in Seq(Leg) /\ LegsOf(r, n) # <<>>
             /\ SumOfLegs(LegsOf(r, n), a) = n * Effect(r, a) /\ Effect(r, a) \in Int
  <2> DEFINE none == <<>>
             all == LegsOf(r, n)
  <2>1. none \in Seq(Leg)
    OBVIOUS
  <2>2. all \o none = all
    BY DEF LegsOf
  <2>3. SumOfLegs(none, a) = 0
    BY LegSumEmpty
  <2>. HIDE DEF none
  <2>4. /\ all \o none \in Seq(Leg) /\ all \o none # <<>>
        /\ SumOfLegs(all \o none, a) = n * Effect(r, a) + SumOfLegs(none, a) /\ Effect(r, a) \in Int
    BY <2>1, LegsFollow
  <2>. HIDE DEF all
  <2>5. all \in Seq(Leg) /\ all # <<>> /\ SumOfLegs(all, a) = n * Effect(r, a)
    BY <2>2, <2>3, <2>4
  <2>. QED BY <2>4, <2>5 DEF all
<1>2. Moves(r, a) = Effect(r, a)
  BY <1>1 DEF Moves
<1>. QED BY <1>1, <1>2

-----------------------------------------------------------------------------
(* The two sums when one row, or one request, changes. *)

Table(t) == t \in [Ids -> Rows \cup {None}]
Updated(g, f, x, v) == g = [f EXCEPT ![x] = v]

LEMMA MovedType ==
    ASSUME NEW r \in Rows \cup {None}, NEW a
    PROVE  Moved(r, a) \in Int /\ (r \in Rows => Moved(r, a) = Effect(r, a))
           /\ (r = None => Moved(r, a) = 0)
<1>1. 1 \in {1, -1}
  OBVIOUS
<1>2. CASE r = None
  BY <1>2, NoneIsNoRow DEF Moved
<1>3. CASE r \in Rows
  <2>1. Moves(r, a) = Effect(r, a) /\ Effect(r, a) \in Int
    BY <1>1, <1>3, RowMoves
  <2>. QED BY <1>3, <2>1, NoneIsNoRow DEF Moved
<1>. QED BY <1>2, <1>3

LEMMA RawSumType ==
    ASSUME NEW t, Table(t), NEW a
    PROVE  RawSum(t, a) \in Int
<1>1. \A i \in Ids : MovedOf(t, a)[i] \in Int
  BY MovedType DEF MovedOf, Table
<1>2. IsFiniteSet(Ids)
  BY GateAssumption
<1>. QED BY <1>1, <1>2, SumType, RawSumIsSum

LEMMA RawSumChange ==
    ASSUME NEW t, Table(t), NEW i \in Ids, NEW r \in Rows \cup {None}, NEW u, Updated(u, t, i, r),
           NEW a
    PROVE  /\ Table(u)
           /\ RawSum(u, a) = RawSum(t, a) - Moved(t[i], a) + Moved(r, a)
<1>1. Table(u) /\ u[i] = r /\ \A k \in Ids \ {i} : u[k] = t[k]
  BY DEF Table, Updated
<1>2. \A k \in Ids : MovedOf(t, a)[k] \in Int /\ MovedOf(u, a)[k] \in Int
  BY <1>1, MovedType DEF MovedOf, Table
<1>3. \A k \in Ids \ {i} : MovedOf(t, a)[k] = MovedOf(u, a)[k]
  BY <1>1 DEF MovedOf
<1>4. IsFiniteSet(Ids)
  BY GateAssumption
<1>5. SumOf(MovedOf(u, a), Ids) = SumOf(MovedOf(t, a), Ids) - MovedOf(t, a)[i] + MovedOf(u, a)[i]
  <2> DEFINE f == MovedOf(t, a)
             g == MovedOf(u, a)
  <2>1. /\ \A k \in Ids : f[k] \in Int /\ g[k] \in Int
        /\ \A k \in Ids \ {i} : f[k] = g[k]
    BY <1>2, <1>3
  <2>. HIDE DEF f, g
  <2>2. SumOf(g, Ids) = SumOf(f, Ids) - f[i] + g[i]
    BY <1>4, <2>1, SumChange
  <2>. QED BY <2>2 DEF f, g
<1>6. MovedOf(t, a)[i] = Moved(t[i], a) /\ MovedOf(u, a)[i] = Moved(r, a)
  BY <1>1 DEF MovedOf
<1>. QED BY <1>1, <1>5, <1>6, RawSumIsSum

Owing(js) == \A h \in Handlers, a \in Accounts : Owes(js[h], a) \in Int

LEMMA RawOwedType ==
    ASSUME NEW js, Owing(js), NEW a \in Accounts
    PROVE  RawOwed(js, a) \in Int
<1>1. \A h \in Handlers : OwedOf(js, a)[h] \in Int
  BY DEF OwedOf, Owing
<1>2. IsFiniteSet(Handlers)
  BY GateAssumption
<1>. QED BY <1>1, <1>2, SumType, RawOwedIsSum

LEMMA RawOwedChange ==
    ASSUME NEW js, js \in [Handlers -> Job], Owing(js), NEW h \in Handlers, NEW j,
           NEW ks, Updated(ks, js, h, j), \A a \in Accounts : Owes(j, a) \in Int,
           NEW a \in Accounts
    PROVE  /\ Owing(ks)
           /\ RawOwed(ks, a) = RawOwed(js, a) - Owes(js[h], a) + Owes(j, a)
<1>1. ks[h] = j /\ \A k \in Handlers \ {h} : ks[k] = js[k]
  BY DEF Updated
<1>2. Owing(ks)
  BY <1>1 DEF Owing
<1>3. \A k \in Handlers : OwedOf(js, a)[k] \in Int /\ OwedOf(ks, a)[k] \in Int
  BY <1>2 DEF OwedOf, Owing
<1>4. \A k \in Handlers \ {h} : OwedOf(js, a)[k] = OwedOf(ks, a)[k]
  BY <1>1 DEF OwedOf
<1>5. IsFiniteSet(Handlers)
  BY GateAssumption
<1>6. SumOf(OwedOf(ks, a), Handlers)
        = SumOf(OwedOf(js, a), Handlers) - OwedOf(js, a)[h] + OwedOf(ks, a)[h]
  <2> DEFINE f == OwedOf(js, a)
             g == OwedOf(ks, a)
  <2>1. /\ \A k \in Handlers : f[k] \in Int /\ g[k] \in Int
        /\ \A k \in Handlers \ {h} : f[k] = g[k]
    BY <1>3, <1>4
  <2>. HIDE DEF f, g
  <2>2. SumOf(g, Handlers) = SumOf(f, Handlers) - f[h] + g[h]
    BY <1>5, <2>1, SumChange
  <2>. QED BY <2>2 DEF f, g
<1>7. OwedOf(js, a)[h] = Owes(js[h], a) /\ OwedOf(ks, a)[h] = Owes(j, a)
  BY <1>1 DEF OwedOf
<1>. QED BY <1>2, <1>6, <1>7, RawOwedIsSum

(* No request owes anything. *)
LEMMA NothingOwed ==
    ASSUME NEW js, NEW a, \A h \in Handlers : Owes(js[h], a) = 0
    PROVE  RawOwed(js, a) = 0
<1>1. \A h \in Handlers : OwedOf(js, a)[h] = 0
  BY DEF OwedOf
<1>2. IsFiniteSet(Handlers)
  BY GateAssumption
<1> DEFINE f == OwedOf(js, a)
<1>. HIDE DEF f
<1>3. SumOf(f, Handlers) = 0
  BY <1>1, <1>2, SumZero DEF f
<1>. QED BY <1>3, RawOwedIsSum DEF f

-----------------------------------------------------------------------------
(* The inductive invariant of the gate.                                     *)

Rec(j) == j.step \in {"wiping", "zeroed", "summed"}

(* What a request knows, against the rows and the opening balances: the row *)
(* it created or wrote is still so, the row it read is still so, and the    *)
(* sum it read is still the sum.                                            *)
JobOK(j, t, o) ==
    /\ j \in Job
    /\ j.step = "idle" => j = Idle
    /\ j.step \in {"created", "read", "written", "deleting", "legs"} => j.id \in Ids
    /\ j.step = "created" => j.new \in Rows /\ t[j.id] = j.new
    /\ j.step \in {"read", "deleting"} => j.old \in Rows /\ t[j.id] = j.old
    /\ j.step = "written" => j.old \in Rows /\ j.new \in Rows /\ t[j.id] = j.new
    /\ j.step = "legs" => j.legs # <<>>
    /\ j.step = "wiping" => j.account = None
    /\ j.step = "zeroed" => j.account \in Accounts /\ j.sum = RawSum(t, j.account)
    /\ j.step = "summed" => j.account \in Accounts /\ j.accounts = {}
                           /\ j.sum = o[j.account] + RawSum(t, j.account)

(* Two requests are about different rows, and a recomputation is alone.     *)
Apart(js) ==
    \A h, k \in Handlers : h # k /\ js[h] # Idle /\ js[k] # Idle =>
        js[h].id # js[k].id /\ ~Rec(js[h]) /\ ~Rec(js[k])

(* An account is as the book says, or is about to be recomputed.            *)
RecomputedBy(js, a) == \E h \in Handlers : Rec(js[h]) /\ a \in js[h].accounts \cup {js[h].account}
Even(a) == balance[a] + drift[a] + RawOwed(jobs, a) = opening[a] + RawSum(rows, a)
Balanced == \A a \in Accounts : RecomputedBy(jobs, a) \/ Even(a)

GateInv ==
    /\ TypeOK
    /\ \A h \in Handlers : JobOK(jobs[h], rows, opening)
    /\ Apart(jobs)
    /\ Balanced

LEMMA JobOwes ==
    ASSUME NEW j, NEW t, NEW o, JobOK(j, t, o), NEW a
    PROVE  /\ Owes(j, a) \in Int
           /\ j.step = "created" => Owes(j, a) = Effect(j.new, a)
           /\ j.step = "written" => Owes(j, a) = Effect(j.new, a) - Effect(j.old, a)
           /\ j.step = "legs" => Owes(j, a) = SumOfLegs(j.legs, a)
           /\ j.step \notin {"created", "written", "legs"} => Owes(j, a) = 0
<1>1. 1 \in {1, -1}
  OBVIOUS
<1>2. ASSUME NEW r \in Rows PROVE Moves(r, a) = Effect(r, a) /\ Effect(r, a) \in Int
  BY <1>1, RowMoves
<1>3. CASE j.step = "created"
  <2>1. Owes(j, a) = Moves(j.new, a)
    BY <1>3 DEF Owes
  <2>2. j.new \in Rows
    BY <1>3 DEF JobOK
  <2>. QED BY <1>2, <1>3, <2>1, <2>2
<1>4. CASE j.step = "written"
  <2>1. Owes(j, a) = Moves(j.new, a) - Moves(j.old, a)
    BY <1>4 DEF Owes
  <2>2. j.new \in Rows /\ j.old \in Rows
    BY <1>4 DEF JobOK
  <2>. QED BY <1>2, <1>4, <2>1, <2>2
<1>5. CASE j.step = "legs"
  <2>1. Owes(j, a) = SumOfLegs(j.legs, a)
    BY <1>5 DEF Owes
  <2>2. j.legs \in Seq(Leg)
    BY DEF JobOK, Job
  <2>. QED BY <1>5, <2>1, <2>2, LegSumType
<1>6. CASE j.step \notin {"created", "written", "legs"}
  BY <1>6 DEF Owes
<1>. QED BY <1>3, <1>4, <1>5, <1>6

LEMMA IdleOK == ASSUME NEW t, NEW o PROVE JobOK(Idle, t, o) /\ ~Rec(Idle)
<1>1. <<>> \in Seq(Leg)
  OBVIOUS
<1>. QED BY <1>1 DEF JobOK, Idle, Job, Steps, Rec

LEMMA InvOwing == GateInv => Owing(jobs)
BY JobOwes DEF GateInv, Owing

(* A request that does not recompute knows nothing of the other rows.       *)
LEMMA JobFrame ==
    ASSUME NEW j, NEW t, NEW u, NEW o, JobOK(j, t, o), ~Rec(j), j.id \in Ids => u[j.id] = t[j.id]
    PROVE  JobOK(j, u, o)
BY DEF JobOK, Rec

-----------------------------------------------------------------------------
(* Steps of requests that do not recompute.                                 *)

Counts ==
    /\ opening \in [Accounts -> Openings]
    /\ balance \in [Accounts -> Int] /\ drift \in [Accounts -> Int]
    /\ rows \in [Ids -> Rows \cup {None}]
    /\ faults \in 0..MaxFaults

(* Whoever else is at work is about another row and recomputes nothing.     *)
Clear(h, i) ==
    \A k \in Handlers \ {h} : ~Rec(jobs[k]) /\ (jobs[k] # Idle => jobs[k].id # i)

LEMMA ClearAtWork ==
    ASSUME GateInv, NEW h \in Handlers, jobs[h] # Idle, ~Rec(jobs[h])
    PROVE  Clear(h, jobs[h].id)
<1>1. Apart(jobs)
  BY DEF GateInv
<1>2. ASSUME NEW k \in Handlers \ {h}
      PROVE  ~Rec(jobs[k]) /\ (jobs[k] # Idle => jobs[k].id # jobs[h].id)
  BY <1>1, IdleOK DEF Apart
<1>. QED BY <1>2 DEF Clear

LEMMA ClearToStart ==
    ASSUME GateInv, ~Overlap, NEW h \in Handlers, jobs[h] = Idle, NEW i, MayStart({i})
    PROVE  Clear(h, i)
<1>1. ASSUME NEW k \in Handlers \ {h}, jobs[k] # Idle PROVE ~Rec(jobs[k]) /\ jobs[k].id # i
  BY <1>1 DEF MayStart, Active, Recomputes, Rec
<1>. QED BY <1>1, IdleOK DEF Clear

(* The equation that one account must satisfy across such a step.           *)
Shifted(h, j, a) ==
    balance'[a] + drift'[a] - Owes(jobs[h], a) + Owes(j, a)
        = balance[a] + drift[a] + RawSum(rows', a) - RawSum(rows, a)

LEMMA OrdinaryStep ==
    ASSUME GateInv, NEW h \in Handlers, NEW j, jobs' = [jobs EXCEPT ![h] = j], Counts',
           opening' = opening,
           ~Rec(jobs[h]), ~Rec(j), JobOK(j, rows', opening),
           NEW i, Clear(h, i), j = Idle \/ j.id = i,
           \A k \in Ids : k # i => rows'[k] = rows[k],
           \A a \in Accounts : Shifted(h, j, a)
    PROVE  GateInv'
<1>1. TypeOK /\ Apart(jobs) /\ Balanced /\ \A k \in Handlers : JobOK(jobs[k], rows, opening)
  BY DEF GateInv
<1>2. jobs \in [Handlers -> Job] /\ Table(rows) /\ Table(rows')
  BY <1>1 DEF TypeOK, Counts, Table
<1>3. jobs'[h] = j /\ \A k \in Handlers \ {h} : jobs'[k] = jobs[k]
  BY <1>2
<1>4. \A k \in Handlers : JobOK(jobs'[k], rows', opening')
  <2>1. ASSUME NEW k \in Handlers \ {h} PROVE JobOK(jobs[k], rows', opening)
    <3>1. CASE jobs[k] = Idle
      BY <3>1, IdleOK
    <3>2. CASE jobs[k] # Idle
      <4>1. ~Rec(jobs[k]) /\ (jobs[k].id \in Ids => rows'[jobs[k].id] = rows[jobs[k].id])
        BY <3>2 DEF Clear
      <4>. QED BY <1>1, <4>1, JobFrame
    <3>. QED BY <3>1, <3>2
  <2>. QED BY <1>3, <2>1
<1>5. TypeOK'
  <2>1. jobs' \in [Handlers -> Job]
    BY <1>2, <1>3 DEF JobOK
  <2>. QED BY <2>1 DEF TypeOK, Counts
<1>6. Apart(jobs')
  <2>1. ASSUME NEW k \in Handlers, NEW m \in Handlers, k # m, jobs'[k] # Idle, jobs'[m] # Idle
        PROVE  jobs'[k].id # jobs'[m].id /\ ~Rec(jobs'[k]) /\ ~Rec(jobs'[m])
    <3>1. CASE k # h /\ m # h
      BY <1>1, <1>3, <2>1, <3>1 DEF Apart
    <3>2. CASE k = h
      BY <1>3, <2>1, <3>2 DEF Clear
    <3>3. CASE m = h
      BY <1>3, <2>1, <3>3 DEF Clear
    <3>. QED BY <3>1, <3>2, <3>3
  <2>. QED BY <2>1 DEF Apart
<1>7. Balanced'
  <2>1. ASSUME NEW a \in Accounts PROVE Even(a)'
    <3>1. ~RecomputedBy(jobs, a)
      BY <1>3 DEF RecomputedBy, Clear
    <3>2. Even(a)
      BY <1>1, <3>1 DEF Balanced
    <3>3. Owing(jobs)
      BY InvOwing
    <3>4. \A b \in Accounts : Owes(j, b) \in Int
      BY JobOwes
    <3>5. RawOwed(jobs', a) = RawOwed(jobs, a) - Owes(jobs[h], a) + Owes(j, a)
      <4>1. Updated(jobs', jobs, h, j)
        BY DEF Updated
      <4>. QED BY <1>2, <3>3, <3>4, <4>1, RawOwedChange
    <3>6. RawOwed(jobs, a) \in Int /\ Owes(jobs[h], a) \in Int /\ Owes(j, a) \in Int
      BY <3>3, <3>4, RawOwedType DEF Owing
    <3>7. RawSum(rows, a) \in Int /\ RawSum(rows', a) \in Int
      BY <1>2, RawSumType
    <3>8. /\ balance[a] \in Int /\ drift[a] \in Int /\ balance'[a] \in Int /\ drift'[a] \in Int
          /\ opening[a] \in Int
      BY <1>1, GateAssumption DEF TypeOK, Counts
    <3>9. balance[a] + drift[a] + RawOwed(jobs, a) = opening[a] + RawSum(rows, a)
      BY <3>2 DEF Even
    <3>10. balance'[a] + drift'[a] - Owes(jobs[h], a) + Owes(j, a)
             = balance[a] + drift[a] + RawSum(rows', a) - RawSum(rows, a)
      BY DEF Shifted
    <3>11. balance'[a] + drift'[a] + RawOwed(jobs', a) = opening'[a] + RawSum(rows', a)
      <4> DEFINE b == balance[a]
                 d == drift[a]
                 p == RawOwed(jobs, a)
                 o == opening[a]
                 r == RawSum(rows, a)
                 b2 == balance'[a]
                 d2 == drift'[a]
                 r2 == RawSum(rows', a)
                 was == Owes(jobs[h], a)
                 is == Owes(j, a)
                 q2 == RawOwed(jobs', a)
      <4>1. opening'[a] = o
        OBVIOUS
      <4>2. /\ b \in Int /\ d \in Int /\ p \in Int /\ o \in Int /\ r \in Int /\ b2 \in Int
            /\ d2 \in Int /\ r2 \in Int /\ was \in Int /\ is \in Int
        BY <3>6, <3>7, <3>8
      <4>3. q2 = p - was + is /\ b + d + p = o + r /\ b2 + d2 - was + is = b + d + r2 - r
        BY <3>5, <3>9, <3>10
      <4>. HIDE DEF b, d, p, o, r, b2, d2, r2, was, is, q2
      <4>4. b2 + d2 + q2 = o + r2
        BY <4>2, <4>3
      <4>. QED BY <4>1, <4>4 DEF o, b2, d2, r2, q2
    <3>. QED BY <3>11 DEF Even
  <2>. QED BY <2>1 DEF Balanced
<1>. QED BY <1>4, <1>5, <1>6, <1>7 DEF GateInv

(* A step that writes no row, no total and owes what it owed before.        *)
LEMMA ReadingStep ==
    ASSUME GateInv, NEW h \in Handlers, NEW j, jobs' = [jobs EXCEPT ![h] = j],
           UNCHANGED <<opening, balance, rows, drift, faults>>,
           ~Rec(jobs[h]), ~Rec(j), JobOK(j, rows, opening),
           NEW i, Clear(h, i), j = Idle \/ j.id = i,
           \A a \in Accounts : Owes(j, a) = Owes(jobs[h], a)
    PROVE  GateInv'
<1>1. Counts' /\ Table(rows)
  BY DEF GateInv, TypeOK, Counts, Table
<1>2. ASSUME NEW a \in Accounts PROVE Shifted(h, j, a)
  <2>1. RawSum(rows, a) \in Int /\ balance[a] \in Int /\ drift[a] \in Int
    BY <1>1, RawSumType DEF GateInv, TypeOK
  <2>2. Owes(j, a) \in Int
    BY JobOwes
  <2>. QED BY <2>1, <2>2 DEF Shifted
<1>. QED BY <1>1, <1>2, OrdinaryStep

(* A step that writes the row it is about and no total.                     *)
LEMMA WritingStep ==
    ASSUME GateInv, NEW h \in Handlers, NEW j, jobs' = [jobs EXCEPT ![h] = j],
           NEW i \in Ids, NEW r \in Rows \cup {None}, rows' = [rows EXCEPT ![i] = r],
           UNCHANGED <<opening, balance, drift, faults>>,
           ~Rec(jobs[h]), ~Rec(j), JobOK(j, rows', opening),
           Clear(h, i), j = Idle \/ j.id = i,
           \A a \in Accounts : Owes(j, a) - Owes(jobs[h], a) = Moved(r, a) - Moved(rows[i], a)
    PROVE  GateInv'
<1>1. Table(rows) /\ rows[i] \in Rows \cup {None}
  BY DEF GateInv, TypeOK, Table
<1>2. Counts' /\ \A k \in Ids : k # i => rows'[k] = rows[k]
  BY DEF GateInv, TypeOK, Counts
<1>3. ASSUME NEW a \in Accounts PROVE Shifted(h, j, a)
  <2>1. RawSum(rows', a) = RawSum(rows, a) - Moved(rows[i], a) + Moved(r, a)
    <3>1. Updated(rows', rows, i, r)
      BY DEF Updated
    <3>. QED BY <1>1, <3>1, RawSumChange
  <2>2. RawSum(rows, a) \in Int /\ Moved(r, a) \in Int /\ Moved(rows[i], a) \in Int
    BY <1>1, RawSumType, MovedType
  <2>3. Owes(j, a) \in Int /\ Owes(jobs[h], a) \in Int
    BY JobOwes DEF GateInv
  <2>4. balance[a] \in Int /\ drift[a] \in Int
    BY DEF GateInv, TypeOK
  <2>5. Owes(j, a) - Owes(jobs[h], a) = Moved(r, a) - Moved(rows[i], a)
    OBVIOUS
  <2>. QED BY <2>1, <2>2, <2>3, <2>4, <2>5 DEF Shifted
<1>. QED BY <1>2, <1>3, OrdinaryStep

(* A request that takes its next step. *)
LEMMA JobStepped ==
    ASSUME NEW k \in Job, NEW at \in Steps, NEW i \in Ids \cup {None}, NEW r \in Rows
    PROVE  /\ [k EXCEPT !.step = at, !.id = i, !.new = r] \in Job
           /\ [k EXCEPT !.step = at, !.id = i, !.old = r] \in Job
BY DEF Job

LEMMA JobOwing ==
    ASSUME NEW k \in Job, NEW at \in Steps, NEW i \in Ids \cup {None}, NEW legs \in Seq(Leg)
    PROVE  [k EXCEPT !.step = at, !.legs = legs, !.id = i] \in Job
BY DEF Job

LEMMA IdleJob == Idle \in Job /\ {"created", "read", "written", "deleting", "legs"} \subseteq Steps
BY IdleOK DEF JobOK, Steps

LEMMA DoneOwes ==
    ASSUME NEW legs \in Seq(Leg), legs # <<>>, NEW i \in Ids, NEW j, j = [Done(legs) EXCEPT !.id = i],
           NEW t, NEW o
    PROVE  /\ JobOK(j, t, o) /\ ~Rec(j) /\ j.id = i
           /\ \A a \in Accounts : Owes(j, a) = SumOfLegs(legs, a)
<1>1. j = [Idle EXCEPT !.step = "legs", !.legs = legs, !.id = i]
  BY DEF Done, Idle
<1>2. /\ j.step = "legs" /\ j.legs = legs /\ j.id = i
      /\ j.account = None /\ j.accounts = {} /\ j.sum = 0 /\ j.old = None /\ j.new = None
  BY <1>1 DEF Idle
<1>3. j \in Job
  <2>1. Idle \in Job /\ "legs" \in Steps /\ i \in Ids \cup {None}
    BY IdleJob
  <2>2. [Idle EXCEPT !.step = "legs", !.legs = legs, !.id = i] \in Job
    BY <2>1, JobOwing
  <2>. QED BY <1>1, <2>2
<1>4. JobOK(j, t, o) /\ ~Rec(j)
  BY <1>2, <1>3 DEF JobOK, Rec
<1>. QED BY <1>2, <1>4, JobOwes

LEMMA IdleOwes == ASSUME NEW a PROVE Owes(Idle, a) = 0
BY DEF Owes, Idle

LEMMA CreateRowStep ==
    ASSUME GateInv, ~Overlap, NEW h \in Handlers, NEW i \in Ids, NEW r \in Rows, CreateRow(h, i, r)
    PROVE  GateInv'
<1> DEFINE j == [Idle EXCEPT !.step = "created", !.id = i, !.new = r]
<1>1. /\ jobs[h] = Idle /\ rows[i] = None /\ MayStart({i}) /\ rows' = [rows EXCEPT ![i] = r]
      /\ jobs' = [jobs EXCEPT ![h] = j] /\ UNCHANGED <<opening, balance, drift, faults>>
  BY DEF CreateRow, SetJob
<1>2. j.step = "created" /\ j.id = i /\ j.new = r /\ j \in Job
  <2>1. j.step = "created" /\ j.id = i /\ j.new = r
    BY DEF Idle
  <2>. QED BY <2>1, IdleJob, JobStepped
<1>. HIDE DEF j
<1>3. rows'[i] = r
  BY <1>1 DEF GateInv, TypeOK
<1>4. JobOK(j, rows', opening) /\ ~Rec(j)
  BY <1>2, <1>3 DEF JobOK, Rec
<1>5. Clear(h, i) /\ ~Rec(jobs[h])
  BY <1>1, ClearToStart, IdleOK
<1>6. ASSUME NEW a \in Accounts
      PROVE  Owes(j, a) - Owes(jobs[h], a) = Moved(r, a) - Moved(rows[i], a)
  <2>1. Owes(j, a) = Effect(r, a) /\ Owes(j, a) \in Int
    BY <1>2, <1>4, JobOwes
  <2>2. Owes(jobs[h], a) = 0
    BY <1>1, IdleOwes
  <2>3. Moved(r, a) = Effect(r, a) /\ Moved(rows[i], a) = 0
    BY <1>1, MovedType
  <2>. QED BY <2>1, <2>2, <2>3
<1>7. /\ jobs' = [jobs EXCEPT ![h] = j] /\ rows' = [rows EXCEPT ![i] = r] /\ j.id = i
      /\ UNCHANGED <<opening, balance, drift, faults>>
  BY <1>1, <1>2
<1>. QED BY <1>4, <1>5, <1>6, <1>7, WritingStep, ZenonT(40)

LEMMA ReadBackCreatedStep ==
    ASSUME GateInv, NEW h \in Handlers, ReadBackCreated(h)
    PROVE  GateInv'
<1>1. PICK i : i = jobs[h].id
  OBVIOUS
<1> DEFINE r == rows[i]
           j == [Done(LegsOf(r, 1)) EXCEPT !.id = i]
<1>2. JobOK(jobs[h], rows, opening) /\ jobs[h].step = "created"
  BY DEF GateInv, ReadBackCreated
<1>3. i \in Ids /\ r \in Rows /\ r = jobs[h].new /\ r # None
  BY <1>1, <1>2, NoneIsNoRow DEF JobOK
<1>4. jobs' = [jobs EXCEPT ![h] = j] /\ UNCHANGED <<opening, balance, rows, drift, faults>>
  BY <1>1, <1>3 DEF ReadBackCreated, SetJob
<1>5. /\ LegsOf(r, 1) \in Seq(Leg) /\ LegsOf(r, 1) # <<>>
      /\ \A a \in Accounts : SumOfLegs(LegsOf(r, 1), a) = Effect(r, a)
  <2>1. 1 \in {1, -1}
    OBVIOUS
  <2>2. ASSUME NEW a
        PROVE  /\ LegsOf(r, 1) \in Seq(Leg) /\ LegsOf(r, 1) # <<>> /\ Effect(r, a) \in Int
               /\ SumOfLegs(LegsOf(r, 1), a) = 1 * Effect(r, a)
    BY <1>3, <2>1, RowMoves
  <2>. QED BY <2>2
<1>. HIDE DEF r
<1>6. /\ JobOK(j, rows, opening) /\ ~Rec(j) /\ j.id = i
      /\ \A a \in Accounts : Owes(j, a) = SumOfLegs(LegsOf(r, 1), a)
  BY <1>3, <1>5, DoneOwes
<1>. HIDE DEF j
<1>7. ASSUME NEW a \in Accounts PROVE Owes(j, a) = Owes(jobs[h], a)
  BY <1>2, <1>3, <1>5, <1>6, JobOwes
<1>8. jobs[h] # Idle /\ ~Rec(jobs[h])
  BY <1>2 DEF Idle, Rec
<1>9. Clear(h, i)
  BY <1>1, <1>8, ClearAtWork
<1>. QED BY <1>4, <1>6, <1>7, <1>8, <1>9, ReadingStep

(* Reading the row to be edited or deleted. *)
LEMMA ReadRowStep ==
    ASSUME GateInv, ~Overlap, NEW h \in Handlers, NEW i \in Ids, NEW at \in {"read", "deleting"},
           jobs[h] = Idle, rows[i] # None, MayStart({i}),
           jobs' = [jobs EXCEPT ![h] = [Idle EXCEPT !.step = at, !.id = i, !.old = rows[i]]],
           UNCHANGED <<opening, balance, rows, drift, faults>>
    PROVE  GateInv'
<1> DEFINE j == [Idle EXCEPT !.step = at, !.id = i, !.old = rows[i]]
<1>1. rows[i] \in Rows
  BY DEF GateInv, TypeOK
<1>2. j.step = at /\ j.id = i /\ j.old = rows[i] /\ j \in Job
  <2>1. j.step = at /\ j.id = i /\ j.old = rows[i]
    BY DEF Idle
  <2>. QED BY <1>1, <2>1, IdleJob, JobStepped
<1>3. jobs' = [jobs EXCEPT ![h] = j]
  OBVIOUS
<1>. HIDE DEF j
<1>4. JobOK(j, rows, opening) /\ ~Rec(j)
  BY <1>1, <1>2 DEF JobOK, Rec
<1>5. Clear(h, i) /\ ~Rec(jobs[h])
  BY ClearToStart, IdleOK
<1>6. ASSUME NEW a \in Accounts PROVE Owes(j, a) = Owes(jobs[h], a)
  BY <1>2, <1>4, JobOwes, IdleOwes
<1>. QED BY <1>2, <1>3, <1>4, <1>5, <1>6, ReadingStep, ZenonT(40)

LEMMA WriteRowStep ==
    ASSUME GateInv, NEW h \in Handlers, NEW r \in Rows, WriteRow(h, r)
    PROVE  GateInv'
<1>1. PICK i : i = jobs[h].id
  OBVIOUS
<1> DEFINE j == [jobs[h] EXCEPT !.step = "written", !.new = r]
<1>2. JobOK(jobs[h], rows, opening) /\ jobs[h].step = "read"
  BY DEF GateInv, WriteRow
<1>3. i \in Ids /\ rows[i] = jobs[h].old /\ jobs[h].old \in Rows /\ rows[i] # None
  BY <1>1, <1>2, NoneIsNoRow DEF JobOK
<1>4. /\ rows' = [rows EXCEPT ![i] = r] /\ jobs' = [jobs EXCEPT ![h] = j]
      /\ UNCHANGED <<opening, balance, drift, faults>>
  BY <1>1, <1>3 DEF WriteRow, SetJob
<1>5. j.step = "written" /\ j.new = r /\ j.old = rows[i] /\ j.id = i /\ j \in Job
  <2>1. jobs[h] \in Job
    BY <1>2 DEF JobOK
  <2>. QED BY <1>1, <1>3, <2>1 DEF Job, Steps
<1>. HIDE DEF j
<1>6. rows'[i] = r
  BY <1>3, <1>4 DEF GateInv, TypeOK
<1>7. JobOK(j, rows', opening) /\ ~Rec(j)
  BY <1>3, <1>5, <1>6 DEF JobOK, Rec
<1>8. jobs[h] # Idle /\ ~Rec(jobs[h])
  BY <1>2 DEF Idle, Rec
<1>9. Clear(h, i)
  BY <1>1, <1>8, ClearAtWork
<1>10. ASSUME NEW a \in Accounts
       PROVE  Owes(j, a) - Owes(jobs[h], a) = Moved(r, a) - Moved(rows[i], a)
  <2>1. Owes(j, a) = Effect(r, a) - Effect(rows[i], a)
    BY <1>5, <1>7, JobOwes
  <2>2. Owes(jobs[h], a) = 0
    BY <1>2, JobOwes
  <2>3. Moved(r, a) = Effect(r, a) /\ Moved(rows[i], a) = Effect(rows[i], a)
        /\ Moved(r, a) \in Int /\ Moved(rows[i], a) \in Int
    BY <1>3, MovedType
  <2>. QED BY <2>1, <2>2, <2>3
<1>. QED BY <1>3, <1>4, <1>5, <1>7, <1>8, <1>9, <1>10, WritingStep, ZenonT(40)

LEMMA ReadBackUpdatedStep ==
    ASSUME GateInv, NEW h \in Handlers, ReadBackUpdated(h)
    PROVE  GateInv'
<1>1. PICK i : i = jobs[h].id
  OBVIOUS
<1>2. PICK r, old : r = rows[i] /\ old = jobs[h].old
  OBVIOUS
<1> DEFINE legs == LegsOf(old, -1) \o LegsOf(r, 1)
           j == [Done(legs) EXCEPT !.id = i]
<1>3. JobOK(jobs[h], rows, opening) /\ jobs[h].step = "written"
  BY DEF GateInv, ReadBackUpdated
<1>4. i \in Ids /\ r \in Rows /\ old \in Rows /\ r = jobs[h].new /\ r # None
  BY <1>1, <1>2, <1>3, NoneIsNoRow DEF JobOK
<1>5. jobs' = [jobs EXCEPT ![h] = j] /\ UNCHANGED <<opening, balance, rows, drift, faults>>
  BY <1>1, <1>2, <1>4 DEF ReadBackUpdated, SetJob
<1>6. /\ legs \in Seq(Leg) /\ legs # <<>>
      /\ \A a \in Accounts : SumOfLegs(legs, a) = Effect(r, a) - Effect(old, a)
  <2>1. 1 \in {1, -1} /\ -1 \in {1, -1}
    OBVIOUS
  <2> DEFINE tail == LegsOf(r, 1)
  <2>2. ASSUME NEW a
        PROVE  /\ tail \in Seq(Leg) /\ Effect(r, a) \in Int
               /\ SumOfLegs(tail, a) = 1 * Effect(r, a)
    BY <1>4, <2>1, RowMoves
  <2>. HIDE DEF tail
  <2>3. ASSUME NEW a
        PROVE  /\ LegsOf(old, -1) \o tail \in Seq(Leg) /\ LegsOf(old, -1) \o tail # <<>>
               /\ SumOfLegs(LegsOf(old, -1) \o tail, a) = -1 * Effect(old, a) + SumOfLegs(tail, a)
               /\ Effect(old, a) \in Int
    BY <1>4, <2>1, <2>2, LegsFollow
  <2>4. legs = LegsOf(old, -1) \o tail
    BY DEF tail
  <2>. HIDE DEF legs
  <2>5. ASSUME NEW a PROVE SumOfLegs(legs, a) = Effect(r, a) - Effect(old, a)
    BY <2>2, <2>3, <2>4
  <2>6. legs \in Seq(Leg) /\ legs # <<>>
    BY <2>3, <2>4
  <2>. QED BY <2>5, <2>6
<1>. HIDE DEF legs
<1>7. /\ JobOK(j, rows, opening) /\ ~Rec(j) /\ j.id = i
      /\ \A a \in Accounts : Owes(j, a) = SumOfLegs(legs, a)
  BY <1>4, <1>6, DoneOwes
<1>. HIDE DEF j
<1>8. ASSUME NEW a \in Accounts PROVE Owes(j, a) = Owes(jobs[h], a)
  BY <1>2, <1>3, <1>4, <1>6, <1>7, JobOwes
<1>9. jobs[h] # Idle /\ ~Rec(jobs[h])
  BY <1>3 DEF Idle, Rec
<1>10. Clear(h, i)
  BY <1>1, <1>9, ClearAtWork
<1>. QED BY <1>5, <1>7, <1>8, <1>9, <1>10, ReadingStep

LEMMA DeleteRowStep ==
    ASSUME GateInv, NEW h \in Handlers, DeleteRow(h)
    PROVE  GateInv'
<1>1. PICK i, old : i = jobs[h].id /\ old = jobs[h].old
  OBVIOUS
<1> DEFINE legs == LegsOf(old, -1)
           j == [Done(legs) EXCEPT !.id = i]
<1>2. JobOK(jobs[h], rows, opening) /\ jobs[h].step = "deleting"
  BY DEF GateInv, DeleteRow
<1>3. i \in Ids /\ old \in Rows /\ rows[i] = old /\ rows[i] # None
  BY <1>1, <1>2, NoneIsNoRow DEF JobOK
<1>4. /\ rows' = [rows EXCEPT ![i] = None] /\ jobs' = [jobs EXCEPT ![h] = j]
      /\ UNCHANGED <<opening, balance, drift, faults>>
  BY <1>1, <1>3 DEF DeleteRow, SetJob
<1>5. ASSUME NEW a
      PROVE  /\ legs \in Seq(Leg) /\ legs # <<>> /\ SumOfLegs(legs, a) = -Effect(old, a)
             /\ Effect(old, a) \in Int
  <2>1. -1 \in {1, -1}
    OBVIOUS
  <2>2. /\ legs \in Seq(Leg) /\ legs # <<>> /\ Effect(old, a) \in Int
        /\ SumOfLegs(legs, a) = -1 * Effect(old, a)
    BY <1>3, <2>1, RowMoves
  <2>. HIDE DEF legs
  <2>. QED BY <2>2
<1>6. legs \in Seq(Leg) /\ legs # <<>>
  BY <1>5
<1>. HIDE DEF legs
<1>7. /\ JobOK(j, rows', opening) /\ ~Rec(j) /\ j.id = i
      /\ \A a \in Accounts : Owes(j, a) = SumOfLegs(legs, a)
  BY <1>3, <1>6, DoneOwes
<1>. HIDE DEF j
<1>8. jobs[h] # Idle /\ ~Rec(jobs[h])
  BY <1>2 DEF Idle, Rec
<1>9. Clear(h, i)
  BY <1>1, <1>8, ClearAtWork
<1>10. ASSUME NEW a \in Accounts
       PROVE  Owes(j, a) - Owes(jobs[h], a) = Moved(None, a) - Moved(rows[i], a)
  <2>1. Owes(j, a) = -Effect(old, a) /\ Effect(old, a) \in Int
    BY <1>5, <1>7
  <2>2. Owes(jobs[h], a) = 0
    BY <1>2, JobOwes
  <2>3. Moved(None, a) = 0 /\ Moved(rows[i], a) = Effect(old, a)
    BY <1>3, MovedType
  <2>. QED BY <2>1, <2>2, <2>3
<1>. QED BY <1>3, <1>4, <1>7, <1>8, <1>9, <1>10, WritingStep, ZenonT(40)

LEMMA ApplyLegStep ==
    ASSUME GateInv, NEW h \in Handlers, ApplyLeg(h)
    PROVE  GateInv'
<1>1. PICK i, legs : i = jobs[h].id /\ legs = jobs[h].legs
  OBVIOUS
<1>2. PICK leg, rest : leg = Head(legs) /\ rest = Tail(legs)
  OBVIOUS
<1>3. JobOK(jobs[h], rows, opening) /\ jobs[h].step = "legs"
  BY DEF GateInv, ApplyLeg
<1>4. i \in Ids /\ legs \in Seq(Leg) /\ legs # <<>>
  BY <1>1, <1>3 DEF JobOK, Job
<1>5. rest \in Seq(Leg) /\ leg \in Leg
  BY <1>2, <1>4
<1>6. leg.account \in Accounts /\ leg.delta \in Int
  BY <1>5 DEF Leg
<1>7. PICK j : /\ j = [Done(rest) EXCEPT !.id = IF rest = <<>> THEN None ELSE i]
              /\ jobs' = [jobs EXCEPT ![h] = j]
  BY <1>1, <1>2 DEF ApplyLeg, SetJob
<1>8. /\ balance' = [balance EXCEPT ![leg.account] = @ + leg.delta]
      /\ UNCHANGED <<opening, rows, drift, faults>>
  BY <1>1, <1>2 DEF ApplyLeg
<1>9. /\ JobOK(j, rows, opening) /\ ~Rec(j) /\ (j = Idle \/ j.id = i)
      /\ \A a \in Accounts : Owes(j, a) = SumOfLegs(rest, a)
  <2>1. CASE rest = <<>>
    <3>1. j = Idle
      BY <1>7, <2>1 DEF Done, Idle
    <3>. QED BY <2>1, <3>1, IdleOK, IdleOwes, LegSumEmpty
  <2>2. CASE rest # <<>>
    <3>1. j = [Done(rest) EXCEPT !.id = i]
      BY <1>7, <2>2
    <3>. QED BY <1>4, <1>5, <2>2, <3>1, DoneOwes
  <2>. QED BY <2>1, <2>2
<1>10. jobs[h] # Idle /\ ~Rec(jobs[h])
  BY <1>3 DEF Idle, Rec
<1>11. Clear(h, i)
  BY <1>1, <1>10, ClearAtWork
<1>12. Counts'
  BY <1>6, <1>8 DEF GateInv, TypeOK, Counts
<1>13. ASSUME NEW a \in Accounts PROVE Shifted(h, j, a)
  <2>1. Owes(jobs[h], a) = SumOfLegs(legs, a)
    BY <1>1, <1>3, JobOwes
  <2>2. SumOfLegs(legs, a) = LegOn(leg, a) + SumOfLegs(rest, a)
    BY <1>2, <1>4, LegSumHead
  <2>3. Owes(j, a) = SumOfLegs(rest, a) /\ SumOfLegs(rest, a) \in Int
    BY <1>5, <1>9, LegSumType
  <2>4. balance'[a] = balance[a] + LegOn(leg, a) /\ LegOn(leg, a) \in Int /\ balance[a] \in Int
    <3>1. balance \in [Accounts -> Int]
      BY DEF GateInv, TypeOK
    <3>2. CASE a = leg.account
      BY <1>6, <1>8, <3>1, <3>2 DEF LegOn
    <3>3. CASE a # leg.account
      BY <1>6, <1>8, <3>1, <3>3 DEF LegOn
    <3>. QED BY <3>2, <3>3
  <2>5. drift'[a] = drift[a] /\ drift[a] \in Int
    BY <1>8 DEF GateInv, TypeOK
  <2>6. RawSum(rows', a) = RawSum(rows, a) /\ RawSum(rows, a) \in Int
    BY <1>8, RawSumType DEF GateInv, TypeOK, Table
  <2>. QED BY <2>1, <2>2, <2>3, <2>4, <2>5, <2>6 DEF Shifted
<1>. QED BY <1>7, <1>8, <1>9, <1>10, <1>11, <1>12, <1>13, OrdinaryStep

(* The definitions of the module, in terms of those above. *)
LEMMA Terms ==
    /\ \A a : RowSum(a) = RawSum(rows, a)
    /\ \A h \in Handlers, a \in Accounts : Pending(h, a) = Owes(jobs[h], a)
    /\ \A a : Recomputed(a) <=> RecomputedBy(jobs, a)
    /\ \A h : Recomputes(h) <=> Rec(jobs[h])
<1>1. \A a : RowSum(a) = RawSum(rows, a)
  BY DEF RowSum, RawSum
<1>2. \A h \in Handlers, a \in Accounts : Pending(h, a) = Owes(jobs[h], a)
  BY DEF Pending, Owes
<1>3. /\ \A a : Recomputed(a) <=> RecomputedBy(jobs, a)
      /\ \A h : Recomputes(h) <=> Rec(jobs[h])
  BY DEF Recomputed, RecomputedBy, Recomputes, Rec
<1>. QED BY <1>1, <1>2, <1>3

(* A request that dies without having recomputed anything.                  *)
LEMMA DieStep ==
    ASSUME GateInv, NEW h \in Handlers, Die(h), ~Rec(jobs[h])
    PROVE  GateInv'
<1>1. /\ jobs[h] # Idle /\ jobs' = [jobs EXCEPT ![h] = Idle] /\ faults' = faults + 1
      /\ faults < MaxFaults /\ UNCHANGED <<opening, balance, rows>>
      /\ drift' = [a \in Accounts |->
                    IF Recomputed(a) THEN opening[a] + RowSum(a) - balance[a]
                                     ELSE drift[a] + Pending(h, a)]
  BY DEF Die, SetJob
<1>2. PICK i : i = jobs[h].id
  OBVIOUS
<1>3. Clear(h, i)
  BY <1>1, <1>2, ClearAtWork
<1>4. ASSUME NEW a \in Accounts PROVE drift'[a] = drift[a] + Owes(jobs[h], a)
  <2>1. ~RecomputedBy(jobs, a)
    BY <1>3 DEF Clear, RecomputedBy
  <2>2. ~Recomputed(a) /\ Pending(h, a) = Owes(jobs[h], a)
    BY <2>1, Terms
  <2>. QED BY <1>1, <2>2
<1>5. /\ \A a \in Accounts : Owes(jobs[h], a) \in Int /\ drift[a] \in Int /\ balance[a] \in Int
      /\ Table(rows) /\ faults \in 0..MaxFaults /\ MaxFaults \in Nat
  BY JobOwes, GateAssumption DEF GateInv, TypeOK, Table
<1>6. Counts'
  <2>1. drift' = [a \in Accounts |-> drift'[a]]
    BY <1>1
  <2>2. drift' \in [Accounts -> Int]
    BY <1>4, <1>5, <2>1
  <2>. QED BY <1>1, <1>5, <2>2 DEF GateInv, TypeOK, Counts
<1>7. ASSUME NEW a \in Accounts PROVE Shifted(h, Idle, a)
  <2>1. Owes(Idle, a) = 0 /\ RawSum(rows', a) = RawSum(rows, a) /\ RawSum(rows, a) \in Int
    BY <1>1, <1>5, IdleOwes, RawSumType
  <2>. QED BY <1>1, <1>4, <1>5, <2>1 DEF Shifted
<1>8. JobOK(Idle, rows', opening) /\ ~Rec(Idle) /\ \A k \in Ids : k # i => rows'[k] = rows[k]
  BY <1>1, IdleOK
<1> DEFINE j == Idle
<1>9. jobs' = [jobs EXCEPT ![h] = j] /\ j = Idle /\ opening' = opening
  BY <1>1
<1>. HIDE DEF j
<1>10. JobOK(j, rows', opening) /\ ~Rec(j) /\ (\A a \in Accounts : Shifted(h, j, a))
  BY <1>7, <1>8, <1>9
<1>. QED BY <1>3, <1>6, <1>8, <1>9, <1>10, OrdinaryStep

-----------------------------------------------------------------------------
(* Steps of a recomputation, which is alone.                                *)

Alone(h) == \A k \in Handlers \ {h} : jobs[k] = Idle
Booked(b, d, t, a) == b[a] + d[a] = opening[a] + RawSum(t, a)

LEMMA AloneOwes ==
    ASSUME GateInv, NEW h \in Handlers, Alone(h), jobs[h] = Idle \/ Rec(jobs[h]), NEW a \in Accounts
    PROVE  RawOwed(jobs, a) = 0
<1>1. JobOK(jobs[h], rows, opening)
  BY DEF GateInv
<1>2. Owes(jobs[h], a) = 0
  BY <1>1, IdleOwes, JobOwes DEF Rec
<1>3. \A k \in Handlers : Owes(jobs[k], a) = 0
  BY <1>2, IdleOwes DEF Alone
<1>. QED BY <1>3, NothingOwed

LEMMA AloneBooked ==
    ASSUME GateInv, NEW h \in Handlers, Alone(h), jobs[h] = Idle \/ Rec(jobs[h]), NEW a \in Accounts,
           jobs[h] = Idle \/ a \notin jobs[h].accounts \cup {jobs[h].account}
    PROVE  Booked(balance, drift, rows, a)
<1>1. ~RecomputedBy(jobs, a)
  BY IdleOK DEF RecomputedBy, Alone
<1>2. Even(a)
  BY <1>1 DEF GateInv, Balanced
<1>3. RawOwed(jobs, a) = 0 /\ balance[a] \in Int /\ drift[a] \in Int
  BY AloneOwes DEF GateInv, TypeOK
<1>. QED BY <1>2, <1>3 DEF Even, Booked

LEMMA AloneAtWork ==
    ASSUME GateInv, NEW h \in Handlers, Rec(jobs[h])
    PROVE  Alone(h)
<1>1. jobs[h] # Idle
  BY IdleOK
<1>. QED BY <1>1 DEF GateInv, Apart, Alone

LEMMA AloneToStart ==
    ASSUME Active = {}, NEW h \in Handlers
    PROVE  Alone(h)
BY DEF Active, Alone

LEMMA AloneStep ==
    ASSUME GateInv, NEW h \in Handlers, Alone(h), NEW j, jobs' = [jobs EXCEPT ![h] = j], Counts',
           opening' = opening, JobOK(j, rows', opening), j = Idle \/ Rec(j),
           \A a \in Accounts : \/ Rec(j) /\ a \in j.accounts \cup {j.account}
                               \/ Booked(balance', drift', rows', a)
    PROVE  GateInv'
<1>1. jobs \in [Handlers -> Job]
  BY DEF GateInv, TypeOK
<1>2. jobs'[h] = j /\ \A k \in Handlers \ {h} : jobs'[k] = Idle
  BY <1>1 DEF Alone
<1>3. \A k \in Handlers : JobOK(jobs'[k], rows', opening')
  BY <1>2, IdleOK
<1>4. TypeOK'
  <2>1. jobs' \in [Handlers -> Job]
    BY <1>1, <1>2 DEF JobOK
  <2>. QED BY <2>1 DEF TypeOK, Counts
<1>5. Apart(jobs')
  BY <1>2 DEF Apart
<1>6. Balanced'
  <2>1. ASSUME NEW a \in Accounts PROVE RecomputedBy(jobs', a) \/ Even(a)'
    <3>1. CASE Rec(j) /\ a \in j.accounts \cup {j.account}
      BY <1>2, <3>1 DEF RecomputedBy
    <3>2. CASE Booked(balance', drift', rows', a)
      <4>1. Owes(j, a) = 0
        BY JobOwes, IdleOwes DEF Rec
      <4>2. \A k \in Handlers : Owes(jobs'[k], a) = 0
        BY <1>2, <4>1, IdleOwes
      <4>3. RawOwed(jobs', a) = 0
        BY <4>2, NothingOwed
      <4>4. balance'[a] \in Int /\ drift'[a] \in Int
        BY DEF Counts
      <4>5. balance'[a] + drift'[a] = opening[a] + RawSum(rows', a)
        BY <3>2 DEF Booked
      <4>6. balance'[a] + drift'[a] + RawOwed(jobs', a) = opening'[a] + RawSum(rows', a)
        BY <4>3, <4>4, <4>5
      <4>. QED BY <4>6 DEF Even
    <3>. QED BY <3>1, <3>2
  <2>. QED BY <2>1 DEF Balanced
<1>. QED BY <1>3, <1>4, <1>5, <1>6 DEF GateInv

LEMMA RowsTable == GateInv => Table(rows) /\ Counts
BY DEF GateInv, TypeOK, Table, Counts

(* A recomputation that takes its next step. *)
LEMMA JobSummed ==
    ASSUME NEW k \in Job, NEW at \in Steps, NEW a \in Accounts \cup {None}, NEW n \in Int,
           NEW todo \in SUBSET Accounts
    PROVE  /\ [k EXCEPT !.step = at, !.account = a, !.sum = n] \in Job
           /\ [k EXCEPT !.step = at, !.account = a, !.sum = n, !.accounts = todo] \in Job
           /\ [k EXCEPT !.step = at, !.accounts = todo] \in Job
BY DEF Job

LEMMA ReadSumStep ==
    ASSUME GateInv, ~Overlap, NEW h \in Handlers, NEW a \in Accounts, ReadSum(h, a)
    PROVE  GateInv'
<1> DEFINE n == opening[a] + RowSum(a)
           j == [Idle EXCEPT !.step = "summed", !.account = a, !.sum = n]
<1>1. /\ jobs[h] = Idle /\ Active = {} /\ jobs' = [jobs EXCEPT ![h] = j]
      /\ UNCHANGED <<opening, balance, rows, drift, faults>>
  BY DEF ReadSum, SetJob
<1>2. n = opening[a] + RawSum(rows, a) /\ n \in Int
  <2>1. opening[a] \in Int /\ RawSum(rows, a) \in Int /\ RowSum(a) = RawSum(rows, a)
    BY RowsTable, RawSumType, Terms, GateAssumption DEF Counts
  <2>. QED BY <2>1
<1>. HIDE DEF n
<1>3. j.step = "summed" /\ j.account = a /\ j.sum = n /\ j.accounts = {}
  BY DEF Idle
<1>4. j \in Job
  <2>1. Idle \in Job /\ "summed" \in Steps /\ a \in Accounts \cup {None} /\ {} \in SUBSET Accounts
    BY IdleJob DEF Steps
  <2>. QED BY <1>2, <2>1, JobSummed
<1>. HIDE DEF j
<1>5. JobOK(j, rows', opening) /\ Rec(j)
  BY <1>1, <1>2, <1>3, <1>4 DEF JobOK, Rec
<1>6. Alone(h)
  BY <1>1, AloneToStart
<1>7. ASSUME NEW b \in Accounts PROVE Booked(balance', drift', rows', b)
  BY <1>1, <1>6, AloneBooked
<1>8. Counts'
  BY <1>1, RowsTable DEF Counts
<1>. QED BY <1>1, <1>5, <1>6, <1>7, <1>8, AloneStep

LEMMA DeleteImportedStep ==
    ASSUME GateInv, ~Overlap, NEW h \in Handlers, DeleteImported(h)
    PROVE  GateInv'
<1> DEFINE j == [Idle EXCEPT !.step = "wiping", !.accounts = Accounts]
<1>1. /\ jobs[h] = Idle /\ Active = {} /\ jobs' = [jobs EXCEPT ![h] = j]
      /\ rows' = [i \in Ids |-> IF i \in ImportedIds THEN None ELSE rows[i]]
      /\ UNCHANGED <<opening, balance, drift, faults>>
  BY DEF DeleteImported, SetJob
<1>2. j.step = "wiping" /\ j.account = None /\ j.accounts = Accounts
  BY DEF Idle
<1>3. j \in Job
  <2>1. Idle \in Job /\ "wiping" \in Steps /\ None \in Accounts \cup {None} /\ 0 \in Int
        /\ Accounts \in SUBSET Accounts
    BY IdleJob DEF Steps
  <2>. QED BY <2>1, JobSummed
<1>. HIDE DEF j
<1>4. JobOK(j, rows', opening) /\ Rec(j)
  BY <1>2, <1>3 DEF JobOK, Rec
<1>5. Alone(h)
  BY <1>1, AloneToStart
<1>6. Counts'
  BY <1>1, RowsTable DEF Counts
<1>7. \A a \in Accounts : Rec(j) /\ a \in j.accounts \cup {j.account}
  BY <1>2, <1>4
<1>. QED BY <1>1, <1>4, <1>5, <1>6, <1>7, AloneStep

LEMMA SumFromZeroStep ==
    ASSUME GateInv, NEW h \in Handlers, NEW a \in Accounts, SumFromZero(h, a)
    PROVE  GateInv'
<1>1. PICK k, todo : k = jobs[h] /\ todo = jobs[h].accounts \ {a}
  OBVIOUS
<1> DEFINE n == RowSum(a)
           j == [k EXCEPT !.step = "zeroed", !.account = a, !.sum = n, !.accounts = todo]
<1>2. /\ k.step = "wiping" /\ a \in k.accounts /\ jobs' = [jobs EXCEPT ![h] = j]
      /\ UNCHANGED <<opening, balance, rows, drift, faults>>
  BY <1>1 DEF SumFromZero, SetJob
<1>3. JobOK(k, rows, opening) /\ k \in Job /\ k.account = None /\ k.accounts \in SUBSET Accounts
  BY <1>1, <1>2 DEF GateInv, JobOK, Job
<1>4. n = RawSum(rows, a) /\ n \in Int
  BY RowsTable, RawSumType, Terms
<1>. HIDE DEF n
<1>5. j.step = "zeroed" /\ j.account = a /\ j.sum = n /\ j.accounts = todo
  BY <1>3 DEF Job
<1>6. j \in Job
  <2>1. "zeroed" \in Steps /\ a \in Accounts \cup {None} /\ todo \in SUBSET Accounts
    BY <1>1, <1>3 DEF Steps
  <2>. QED BY <1>3, <1>4, <2>1, JobSummed
<1>. HIDE DEF j
<1>7. JobOK(j, rows', opening) /\ Rec(j) /\ Rec(jobs[h])
  BY <1>1, <1>2, <1>4, <1>5, <1>6 DEF JobOK, Rec
<1>8. Alone(h)
  BY <1>7, AloneAtWork
<1>9. Counts'
  BY <1>2, RowsTable DEF Counts
<1>10. ASSUME NEW b \in Accounts, b \notin j.accounts \cup {j.account}
       PROVE  Booked(balance', drift', rows', b)
  <2>1. b \notin jobs[h].accounts \cup {jobs[h].account}
    BY <1>1, <1>3, <1>5, <1>10, GateAssumption
  <2>2. Booked(balance, drift, rows, b)
    BY <1>7, <1>8, <2>1, AloneBooked
  <2>. QED BY <1>2, <2>2
<1>. QED BY <1>2, <1>7, <1>8, <1>9, <1>10, AloneStep

LEMMA WriteSumStep ==
    ASSUME GateInv, NEW h \in Handlers, WriteSum(h)
    PROVE  GateInv'
<1>1. PICK k, a : k = jobs[h] /\ a = jobs[h].account
  OBVIOUS
<1>2. PICK n : n = IF k.step = "zeroed" THEN opening[a] ELSE 0
  OBVIOUS
<1>3. PICK j : j = IF k.accounts = {} THEN Idle
                  ELSE [k EXCEPT !.step = "wiping", !.account = None, !.sum = 0]
  OBVIOUS
<1>4. /\ k.step \in {"zeroed", "summed"} /\ balance' = [balance EXCEPT ![a] = k.sum]
      /\ drift' = [drift EXCEPT ![a] = n] /\ jobs' = [jobs EXCEPT ![h] = j]
      /\ UNCHANGED <<opening, rows, faults>>
  BY <1>1, <1>2, <1>3 DEF WriteSum, SetJob
<1>5. JobOK(k, rows, opening) /\ k \in Job /\ a \in Accounts /\ k.sum \in Int
      /\ k.accounts \in SUBSET Accounts
  BY <1>1, <1>4 DEF GateInv, JobOK, Job
<1>6. opening[a] \in Int /\ RawSum(rows, a) \in Int /\ n \in Int
      /\ balance \in [Accounts -> Int] /\ drift \in [Accounts -> Int]
  BY <1>2, <1>5, RowsTable, RawSumType, GateAssumption DEF Counts
<1>7. k.sum + n = opening[a] + RawSum(rows, a)
  <2>1. CASE k.step = "zeroed"
    BY <1>1, <1>2, <1>5, <1>6, <2>1 DEF JobOK
  <2>2. CASE k.step = "summed"
    BY <1>1, <1>2, <1>5, <1>6, <2>2 DEF JobOK
  <2>. QED BY <1>4, <2>1, <2>2
<1>8. Rec(jobs[h]) /\ Alone(h)
  BY <1>1, <1>4, AloneAtWork DEF Rec
<1>9. /\ JobOK(j, rows', opening) /\ (j = Idle \/ Rec(j))
      /\ \A b \in k.accounts : Rec(j) /\ b \in j.accounts \cup {j.account}
  <2>1. CASE k.accounts = {}
    BY <1>3, <2>1, IdleOK
  <2>2. CASE k.accounts # {}
    <3>1. j = [k EXCEPT !.step = "wiping", !.account = None, !.sum = 0]
      BY <1>3, <2>2
    <3>2. j.step = "wiping" /\ j.account = None /\ j.accounts = k.accounts
      BY <1>5, <3>1 DEF Job
    <3>3. j \in Job
      <4>1. "wiping" \in Steps /\ None \in Accounts \cup {None} /\ 0 \in Int /\ {} \in SUBSET Accounts
        BY DEF Steps
      <4>. QED BY <1>5, <3>1, <4>1, JobSummed
    <3>. QED BY <3>2, <3>3 DEF JobOK, Rec
  <2>. QED BY <2>1, <2>2
<1>10. Counts'
  BY <1>4, <1>5, <1>6, RowsTable DEF Counts
<1>11. ASSUME NEW b \in Accounts, b \notin k.accounts PROVE Booked(balance', drift', rows', b)
  <2>1. CASE b = a
    <3>1. balance'[a] = k.sum /\ drift'[a] = n
      BY <1>4, <1>5, <1>6
    <3>. QED BY <1>4, <1>7, <2>1, <3>1 DEF Booked
  <2>2. CASE b # a
    <3>1. balance'[b] = balance[b] /\ drift'[b] = drift[b]
      BY <1>4, <1>6, <2>2
    <3>2. b \notin jobs[h].accounts \cup {jobs[h].account}
      BY <1>1, <1>11, <2>2
    <3>3. Booked(balance, drift, rows, b)
      BY <1>8, <3>2, AloneBooked
    <3>. QED BY <1>4, <3>1, <3>3 DEF Booked
  <2>. QED BY <2>1, <2>2
<1>12. \A b \in Accounts : \/ Rec(j) /\ b \in j.accounts \cup {j.account}
                          \/ Booked(balance', drift', rows', b)
  BY <1>9, <1>11
<1>. QED BY <1>4, <1>8, <1>9, <1>10, <1>12, AloneStep

(* A recomputation that dies. *)
LEMMA DieRecomputing ==
    ASSUME GateInv, NEW h \in Handlers, Die(h), Rec(jobs[h])
    PROVE  GateInv'
<1>1. /\ jobs' = [jobs EXCEPT ![h] = Idle] /\ faults' = faults + 1
      /\ faults < MaxFaults /\ UNCHANGED <<opening, balance, rows>>
      /\ drift' = [a \in Accounts |->
                    IF Recomputed(a) THEN opening[a] + RowSum(a) - balance[a]
                                     ELSE drift[a] + Pending(h, a)]
  BY DEF Die, SetJob
<1>2. Alone(h)
  BY AloneAtWork
<1>3. ASSUME NEW a \in Accounts
      PROVE  /\ opening[a] \in Int /\ RawSum(rows, a) \in Int /\ RowSum(a) = RawSum(rows, a)
             /\ balance[a] \in Int /\ drift[a] \in Int /\ Pending(h, a) = 0
  <2>1. JobOK(jobs[h], rows, opening)
    BY DEF GateInv
  <2>2. Pending(h, a) = 0
    BY <2>1, Terms, JobOwes DEF Rec
  <2>. QED BY <2>2, RowsTable, RawSumType, Terms, GateAssumption DEF Counts
<1>4. ASSUME NEW a \in Accounts PROVE drift'[a] \in Int /\ Booked(balance', drift', rows', a)
  <2>1. CASE Recomputed(a)
    <3>1. drift'[a] = opening[a] + RowSum(a) - balance[a]
      BY <1>1, <2>1
    <3>. QED BY <1>1, <1>3, <3>1 DEF Booked
  <2>2. CASE ~Recomputed(a)
    <3>1. drift'[a] = drift[a] + Pending(h, a)
      BY <1>1, <2>2
    <3>2. drift'[a] = drift[a]
      BY <1>3, <3>1
    <3>3. a \notin jobs[h].accounts \cup {jobs[h].account}
      BY <2>2, Terms DEF RecomputedBy
    <3>4. Booked(balance, drift, rows, a)
      BY <1>2, <3>3, AloneBooked
    <3>. QED BY <1>1, <1>3, <3>2, <3>4 DEF Booked
  <2>. QED BY <2>1, <2>2
<1>5. Counts'
  <2>1. drift' = [a \in Accounts |-> drift'[a]]
    BY <1>1
  <2>2. drift' \in [Accounts -> Int]
    BY <1>4, <2>1
  <2>3. faults \in 0..MaxFaults /\ MaxFaults \in Nat
    BY GateAssumption, RowsTable DEF Counts
  <2>. QED BY <1>1, <2>2, <2>3, RowsTable DEF Counts
<1> DEFINE j == Idle
<1>6. jobs' = [jobs EXCEPT ![h] = j] /\ j = Idle /\ JobOK(j, rows', opening) /\ opening' = opening
  BY <1>1, IdleOK
<1>. HIDE DEF j
<1>. QED BY <1>2, <1>4, <1>5, <1>6, AloneStep

-----------------------------------------------------------------------------
LEMMA GateInit == Init => GateInv
<1>1. SUFFICES ASSUME Init PROVE GateInv
  OBVIOUS
<1>2. jobs = [h \in Handlers |-> Idle] /\ rows = [i \in Ids |-> None] /\ balance = opening
      /\ drift = [a \in Accounts |-> 0] /\ opening \in [Accounts -> Openings] /\ faults = 0
  BY <1>1 DEF Init
<1>3. Counts
  <2>1. opening \in [Accounts -> Openings] /\ balance \in [Accounts -> Int]
    BY <1>2, GateAssumption
  <2>2. drift \in [Accounts -> Int] /\ rows \in [Ids -> Rows \cup {None}]
    BY <1>2
  <2>3. faults \in 0..MaxFaults
    BY <1>2, GateAssumption
  <2>. QED BY <2>1, <2>2, <2>3 DEF Counts
<1>4. \A h \in Handlers : jobs[h] = Idle
  BY <1>2
<1>5. \A h \in Handlers : JobOK(jobs[h], rows, opening)
  BY <1>4, IdleOK
<1>6. TypeOK
  BY <1>2, <1>3, IdleJob DEF TypeOK, Counts
<1>7. Apart(jobs)
  BY <1>4 DEF Apart
<1>8. ASSUME NEW a \in Accounts PROVE Even(a)
  <2>1. RawOwed(jobs, a) = 0
    BY <1>4, IdleOwes, NothingOwed
  <2>2. RawSum(rows, a) = 0
    <3>1. \A i \in Ids : MovedOf(rows, a)[i] = 0
      BY <1>2, MovedType DEF MovedOf
    <3>2. IsFiniteSet(Ids)
      BY GateAssumption
    <3> DEFINE f == MovedOf(rows, a)
    <3>. HIDE DEF f
    <3>3. SumOf(f, Ids) = 0
      BY <3>1, <3>2, SumZero DEF f
    <3>. QED BY <3>3, RawSumIsSum DEF f
  <2>3. opening[a] \in Int /\ balance[a] = opening[a] /\ drift[a] = 0
    BY <1>2, GateAssumption
  <2>. QED BY <2>1, <2>2, <2>3 DEF Even
<1>. QED BY <1>5, <1>6, <1>7, <1>8 DEF GateInv, Balanced

LEMMA GateNext == ~Overlap /\ GateInv /\ [Next]_vars => GateInv'
<1>. SUFFICES ASSUME ~Overlap, GateInv, [Next]_vars PROVE GateInv'
  OBVIOUS
<1>1. CASE UNCHANGED vars
  <2>. UNCHANGED <<opening, balance, rows, jobs, drift, faults>>
    BY <1>1 DEF vars
  <2>1. TypeOK'
    BY DEF GateInv, TypeOK
  <2>2. Balanced'
    BY DEF GateInv, Balanced, Even
  <2>. QED BY <2>1, <2>2 DEF GateInv
<1>2. CASE \E h \in Handlers, i \in Ids, r \in Rows : CreateRow(h, i, r)
  BY <1>2, CreateRowStep
<1>3. CASE \E h \in Handlers, i \in Ids : ReadOld(h, i)
  <2>1. PICK h \in Handlers, i \in Ids : ReadOld(h, i)
    BY <1>3
  <2>. QED BY <2>1, ReadRowStep DEF ReadOld, SetJob
<1>4. CASE \E h \in Handlers, i \in Ids : ReadDoomed(h, i)
  <2>1. PICK h \in Handlers, i \in Ids : ReadDoomed(h, i)
    BY <1>4
  <2>. QED BY <2>1, ReadRowStep DEF ReadDoomed, SetJob
<1>5. CASE \E h \in Handlers, r \in Rows : WriteRow(h, r)
  BY <1>5, WriteRowStep
<1>6. CASE \E h \in Handlers : ReadBackCreated(h)
  BY <1>6, ReadBackCreatedStep
<1>7. CASE \E h \in Handlers : ReadBackUpdated(h)
  BY <1>7, ReadBackUpdatedStep
<1>8. CASE \E h \in Handlers : DeleteRow(h)
  BY <1>8, DeleteRowStep
<1>9. CASE \E h \in Handlers : ApplyLeg(h)
  BY <1>9, ApplyLegStep
<1>10. CASE \E h \in Handlers : DeleteImported(h)
  BY <1>10, DeleteImportedStep
<1>11. CASE \E h \in Handlers : WriteSum(h)
  BY <1>11, WriteSumStep
<1>12. CASE \E h \in Handlers : Die(h)
  BY <1>12, DieStep, DieRecomputing
<1>13. CASE \E h \in Handlers, a \in Accounts : ReadSum(h, a)
  BY <1>13, ReadSumStep
<1>14. CASE \E h \in Handlers, a \in Accounts : SumFromZero(h, a)
  BY <1>14, SumFromZeroStep
<1>. QED BY <1>1, <1>2, <1>3, <1>4, <1>5, <1>6, <1>7, <1>8, <1>9, <1>10, <1>11, <1>12, <1>13, <1>14
         DEF Next

LEMMA GateInductive == ~Overlap => (Spec => []GateInv)
<1>. SUFFICES ASSUME ~Overlap PROVE Spec => []GateInv
  OBVIOUS
<1>1. Init => GateInv
  BY GateInit
<1>2. GateInv /\ [Next]_vars => GateInv'
  BY GateNext
<1>. QED BY <1>1, <1>2, PTL DEF Spec

(* The total of the abstract book is what the gate settles on. *)
LEMMA BookBalance ==
    ASSUME NEW book
    PROVE  TheBook!InBalance(book) = [a \in Accounts |-> opening[a] + RawSum(book, a)]
BY Zenon DEF TheBook!InBalance, TheBook!Moved, RawSum, Moved,
             TheBook!MapThenSumSet, TheBook!MapThenFoldSet, MapThenSumSet, MapThenFoldSet

Settles == \A a \in Accounts : Settled(a) = opening[a] + RawSum(rows, a)

LEMMA GateSettles == GateInv => Settles
<1>. SUFFICES ASSUME GateInv, NEW a \in Accounts PROVE Settled(a) = opening[a] + RawSum(rows, a)
  BY DEF Settles
<1>1. CASE Recomputed(a)
  BY <1>1, Terms DEF Settled
<1>2. CASE ~Recomputed(a)
  <2>1. Even(a)
    BY <1>2, Terms DEF GateInv, Balanced
  <2>2. MapThenSumSet(LAMBDA h : Pending(h, a), Handlers) = RawOwed(jobs, a)
    BY DEF RawOwed, Owes, Pending
  <2>. QED BY <1>2, <2>1, <2>2 DEF Settled, Even
<1>. QED BY <1>1, <1>2

LEMMA OpeningStays == [Next]_vars => opening' = opening
BY DEF Next, vars, CreateRow, ReadBackCreated, ReadOld, WriteRow, ReadBackUpdated, ReadDoomed,
       DeleteRow, ApplyLeg, ReadSum, DeleteImported, SumFromZero, WriteSum, Die

(* Every step of the gate is a posting of the book or leaves it alone. *)
LEMMA GatePosts ==
    ASSUME GateInv', Settles', [Next]_vars
    PROVE  TheBook!Post
<1>1. rows' \in [Ids -> Rows \cup {None}]
  BY DEF GateInv, TypeOK
<1>2. opening' = opening
  BY OpeningStays
<1>3. [a \in Accounts |-> Settled(a)]' = [a \in Accounts |-> opening[a] + RawSum(rows', a)]
  BY <1>2 DEF Settles
<1>4. [a \in Accounts |-> Settled(a)]' = TheBook!InBalance(rows')
  BY <1>3, BookBalance
<1>. QED BY <1>1, <1>2, <1>4 DEF TheBook!Post

LEMMA GateOpens ==
    ASSUME Init, Settles
    PROVE  TheBook!BookInit
<1>1. opening \in [Accounts -> Int] /\ rows = [i \in Ids |-> None]
  BY GateAssumption DEF Init
<1>2. [a \in Accounts |-> Settled(a)] = [a \in Accounts |-> opening[a] + RawSum(rows, a)]
  BY DEF Settles
<1>3. [a \in Accounts |-> Settled(a)] = TheBook!InBalance(rows)
  BY <1>2, BookBalance
<1>. QED BY <1>1, <1>3 DEF TheBook!BookInit

(* The gate implements the book (lib/lifecycle/ledger.ts, balance.hook.ts): *)
(* however the statements of requests on different rows interleave, and     *)
(* wherever a request dies, each account's total, with what requests still  *)
(* owe it and what deaths took, is its opening balance and its rows.        *)
THEOREM GateImplementsBook == ~Overlap => (Spec => ImplementsBook)
<1>. SUFFICES ASSUME ~Overlap PROVE Spec => ImplementsBook
  OBVIOUS
<1>1. Spec => []GateInv
  BY GateInductive
<1>2. GateInv => Settles
  BY GateSettles
<1>3. Init /\ Settles => TheBook!BookInit
  BY GateOpens
<1>4. GateInv' /\ Settles' /\ [Next]_vars => [TheBook!Post]_TheBook!bookVars
  BY GatePosts
<1>. QED BY <1>1, <1>2, <1>3, <1>4, PTL DEF Spec, ImplementsBook, TheBook!BookSpec

(* The state of the gate is well typed whatever requests do to each other   *)
(* on different rows.                                                       *)
THEOREM GateTypesAreKept == ~Overlap => (Spec => []TypeOK)
<1>1. GateInv => TypeOK
  BY DEF GateInv
<1>. QED BY <1>1, GateInductive, PTL

-----------------------------------------------------------------------------
(* Without the mass deletion nothing but a death makes a total drift. *)

Calm(j) == j.step \notin {"wiping", "zeroed"}

Unspoilt ==
    /\ \A h \in Handlers : Calm(jobs[h])
    /\ faults = 0 => \A a \in Accounts : drift[a] = 0

LEMMA CalmJobs ==
    /\ Calm(Idle)
    /\ \A legs : Calm(Done(legs))
    /\ \A legs, i : Calm([Done(legs) EXCEPT !.id = i])
    /\ \A k \in Job : \A r : Calm([k EXCEPT !.step = "written", !.new = r])
    /\ \A i, r : Calm([Idle EXCEPT !.step = "created", !.id = i, !.new = r])
    /\ \A i, r : Calm([Idle EXCEPT !.step = "read", !.id = i, !.old = r])
    /\ \A i, r : Calm([Idle EXCEPT !.step = "deleting", !.id = i, !.old = r])
    /\ \A a, n : Calm([Idle EXCEPT !.step = "summed", !.account = a, !.sum = n])
BY DEF Calm, Idle, Done, Job

LEMMA CalmStep ==
    ASSUME GateInv, Unspoilt, NEW h \in Handlers, NEW j, Calm(j), jobs' = [jobs EXCEPT ![h] = j],
           UNCHANGED <<drift, faults>>
    PROVE  Unspoilt'
<1>1. jobs \in [Handlers -> Job]
  BY DEF GateInv, TypeOK
<1>2. \A k \in Handlers : jobs'[k] = IF k = h THEN j ELSE jobs[k]
  BY <1>1
<1>3. \A k \in Handlers : Calm(jobs'[k])
  BY <1>2 DEF Unspoilt
<1>. QED BY <1>3 DEF Unspoilt

LEMMA CalmWriteSum ==
    ASSUME GateInv, Unspoilt, NEW h \in Handlers, WriteSum(h)
    PROVE  Unspoilt'
<1>1. jobs \in [Handlers -> Job] /\ drift \in [Accounts -> Int]
  BY DEF GateInv, TypeOK
<1>2. jobs[h].step = "summed"
  BY DEF WriteSum, Unspoilt, Calm
<1>3. jobs[h].accounts = {}
  BY <1>2 DEF GateInv, JobOK
<1>4. jobs' = [jobs EXCEPT ![h] = Idle] /\ faults' = faults
  BY <1>3 DEF WriteSum, SetJob
<1>5. drift' = [drift EXCEPT ![jobs[h].account] = 0]
  BY <1>2 DEF WriteSum
<1>6. \A k \in Handlers : jobs'[k] = IF k = h THEN Idle ELSE jobs[k]
  BY <1>1, <1>4
<1>7. \A k \in Handlers : Calm(jobs'[k])
  BY <1>6, CalmJobs DEF Unspoilt
<1>8. faults' = 0 => \A a \in Accounts : drift'[a] = 0
  BY <1>1, <1>4, <1>5 DEF Unspoilt
<1>. QED BY <1>7, <1>8 DEF Unspoilt

LEMMA CalmDie ==
    ASSUME GateInv, Unspoilt, NEW h \in Handlers, Die(h)
    PROVE  Unspoilt'
<1>1. jobs \in [Handlers -> Job] /\ faults \in Nat
  BY GateAssumption DEF GateInv, TypeOK
<1>2. jobs' = [jobs EXCEPT ![h] = Idle] /\ faults' = faults + 1
  BY DEF Die, SetJob
<1>3. \A k \in Handlers : jobs'[k] = IF k = h THEN Idle ELSE jobs[k]
  BY <1>1, <1>2
<1>4. \A k \in Handlers : Calm(jobs'[k])
  BY <1>3, CalmJobs DEF Unspoilt
<1>. QED BY <1>1, <1>2, <1>4 DEF Unspoilt

LEMMA UnspoiltNext ==
    ASSUME "deleteImported" \notin Requests, GateInv, Unspoilt, [Next]_vars
    PROVE  Unspoilt'
<1>1. \A h \in Handlers : jobs[h] \in Job
  BY DEF GateInv, TypeOK
<1>2. CASE UNCHANGED vars
  BY <1>2 DEF Unspoilt, vars
<1>3. CASE \E h \in Handlers, i \in Ids, r \in Rows : CreateRow(h, i, r)
  <2>1. PICK h \in Handlers, i \in Ids, r \in Rows : CreateRow(h, i, r)
    BY <1>3
  <2> DEFINE j == [Idle EXCEPT !.step = "created", !.id = i, !.new = r]
  <2>2. jobs' = [jobs EXCEPT ![h] = j] /\ UNCHANGED <<drift, faults>>
    BY <2>1 DEF CreateRow, SetJob
  <2>3. Calm(j)
    BY CalmJobs
  <2>. HIDE DEF j
  <2>. QED BY <2>2, <2>3, CalmStep
<1>4. CASE \E h \in Handlers, i \in Ids : ReadOld(h, i)
  <2>1. PICK h \in Handlers, i \in Ids : ReadOld(h, i)
    BY <1>4
  <2> DEFINE j == [Idle EXCEPT !.step = "read", !.id = i, !.old = rows[i]]
  <2>2. jobs' = [jobs EXCEPT ![h] = j] /\ UNCHANGED <<drift, faults>>
    BY <2>1 DEF ReadOld, SetJob
  <2>3. Calm(j)
    BY CalmJobs
  <2>. HIDE DEF j
  <2>. QED BY <2>2, <2>3, CalmStep
<1>5. CASE \E h \in Handlers, i \in Ids : ReadDoomed(h, i)
  <2>1. PICK h \in Handlers, i \in Ids : ReadDoomed(h, i)
    BY <1>5
  <2> DEFINE j == [Idle EXCEPT !.step = "deleting", !.id = i, !.old = rows[i]]
  <2>2. jobs' = [jobs EXCEPT ![h] = j] /\ UNCHANGED <<drift, faults>>
    BY <2>1 DEF ReadDoomed, SetJob
  <2>3. Calm(j)
    BY CalmJobs
  <2>. HIDE DEF j
  <2>. QED BY <2>2, <2>3, CalmStep
<1>6. CASE \E h \in Handlers, r \in Rows : WriteRow(h, r)
  <2>1. PICK h \in Handlers, r \in Rows : WriteRow(h, r)
    BY <1>6
  <2> DEFINE j == IF rows[jobs[h].id] = None THEN Idle ELSE [jobs[h] EXCEPT !.step = "written", !.new = r]
  <2>2. jobs' = [jobs EXCEPT ![h] = j] /\ UNCHANGED <<drift, faults>>
    BY <2>1 DEF WriteRow, SetJob
  <2>3. Calm(j)
    BY <1>1, CalmJobs
  <2>. HIDE DEF j
  <2>. QED BY <2>2, <2>3, CalmStep
<1>7. CASE \E h \in Handlers : ReadBackCreated(h)
  <2>1. PICK h \in Handlers : ReadBackCreated(h)
    BY <1>7
  <2> DEFINE j == IF rows[jobs[h].id] = None THEN Idle
                 ELSE [Done(LegsOf(rows[jobs[h].id], 1)) EXCEPT !.id = jobs[h].id]
  <2>2. jobs' = [jobs EXCEPT ![h] = j] /\ UNCHANGED <<drift, faults>>
    BY <2>1 DEF ReadBackCreated, SetJob
  <2>3. Calm(j)
    BY CalmJobs
  <2>. HIDE DEF j
  <2>. QED BY <2>2, <2>3, CalmStep
<1>8. CASE \E h \in Handlers : ReadBackUpdated(h)
  <2>1. PICK h \in Handlers : ReadBackUpdated(h)
    BY <1>8
  <2> DEFINE j == IF rows[jobs[h].id] = None THEN Idle
                 ELSE [Done(LegsOf(jobs[h].old, -1) \o LegsOf(rows[jobs[h].id], 1))
                         EXCEPT !.id = jobs[h].id]
  <2>2. jobs' = [jobs EXCEPT ![h] = j] /\ UNCHANGED <<drift, faults>>
    BY <2>1 DEF ReadBackUpdated, SetJob
  <2>3. Calm(j)
    BY CalmJobs
  <2>. HIDE DEF j
  <2>. QED BY <2>2, <2>3, CalmStep
<1>9. CASE \E h \in Handlers : DeleteRow(h)
  <2>1. PICK h \in Handlers : DeleteRow(h)
    BY <1>9
  <2> DEFINE j == IF rows[jobs[h].id] = None THEN Idle
                 ELSE [Done(LegsOf(jobs[h].old, -1)) EXCEPT !.id = jobs[h].id]
  <2>2. jobs' = [jobs EXCEPT ![h] = j] /\ UNCHANGED <<drift, faults>>
    BY <2>1 DEF DeleteRow, SetJob
  <2>3. Calm(j)
    BY CalmJobs
  <2>. HIDE DEF j
  <2>. QED BY <2>2, <2>3, CalmStep
<1>10. CASE \E h \in Handlers : ApplyLeg(h)
  <2>1. PICK h \in Handlers : ApplyLeg(h)
    BY <1>10
  <2> DEFINE j == [Done(Tail(jobs[h].legs)) EXCEPT !.id = IF Tail(jobs[h].legs) = <<>> THEN None ELSE jobs[h].id]
  <2>2. jobs' = [jobs EXCEPT ![h] = j] /\ UNCHANGED <<drift, faults>>
    BY <2>1 DEF ApplyLeg, SetJob
  <2>3. Calm(j)
    BY CalmJobs
  <2>. HIDE DEF j
  <2>. QED BY <2>2, <2>3, CalmStep
<1>11. CASE \E h \in Handlers : DeleteImported(h)
  BY <1>11 DEF DeleteImported
<1>12. CASE \E h \in Handlers : WriteSum(h)
  BY <1>12, CalmWriteSum
<1>13. CASE \E h \in Handlers : Die(h)
  BY <1>13, CalmDie
<1>14. CASE \E h \in Handlers, a \in Accounts : ReadSum(h, a)
  <2>1. PICK h \in Handlers, a \in Accounts : ReadSum(h, a)
    BY <1>14
  <2> DEFINE j == [Idle EXCEPT !.step = "summed", !.account = a, !.sum = opening[a] + RowSum(a)]
  <2>2. jobs' = [jobs EXCEPT ![h] = j] /\ UNCHANGED <<drift, faults>>
    BY <2>1 DEF ReadSum, SetJob
  <2>3. Calm(j)
    BY CalmJobs
  <2>. HIDE DEF j
  <2>. QED BY <2>2, <2>3, CalmStep
<1>15. CASE \E h \in Handlers, a \in Accounts : SumFromZero(h, a)
  <2>1. PICK h \in Handlers : jobs[h].step = "wiping"
    BY <1>15 DEF SumFromZero
  <2>. QED BY <2>1 DEF Unspoilt, Calm
<1>. QED BY <1>2, <1>3, <1>4, <1>5, <1>6, <1>7, <1>8, <1>9, <1>10, <1>11, <1>12, <1>13, <1>14, <1>15
         DEF Next

LEMMA QuietIsEven == GateInv /\ Unspoilt => OpeningIsKept
<1>. SUFFICES ASSUME GateInv, Active = {}, faults = 0, Unspoilt, NEW a \in Accounts
              PROVE  balance[a] = opening[a] + RowSum(a)
  BY DEF OpeningIsKept
<1>1. \A h \in Handlers : jobs[h] = Idle
  BY DEF Active
<1>2. RawOwed(jobs, a) = 0
  BY <1>1, IdleOwes, NothingOwed
<1>3. ~RecomputedBy(jobs, a)
  BY <1>1 DEF RecomputedBy, Rec, Idle
<1>4. Even(a) /\ drift[a] = 0 /\ balance[a] \in Int
  BY <1>3 DEF GateInv, Balanced, Unspoilt, TypeOK
<1>. QED BY <1>2, <1>4, Terms DEF Even

(* "any change here must preserve the invariant the ledger-integrity check  *)
(* asserts" (lib/lifecycle/hooks/balance.hook.ts): as long as no request    *)
(* dies and rows are written through the gate alone, an account's balance   *)
(* is its opening balance and its rows whenever no request is under way.    *)
(* The one route that is left out, DELETE /transactions/imported, is the    *)
(* one that breaks it.                                                      *)
THEOREM GateKeepsTheOpening ==
    ~Overlap /\ "deleteImported" \notin Requests => (Spec => []OpeningIsKept)
<1>. SUFFICES ASSUME ~Overlap, "deleteImported" \notin Requests PROVE Spec => []OpeningIsKept
  OBVIOUS
<1>1. Spec => []GateInv
  BY GateInductive
<1>2. Init => Unspoilt
  BY CalmJobs DEF Init, Unspoilt
<1>3. GateInv /\ Unspoilt /\ [Next]_vars => Unspoilt'
  BY UnspoiltNext
<1>4. GateInv /\ Unspoilt => OpeningIsKept
  BY QuietIsEven
<1>. QED BY <1>1, <1>2, <1>3, <1>4, PTL DEF Spec


-----------------------------------------------------------------------------
(* Budgets and the expenses linked to them (lib/budget-linking.ts).         *)

MonthlyOf(es) == [e \in Expenses |-> es[e].monthly]
ActiveOf(es) == {e \in Expenses : es[e].linked /\ ~es[e].paused /\ ~es[e].archived}
BaselineOf(es) == SumOf(MonthlyOf(es), ActiveOf(es))

LEMMA BaselineIsSum == Baseline = BaselineOf(expenses)
<1> DEFINE S == ActiveOf(expenses)
           IsMonthlySum(sum) ==
             sum = [T \in SUBSET S |->
                      IF T = {} THEN 0
                      ELSE LET x == CHOOSE x \in T : TRUE IN expenses[x].monthly + sum[T \ {x}]]
<1>1. ActiveLinks = S
  BY DEF ActiveLinks, LinkedNow, ActiveOf
<1>2. Baseline = (CHOOSE sum : IsMonthlySum(sum))[S]
  <2>1. Baseline = MapThenSumSet(LAMBDA e : expenses[e].monthly, S)
    BY <1>1 DEF Baseline
  <2>. HIDE DEF S
  <2>. QED BY <2>1 DEF MapThenSumSet, MapThenFoldSet
<1>3. ASSUME NEW sum PROVE IsSum(sum, MonthlyOf(expenses), S) <=> IsMonthlySum(sum)
  <2>1. \A T \in SUBSET S : T # {} =>
          MonthlyOf(expenses)[CHOOSE x \in T : TRUE] = expenses[CHOOSE x \in T : TRUE].monthly
    BY DEF MonthlyOf, ActiveOf
  <2>. HIDE DEF S
  <2>. QED BY <2>1 DEF IsSum
<1>4. (CHOOSE sum : IsSum(sum, MonthlyOf(expenses), S)) = (CHOOSE sum : IsMonthlySum(sum))
  <2>. HIDE DEF IsMonthlySum, S
  <2>. QED BY <1>3
<1>. HIDE DEF IsMonthlySum
<1>. QED BY <1>2, <1>4, SumIter DEF BaselineOf

LEMMA MonthlySums ==
    ASSUME NEW es \in [Expenses -> Expense]
    PROVE  /\ IsFiniteSet(ActiveOf(es)) /\ ActiveOf(es) \subseteq Expenses
           /\ \A e \in Expenses : MonthlyOf(es)[e] \in Nat
           /\ BaselineOf(es) \in Nat
<1>1. ActiveOf(es) \subseteq Expenses
  BY DEF ActiveOf
<1>2. IsFiniteSet(ActiveOf(es))
  <2>. HIDE DEF ActiveOf
  <2>. QED BY <1>1, BudgetLinksAssumption, FS_Subset
<1>3. ASSUME NEW e \in Expenses PROVE MonthlyOf(es)[e] \in Nat
  <2>1. es[e].monthly \in Sums
    BY DEF Expense
  <2>. QED BY <2>1, BudgetLinksAssumption DEF MonthlyOf
<1> DEFINE f == MonthlyOf(es)
           S == ActiveOf(es)
<1>. HIDE DEF f, S
<1>4. SumOf(f, S) \in Nat
  BY <1>1, <1>2, <1>3, SumNat DEF f, S
<1>. QED BY <1>1, <1>2, <1>3, <1>4 DEF f, S, BaselineOf

(* An expense that is not linked does not count, whatever becomes of it; a  *)
(* linked one that is archived no longer does.                              *)
LEMMA UnlinkedIsFree ==
    ASSUME NEW es \in [Expenses -> Expense], NEW e \in Expenses, ~es[e].linked,
           NEW x \in Expense, ~x.linked, NEW fs, fs = [es EXCEPT ![e] = x]
    PROVE  BaselineOf(fs) = BaselineOf(es)
<1>1. \A d \in Expenses : fs[d] = IF d = e THEN x ELSE es[d]
  OBVIOUS
<1>2. ActiveOf(fs) = ActiveOf(es) /\ e \notin ActiveOf(es)
  BY <1>1 DEF ActiveOf
<1> DEFINE f == MonthlyOf(es)
           g == MonthlyOf(fs)
           S == ActiveOf(es)
<1>3. \A d \in S : f[d] = g[d]
  BY <1>1, <1>2 DEF MonthlyOf, ActiveOf
<1>. HIDE DEF f, g, S
<1>4. SumOf(f, S) = SumOf(g, S)
  BY <1>3, SumFrame
<1>. QED BY <1>2, <1>4 DEF f, g, S, BaselineOf

LEMMA ArchivingFrees ==
    ASSUME NEW es \in [Expenses -> Expense], NEW e \in Expenses,
           NEW x \in Expense, x.archived, NEW fs, fs = [es EXCEPT ![e] = x]
    PROVE  BaselineOf(fs) <= BaselineOf(es)
<1>1. \A d \in Expenses : fs[d] = IF d = e THEN x ELSE es[d]
  OBVIOUS
<1>2. ActiveOf(fs) \in SUBSET ActiveOf(es) /\ e \notin ActiveOf(fs)
  BY <1>1 DEF ActiveOf
<1> DEFINE f == MonthlyOf(es)
           g == MonthlyOf(fs)
           S == ActiveOf(es)
           T == ActiveOf(fs)
<1>3. \A d \in T : f[d] = g[d]
  BY <1>1, <1>2 DEF MonthlyOf, ActiveOf
<1>4. IsFiniteSet(S) /\ \A d \in S : f[d] \in Nat
  BY MonthlySums
<1>. HIDE DEF f, g, S, T
<1>5. SumOf(f, T) = SumOf(g, T)
  BY <1>3, SumFrame
<1>6. SumOf(f, T) <= SumOf(f, S)
  BY <1>2, <1>4, SumPart DEF S, T
<1>. QED BY <1>5, <1>6 DEF f, g, S, T, BaselineOf

LEMMA MaxOfThree ==
    ASSUME NEW a \in Nat, NEW b \in Nat, NEW c \in Nat
    PROVE  /\ Max({a, b, c}) \in Nat
           /\ Max({a, b, c}) >= a /\ Max({a, b, c}) >= b /\ Max({a, b, c}) >= c
<1>1. \E x \in {a, b, c} : \A y \in {a, b, c} : x >= y
  OBVIOUS
<1>. QED BY <1>1 DEF Max

LEMMA MaxOfTwo == ASSUME NEW a \in Nat, NEW b \in Nat PROVE Max({a, b}) \in Nat
<1>1. \E x \in {a, b} : \A y \in {a, b} : x >= y
  OBVIOUS
<1>. QED BY <1>1 DEF Max

(* The budget covers its links, as an invariant of the rows alone. *)
Covers == due \/ behind \/ version.manualOverride \/ version.monthlyEquivalent >= BaselineOf(expenses)

BudgetInv == BudgetTypeOK /\ Covers

LEMMA BudgetTypes ==
    BudgetTypeOK =>
      /\ expenses \in [Expenses -> Expense] /\ version \in Version /\ version.monthlyEquivalent \in Nat
      /\ mark \in Nat /\ due \in BOOLEAN /\ behind \in BOOLEAN /\ deaths \in 0..MaxDeaths
      /\ Baseline = BaselineOf(expenses) /\ Baseline \in Nat
<1>. SUFFICES ASSUME BudgetTypeOK
              PROVE  /\ expenses \in [Expenses -> Expense] /\ version \in Version
                     /\ version.monthlyEquivalent \in Nat
                     /\ mark \in Nat /\ due \in BOOLEAN /\ behind \in BOOLEAN /\ deaths \in 0..MaxDeaths
                     /\ Baseline = BaselineOf(expenses) /\ Baseline \in Nat
  OBVIOUS
<1>1. /\ expenses \in [Expenses -> Expense] /\ version \in Version
      /\ mark \in Nat /\ due \in BOOLEAN /\ behind \in BOOLEAN /\ deaths \in 0..MaxDeaths
  BY DEF BudgetTypeOK
<1>2. version.monthlyEquivalent \in Nat
  BY <1>1 DEF Version
<1>. QED BY <1>1, <1>2, MonthlySums, BaselineIsSum

LEMMA ExpenseEdits ==
    ASSUME NEW x \in Expense, NEW n \in Sums, NEW b \in BOOLEAN
    PROVE  /\ [x EXCEPT !.linked = b] \in Expense
           /\ [x EXCEPT !.monthly = n] \in Expense /\ [x EXCEPT !.monthly = n].linked = x.linked
           /\ [x EXCEPT !.paused = b] \in Expense /\ [x EXCEPT !.paused = b].linked = x.linked
           /\ [x EXCEPT !.archived = b] \in Expense /\ [x EXCEPT !.archived = b].linked = x.linked
           /\ [x EXCEPT !.archived = b].archived = b
           /\ [x EXCEPT !.archived = b, !.linked = FALSE] \in Expense
           /\ [x EXCEPT !.archived = b, !.linked = FALSE].archived = b
BY DEF Expense

(* A route that commits a change either recomputes or cannot have raised    *)
(* what the budget has to cover.                                            *)
LEMMA ChangeKeepsCover ==
    ASSUME BudgetInv, ~due, expenses' \in [Expenses -> Expense],
           UNCHANGED <<version, mark, behind>>, due' \in BOOLEAN, deaths' \in 0..MaxDeaths,
           due' \/ BaselineOf(expenses') <= BaselineOf(expenses)
    PROVE  BudgetInv'
<1>1. /\ expenses \in [Expenses -> Expense] /\ version \in Version /\ version.monthlyEquivalent \in Nat
      /\ mark \in Nat /\ behind \in BOOLEAN
  BY BudgetTypes DEF BudgetInv
<1>2. BudgetTypeOK'
  BY <1>1 DEF BudgetTypeOK
<1>3. BaselineOf(expenses) \in Nat /\ BaselineOf(expenses') \in Nat
  BY <1>1, MonthlySums
<1>4. Covers'
  BY <1>1, <1>3 DEF Covers, BudgetInv
<1>. QED BY <1>2, <1>4 DEF BudgetInv

LEMMA TriggeredStep ==
    ASSUME BudgetInv, NEW e \in Expenses, NEW x \in Expense, x.linked = expenses[e].linked, Triggered(e, x)
    PROVE  BudgetInv'
<1>1. /\ expenses \in [Expenses -> Expense] /\ expenses[e] \in Expense /\ expenses[e].linked \in BOOLEAN
      /\ deaths \in 0..MaxDeaths
  BY BudgetTypes DEF BudgetInv, Expense
<1>2. /\ ~due /\ due' = expenses[e].linked /\ deaths' = deaths
      /\ expenses' = [expenses EXCEPT ![e] = x] /\ UNCHANGED <<version, mark, behind>>
  BY DEF Triggered, Commit
<1>3. expenses' \in [Expenses -> Expense]
  BY <1>1, <1>2
<1>4. due' \/ BaselineOf(expenses') <= BaselineOf(expenses)
  <2>1. CASE expenses[e].linked
    BY <1>2, <2>1
  <2>2. CASE ~expenses[e].linked
    <3>1. BaselineOf(expenses') = BaselineOf(expenses)
      BY <1>1, <1>2, <2>2, UnlinkedIsFree
    <3>2. BaselineOf(expenses) \in Nat
      BY <1>1, MonthlySums
    <3>. QED BY <3>1, <3>2
  <2>. QED BY <2>1, <2>2
<1>. QED BY <1>1, <1>2, <1>3, <1>4, ChangeKeepsCover

LEMMA LinkStep ==
    ASSUME BudgetInv, NEW e \in Expenses, LinkExpense(e) \/ UnlinkExpense(e)
    PROVE  BudgetInv'
<1>1. expenses \in [Expenses -> Expense] /\ expenses[e] \in Expense /\ deaths \in 0..MaxDeaths
  BY BudgetTypes DEF BudgetInv
<1>2. PICK b \in BOOLEAN :
        /\ ~due /\ due' = TRUE /\ deaths' = deaths
        /\ expenses' = [expenses EXCEPT ![e] = [expenses[e] EXCEPT !.linked = b]]
        /\ UNCHANGED <<version, mark, behind>>
  BY DEF LinkExpense, UnlinkExpense, Commit
<1> DEFINE x == [expenses[e] EXCEPT !.linked = b]
<1>3. x \in Expense
  BY <1>1 DEF Expense
<1>. HIDE DEF x
<1>4. expenses' \in [Expenses -> Expense]
  BY <1>1, <1>2, <1>3 DEF x
<1>. QED BY <1>1, <1>2, <1>4, ChangeKeepsCover

LEMMA BulkLinkStep == ASSUME BudgetInv, BulkLink PROVE BudgetInv'
<1>1. expenses \in [Expenses -> Expense] /\ deaths \in 0..MaxDeaths
  BY BudgetTypes DEF BudgetInv
<1>2. /\ ~due /\ due' = TRUE /\ deaths' = deaths /\ UNCHANGED <<version, mark, behind>>
      /\ expenses' = [e \in Expenses |-> [expenses[e] EXCEPT !.linked = TRUE]]
  BY DEF BulkLink
<1>3. \A e \in Expenses : [expenses[e] EXCEPT !.linked = TRUE] \in Expense
  BY <1>1 DEF Expense
<1>4. expenses' \in [Expenses -> Expense]
  BY <1>2, <1>3
<1>. QED BY <1>1, <1>2, <1>4, ChangeKeepsCover

LEMMA ArchiveStep == ASSUME BudgetInv, NEW e \in Expenses, Archive(e) PROVE BudgetInv'
<1>1. expenses \in [Expenses -> Expense] /\ expenses[e] \in Expense /\ deaths \in 0..MaxDeaths
  BY BudgetTypes DEF BudgetInv
<1>2. MaxDeaths \in Nat
  BY BudgetLinksAssumption
<1>3. PICK x \in Expense :
        /\ x.archived /\ ~due /\ due' = FALSE /\ deaths' \in 0..MaxDeaths
        /\ expenses' = [expenses EXCEPT ![e] = x] /\ UNCHANGED <<version, mark, behind>>
  <2> DEFINE x == [expenses[e] EXCEPT !.archived = TRUE, !.linked = FALSE]
             y == [expenses[e] EXCEPT !.archived = TRUE]
  <2>1. x \in Expense /\ x.archived /\ y \in Expense /\ y.archived
    BY <1>1 DEF Expense
  <2>2. /\ ~due /\ due' = FALSE /\ UNCHANGED <<version, mark, behind>>
        /\ expenses' = [expenses EXCEPT ![e] = x] \/ expenses' = [expenses EXCEPT ![e] = y]
    BY DEF Archive, Commit
  <2>3. deaths' = deaths \/ (deaths < MaxDeaths /\ deaths' = deaths + 1)
    BY DEF Archive
  <2>4. deaths' \in 0..MaxDeaths
    BY <1>1, <1>2, <2>3
  <2>. HIDE DEF x, y
  <2>. QED BY <2>1, <2>2, <2>4
<1>4. expenses' \in [Expenses -> Expense]
  BY <1>1, <1>3
<1>5. BaselineOf(expenses') <= BaselineOf(expenses)
  BY <1>1, <1>3, ArchivingFrees
<1>. QED BY <1>3, <1>4, <1>5, ChangeKeepsCover

LEMMA SetBudgetStep ==
    ASSUME BudgetInv, NEW n \in BudgetAmounts, NEW manual \in BOOLEAN, SetBudget(n, manual)
    PROVE  BudgetInv'
<1>1. /\ mark \in Nat /\ due \in BOOLEAN /\ deaths \in 0..MaxDeaths /\ expenses \in [Expenses -> Expense]
      /\ Baseline = BaselineOf(expenses) /\ Baseline \in Nat
  BY BudgetTypes DEF BudgetInv
<1>2. n \in Nat
  BY BudgetLinksAssumption
<1>3. /\ version' = [amount |-> n, monthlyEquivalent |-> n, manualOverride |-> manual]
      /\ behind' = (n < Baseline) /\ UNCHANGED <<expenses, mark, due, deaths>>
  BY DEF SetBudget
<1>4. version' \in Version /\ version'.monthlyEquivalent = n
  BY <1>2, <1>3 DEF Version
<1>5. behind' \in BOOLEAN
  BY <1>3
<1>6. BudgetTypeOK'
  BY <1>1, <1>3, <1>4, <1>5 DEF BudgetTypeOK
<1>7. CASE n < Baseline
  <2>1. behind'
    BY <1>3, <1>7
  <2>. QED BY <1>6, <2>1 DEF BudgetInv, Covers
<1>8. CASE ~(n < Baseline)
  <2>1. n >= BaselineOf(expenses) /\ expenses' = expenses
    BY <1>1, <1>2, <1>3, <1>8
  <2>2. version'.monthlyEquivalent >= BaselineOf(expenses')
    BY <1>4, <2>1
  <2>. QED BY <1>6, <2>2 DEF BudgetInv, Covers
<1>. QED BY <1>7, <1>8

(* What a recomputation writes is at least what the links add up to, and    *)
(* the mark and the figure by the month that were there.                    *)
LEMMA RecomputeFloors ==
    ASSUME BudgetTypeOK
    PROVE  /\ Effective \in Nat /\ Native \in Nat
           /\ Effective >= Baseline /\ Effective >= mark /\ Effective >= version.monthlyEquivalent
<1>1. Baseline \in Nat /\ mark \in Nat /\ version.monthlyEquivalent \in Nat
  BY BudgetTypes
<1> DEFINE a == Baseline
           m == mark
           v == version.monthlyEquivalent
<1>. HIDE DEF a, m, v
<1>2. Max({a, m, v}) \in Nat /\ Max({a, m, v}) >= a /\ Max({a, m, v}) >= m /\ Max({a, m, v}) >= v
  BY <1>1, MaxOfThree DEF a, m, v
<1>3. Max({a, m}) \in Nat
  BY <1>1, MaxOfTwo DEF a, m
<1>4. Effective = Max({a, m, v})
  BY DEF Effective, a, m, v
<1>5. Native \in {Max({a, m}), Effective}
  BY DEF Native, a, m
<1>6. Effective \in Nat /\ Effective >= a /\ Effective >= m /\ Effective >= v
  BY <1>2, <1>4
<1>7. Native \in Nat
  BY <1>3, <1>5, <1>6
<1>. QED BY <1>6, <1>7 DEF a, m, v

LEMMA RecomputeStep == ASSUME BudgetInv, Recompute PROVE BudgetInv'
<1>1. /\ expenses \in [Expenses -> Expense] /\ version \in Version /\ version.monthlyEquivalent \in Nat
      /\ mark \in Nat /\ behind \in BOOLEAN /\ deaths \in 0..MaxDeaths
      /\ Baseline = BaselineOf(expenses) /\ Baseline \in Nat
  BY BudgetTypes DEF BudgetInv
<1>2. /\ Effective \in Nat /\ Native \in Nat /\ Effective >= Baseline
  BY RecomputeFloors DEF BudgetInv
<1>3. due' = FALSE /\ UNCHANGED <<expenses, deaths>>
  BY DEF Recompute
<1>4. CASE LinkedNow = {} \/ version.manualOverride
  <2>1. UNCHANGED <<version, mark, behind>>
    BY <1>4 DEF Recompute
  <2>2. BudgetTypeOK'
    BY <1>1, <1>3, <2>1 DEF BudgetTypeOK
  <2>3. LinkedNow = {} => BaselineOf(expenses) = 0
    <3>. SUFFICES ASSUME LinkedNow = {} PROVE BaselineOf(expenses) = 0
      OBVIOUS
    <3>1. ActiveOf(expenses) = {}
      BY DEF LinkedNow, ActiveOf
    <3>. QED BY <3>1, SumEmpty DEF BaselineOf
  <2>4. Covers'
    BY <1>1, <1>3, <1>4, <2>1, <2>3 DEF Covers
  <2>. QED BY <2>2, <2>4 DEF BudgetInv
<1>5. CASE ~(LinkedNow = {} \/ version.manualOverride)
  <2>1. /\ mark' = Effective /\ behind' = FALSE
        /\ version' = [version EXCEPT !.amount = Native, !.monthlyEquivalent = Effective]
    BY <1>5 DEF Recompute
  <2>2. version' \in Version /\ version'.monthlyEquivalent = Effective
    BY <1>1, <1>2, <2>1 DEF Version
  <2>3. BudgetTypeOK'
    BY <1>1, <1>2, <1>3, <2>1, <2>2 DEF BudgetTypeOK
  <2>4. Covers'
    BY <1>1, <1>2, <1>3, <2>2 DEF Covers
  <2>. QED BY <2>3, <2>4 DEF BudgetInv
<1>. QED BY <1>4, <1>5

LEMMA FailStep == ASSUME BudgetInv, Fail PROVE BudgetInv'
<1>1. /\ expenses \in [Expenses -> Expense] /\ version \in Version /\ mark \in Nat /\ deaths \in 0..MaxDeaths
  BY BudgetTypes DEF BudgetInv
<1>2. /\ due' = FALSE /\ behind' = TRUE /\ deaths < MaxDeaths /\ deaths' = deaths + 1
      /\ UNCHANGED <<expenses, version, mark>>
  BY DEF Fail
<1>3. deaths' \in 0..MaxDeaths
  BY <1>1, <1>2, BudgetLinksAssumption
<1>. QED BY <1>1, <1>2, <1>3 DEF BudgetInv, BudgetTypeOK, Covers

LEMMA BudgetStarts == BudgetInit => BudgetInv
<1>. SUFFICES ASSUME BudgetInit PROVE BudgetInv
  OBVIOUS
<1>1. expenses \in [Expenses -> Expense] /\ \A e \in Expenses : ~expenses[e].linked
  BY DEF BudgetInit
<1>2. PICK n \in BudgetAmounts : version = [amount |-> n, monthlyEquivalent |-> n, manualOverride |-> FALSE]
  BY DEF BudgetInit
<1>3. version \in Version /\ version.monthlyEquivalent \in Nat
  BY <1>2, BudgetLinksAssumption DEF Version
<1>4. mark = 0 /\ due = FALSE /\ behind = FALSE /\ deaths \in 0..MaxDeaths
  BY BudgetLinksAssumption DEF BudgetInit
<1>5. BudgetTypeOK
  BY <1>1, <1>3, <1>4 DEF BudgetTypeOK
<1>6. ActiveOf(expenses) = {}
  BY <1>1 DEF ActiveOf
<1>7. BaselineOf(expenses) = 0
  BY <1>6, SumEmpty DEF BaselineOf
<1>. QED BY <1>3, <1>5, <1>7 DEF BudgetInv, Covers

LEMMA BudgetSteps == ASSUME BudgetInv, [BudgetNext]_budgetVars PROVE BudgetInv'
<1>0. ASSUME NEW e \in Expenses PROVE expenses[e] \in Expense /\ TRUE \in BOOLEAN /\ FALSE \in BOOLEAN
  BY BudgetTypes DEF BudgetInv
<1>1. CASE UNCHANGED budgetVars
  <2>. UNCHANGED <<expenses, version, mark, due, behind, deaths>>
    BY <1>1 DEF budgetVars
  <2>. QED BY DEF BudgetInv, BudgetTypeOK, Covers
<1>2. CASE \E e \in Expenses : LinkExpense(e) \/ UnlinkExpense(e)
  BY <1>2, LinkStep
<1>3. CASE \E e \in Expenses : Pause(e)
  <2>1. PICK e \in Expenses : Triggered(e, [expenses[e] EXCEPT !.paused = TRUE])
    BY <1>3 DEF Pause
  <2> DEFINE x == [expenses[e] EXCEPT !.paused = TRUE]
  <2>2. x \in Expense /\ x.linked = expenses[e].linked
    BY <1>0 DEF Expense
  <2>. HIDE DEF x
  <2>. QED BY <2>1, <2>2, TriggeredStep DEF x
<1>4. CASE \E e \in Expenses : Resume(e)
  <2>1. PICK e \in Expenses : Triggered(e, [expenses[e] EXCEPT !.paused = FALSE])
    BY <1>4 DEF Resume
  <2> DEFINE x == [expenses[e] EXCEPT !.paused = FALSE]
  <2>2. x \in Expense /\ x.linked = expenses[e].linked
    BY <1>0 DEF Expense
  <2>. HIDE DEF x
  <2>. QED BY <2>1, <2>2, TriggeredStep DEF x
<1>5. CASE \E e \in Expenses : Unarchive(e)
  <2>1. PICK e \in Expenses : Triggered(e, [expenses[e] EXCEPT !.archived = FALSE])
    BY <1>5 DEF Unarchive
  <2> DEFINE x == [expenses[e] EXCEPT !.archived = FALSE]
  <2>2. x \in Expense /\ x.linked = expenses[e].linked
    BY <1>0 DEF Expense
  <2>. HIDE DEF x
  <2>. QED BY <2>1, <2>2, TriggeredStep DEF x
<1>6. CASE \E e \in Expenses, n \in Sums : EditExpense(e, n)
  <2>1. PICK e \in Expenses, n \in Sums : Triggered(e, [expenses[e] EXCEPT !.monthly = n])
    BY <1>6 DEF EditExpense
  <2> DEFINE x == [expenses[e] EXCEPT !.monthly = n]
  <2>2. x \in Expense /\ x.linked = expenses[e].linked
    BY <1>0 DEF Expense
  <2>. HIDE DEF x
  <2>. QED BY <2>1, <2>2, TriggeredStep DEF x
<1>7. CASE \E e \in Expenses : Archive(e)
  BY <1>7, ArchiveStep
<1>8. CASE BulkLink
  BY <1>8, BulkLinkStep
<1>9. CASE \E n \in BudgetAmounts, manual \in BOOLEAN : SetBudget(n, manual)
  BY <1>9, SetBudgetStep
<1>10. CASE Recompute \/ Fail
  BY <1>10, RecomputeStep, FailStep
<1>. QED BY <1>1, <1>2, <1>3, <1>4, <1>5, <1>6, <1>7, <1>8, <1>9, <1>10 DEF BudgetNext

LEMMA BudgetInductive == BudgetSpec => []BudgetInv
<1>1. BudgetInv /\ [BudgetNext]_budgetVars => BudgetInv'
  BY BudgetSteps
<1>. QED BY <1>1, BudgetStarts, PTL DEF BudgetSpec

(* Budgets, marks and links keep their types (lib/budget-linking.ts).       *)
THEOREM BudgetTypesAreKept == BudgetSpec => []BudgetTypeOK
<1>1. BudgetInv => BudgetTypeOK
  BY DEF BudgetInv
<1>. QED BY <1>1, BudgetInductive, PTL

(* recomputeBudgetFromLinks and the routes that trigger it: however         *)
(* expenses are edited, paused, resumed, archived, linked and unlinked, the *)
(* budget by the month covers the active expenses linked to it, but for a   *)
(* recomputation that is due or failed, or a figure the user insists on.    *)
THEOREM BudgetsCoverTheirLinks == BudgetSpec => []LinksAreCovered
<1>1. BudgetInv => LinksAreCovered
  BY BudgetTypes DEF BudgetInv, Covers, LinksAreCovered
<1>. QED BY <1>1, BudgetInductive, PTL

(* recomputeBudgetFromLinks floors the new figure by the old mark and the   *)
(* old figure, so the mark never falls, and the figure by the month falls   *)
(* only when the user sets it.                                              *)
THEOREM OnlyTheUserLowersABudget == BudgetSpec => OnlyTheUserLowers
<1> DEFINE Kept == /\ mark' >= mark
                   /\ version'.monthlyEquivalent < version.monthlyEquivalent => expenses' = expenses /\ ~due
<1>1. BudgetInv => BudgetTypeOK
  BY DEF BudgetInv
<1>2. BudgetTypeOK /\ [BudgetNext]_budgetVars => [Kept]_budgetVars
  <2>. SUFFICES ASSUME BudgetTypeOK, BudgetNext PROVE Kept
    BY DEF budgetVars
  <2>1. mark \in Nat /\ version.monthlyEquivalent \in Nat /\ version \in Version
    BY BudgetTypes
  <2>2. Effective \in Nat /\ Effective >= mark /\ Effective >= version.monthlyEquivalent
    BY RecomputeFloors
  <2>3. CASE UNCHANGED <<version, mark>>
    BY <2>1, <2>3
  <2>4. CASE \E n \in BudgetAmounts, manual \in BOOLEAN : SetBudget(n, manual)
    BY <2>1, <2>4 DEF SetBudget
  <2>5. CASE Recompute
    <3>1. CASE LinkedNow = {} \/ version.manualOverride
      BY <2>1, <2>5, <3>1 DEF Recompute
    <3>2. CASE ~(LinkedNow = {} \/ version.manualOverride)
      <4>1. mark' = Effective /\ version' = [version EXCEPT !.amount = Native, !.monthlyEquivalent = Effective]
        BY <2>5, <3>2 DEF Recompute
      <4>2. version'.monthlyEquivalent = Effective
        BY <2>1, <4>1 DEF Version
      <4>. QED BY <2>1, <2>2, <4>1, <4>2
    <3>. QED BY <3>1, <3>2
  <2>. QED BY <2>3, <2>4, <2>5
           DEF BudgetNext, LinkExpense, UnlinkExpense, Pause, Resume, Archive, Unarchive, EditExpense,
               Triggered, Commit, BulkLink, Fail
<1>. QED BY <1>1, <1>2, BudgetInductive, PTL DEF BudgetSpec, OnlyTheUserLowers


-----------------------------------------------------------------------------
(* Holdings: what trades and transfers say of a place, and what all cost.   *)

TradesAt(t, a) == MapThenSumSet(LAMBDA i : Traded(t[i], a), TradeIds)
TradedOf(t, a) == [i \in TradeIds |-> Traded(t[i], a)]
TransfersAt(t, a) == MapThenSumSet(LAMBDA x : Transferred(t[x], a), TransferIds)
TransferredOf(t, a) == [x \in TransferIds |-> Transferred(t[x], a)]
CostOf(h) == IF h = Nil THEN 0 ELSE h.cost
CostsOf(t) == [p \in Places |-> CostOf(t[p])]

LEMMA TradesAtIsSum ==
    ASSUME NEW t, NEW a
    PROVE  TradesAt(t, a) = SumOf(TradedOf(t, a), TradeIds)
<1> DEFINE IsThisSum(sum) ==
             sum = [T \in SUBSET TradeIds |->
                      IF T = {} THEN 0
                      ELSE LET x == CHOOSE x \in T : TRUE IN Traded(t[x], a) + sum[T \ {x}]]
<1>1. TradesAt(t, a) = (CHOOSE sum : IsThisSum(sum))[TradeIds]
  BY DEF TradesAt, MapThenSumSet, MapThenFoldSet
<1>2. ASSUME NEW sum PROVE IsSum(sum, TradedOf(t, a), TradeIds) <=> IsThisSum(sum)
  <2>1. \A T \in SUBSET TradeIds : T # {} =>
          TradedOf(t, a)[CHOOSE x \in T : TRUE] = Traded(t[CHOOSE x \in T : TRUE], a)
    BY DEF TradedOf
  <2>. QED BY <2>1 DEF IsSum
<1>3. (CHOOSE sum : IsSum(sum, TradedOf(t, a), TradeIds)) = (CHOOSE sum : IsThisSum(sum))
  <2>. HIDE DEF IsThisSum
  <2>. QED BY <1>2
<1>. HIDE DEF IsThisSum
<1>. QED BY <1>1, <1>3, SumIter

LEMMA TransfersAtIsSum ==
    ASSUME NEW t, NEW a
    PROVE  TransfersAt(t, a) = SumOf(TransferredOf(t, a), TransferIds)
<1> DEFINE IsThisSum(sum) ==
             sum = [T \in SUBSET TransferIds |->
                      IF T = {} THEN 0
                      ELSE LET x == CHOOSE x \in T : TRUE IN Transferred(t[x], a) + sum[T \ {x}]]
<1>1. TransfersAt(t, a) = (CHOOSE sum : IsThisSum(sum))[TransferIds]
  BY DEF TransfersAt, MapThenSumSet, MapThenFoldSet
<1>2. ASSUME NEW sum PROVE IsSum(sum, TransferredOf(t, a), TransferIds) <=> IsThisSum(sum)
  <2>1. \A T \in SUBSET TransferIds : T # {} =>
          TransferredOf(t, a)[CHOOSE x \in T : TRUE] = Transferred(t[CHOOSE x \in T : TRUE], a)
    BY DEF TransferredOf
  <2>. QED BY <2>1 DEF IsSum
<1>3. (CHOOSE sum : IsSum(sum, TransferredOf(t, a), TransferIds)) = (CHOOSE sum : IsThisSum(sum))
  <2>. HIDE DEF IsThisSum
  <2>. QED BY <1>2
<1>. HIDE DEF IsThisSum
<1>. QED BY <1>1, <1>3, SumIter

LEMMA TotalCostIsSum ==
    ASSUME NEW t
    PROVE  TotalCost(t) = SumOf(CostsOf(t), Places)
<1> DEFINE IsThisSum(sum) ==
             sum = [T \in SUBSET Places |->
                      IF T = {} THEN 0
                      ELSE LET x == CHOOSE x \in T : TRUE IN CostOf(t[x]) + sum[T \ {x}]]
<1>1. TotalCost(t) = (CHOOSE sum : IsThisSum(sum))[Places]
  BY DEF TotalCost, CostOf, MapThenSumSet, MapThenFoldSet
<1>2. ASSUME NEW sum PROVE IsSum(sum, CostsOf(t), Places) <=> IsThisSum(sum)
  <2>1. \A T \in SUBSET Places : T # {} =>
          CostsOf(t)[CHOOSE x \in T : TRUE] = CostOf(t[CHOOSE x \in T : TRUE])
    BY DEF CostsOf
  <2>. QED BY <2>1 DEF IsSum
<1>3. (CHOOSE sum : IsSum(sum, CostsOf(t), Places)) = (CHOOSE sum : IsThisSum(sum))
  <2>. HIDE DEF IsThisSum
  <2>. QED BY <1>2
<1>. HIDE DEF IsThisSum
<1>. QED BY <1>1, <1>3, SumIter

LEMMA DeclaredParts == ASSUME NEW t, NEW x, NEW a PROVE Declared(t, x, a) = TradesAt(t, a) + TransfersAt(x, a)
BY DEF Declared, TradesAt, TransfersAt

-----------------------------------------------------------------------------
(* Types. *)

Books == [Places -> Holding \cup {Nil}]

LEMMA ShareType == ASSUME NEW h \in Holding, NEW q \in Nat PROVE Share(h, q) \in Int
<1>1. h.quantity \in Int /\ h.cost \in Int
  BY DEF Holding
<1>2. CASE h.quantity > 0
  <2> DEFINE n == q * h.cost
             d == h.quantity
  <2>1. n \in Int /\ d \in Int /\ d > 0
    BY <1>1, <1>2
  <2>2. Share(h, q) = n \div d
    BY <1>2 DEF Share
  <2>. HIDE DEF n, d
  <2>. QED BY <2>1, <2>2
<1>3. CASE ~(h.quantity > 0)
  BY <1>3 DEF Share
<1>. QED BY <1>2, <1>3

LEMMA AddType ==
    ASSUME NEW h \in Holding \cup {Nil}, NEW q \in Int, NEW c \in Int
    PROVE  /\ Add(h, q, c) \in Holding
           /\ h # Nil => Add(h, q, c).quantity = h.quantity + q
           /\ Add(h, q, c).cost = CostOf(h) + c
<1>1. CASE h = Nil
  BY <1>1 DEF Add, Holding, CostOf
<1>2. CASE h # Nil
  BY <1>2 DEF Add, Holding, CostOf
<1>. QED BY <1>1, <1>2

LEMMA TakeType ==
    ASSUME NEW h \in Holding, NEW q \in Int, NEW c \in Int
    PROVE  /\ Take(h, q, c) \in Holding
           /\ Take(h, q, c).quantity = h.quantity - q
           /\ Take(h, q, c).cost = h.cost - c
BY DEF Take, Holding

LEMMA RealHolding == ASSUME NEW h \in Holding PROVE h # Nil /\ h.quantity \in Int /\ CostOf(h) = h.cost /\ h.cost \in Int
BY NilIsNoRow DEF CostOf, Holding

LEMMA TradeFields ==
    ASSUME NEW t \in Trade
    PROVE  /\ t # Nil /\ t.place \in Places /\ t.quantity \in Nat /\ t.quantity * t.price \in Int
           /\ t.direction \in {"BUY", "SELL"}
<1>1. t.quantity \in Quantities /\ t.price \in Prices /\ t.place \in Places /\ t.direction \in {"BUY", "SELL"}
  BY DEF Trade
<1>2. t.quantity \in Nat /\ t.price \in Nat
  BY <1>1, HoldingsAssumption
<1>. QED BY <1>1, <1>2, NilIsNoRow

(* applyTradeToHolding: the book stays one, other places as they are, no    *)
(* holding vanishes, and where there was one it moves by the trade's units. *)
LEMMA AppliedIs ==
    ASSUME NEW book \in Books, NEW t \in Trade, NEW m \in {1, -1}
    PROVE  /\ Applied(book, t, m) \in Books
           /\ \A p \in Places : book[p] # Nil =>
                /\ Applied(book, t, m)[p] # Nil
                /\ Applied(book, t, m)[p].quantity = book[p].quantity + m * Traded(t, p)
<1>1. /\ t.place \in Places /\ t.quantity \in Nat /\ t.quantity * t.price \in Int
      /\ t.direction \in {"BUY", "SELL"} /\ t # Nil
  BY TradeFields
<1> DEFINE h == book[t.place]
           q == t.quantity
           c == t.quantity * t.price
           s == Share(h, q)
           after == Applied(book, t, m)
<1>2. \A p \in Places : Traded(t, p) = IF t.place # p THEN 0 ELSE IF t.direction = "BUY" THEN q ELSE -q
  BY <1>1 DEF Traded
<1>3. h \in Holding \cup {Nil} /\ q \in Nat /\ c \in Int
  BY <1>1 DEF Books
<1>4. \A p \in Places : book[p] # Nil => book[p] \in Holding /\ book[p].quantity \in Int
  BY DEF Books, Holding
<1>5. CASE (t.direction = "BUY") = (m = 1)
  <2>1. after = [book EXCEPT ![t.place] = Add(h, q, c)]
    BY <1>5 DEF Applied
  <2>2. Add(h, q, c) \in Holding /\ (h # Nil => Add(h, q, c).quantity = h.quantity + q)
    <3>1. q \in Int
      BY <1>3
    <3>. HIDE DEF h, q, c
    <3>. QED BY <1>3, <3>1, AddType
  <2>3. Add(h, q, c) # Nil
    BY <2>2, RealHolding
  <2>4. m * Traded(t, t.place) = q
    BY <1>1, <1>2, <1>3, <1>5
  <2> DEFINE x == Add(h, q, c)
  <2>. HIDE DEF x, h, q, c, after
  <2>5. after \in Books /\ \A p \in Places : after[p] = IF p = t.place THEN x ELSE book[p]
    BY <1>1, <2>1, <2>2 DEF Books, x
  <2>6. ASSUME NEW p \in Places, book[p] # Nil
        PROVE  after[p] # Nil /\ after[p].quantity = book[p].quantity + m * Traded(t, p)
    <3>1. CASE p = t.place
      BY <2>2, <2>3, <2>4, <2>5, <2>6, <3>1 DEF x, h
    <3>2. CASE p # t.place
      <4>1. Traded(t, p) = 0 /\ after[p] = book[p]
        BY <1>2, <2>5, <3>2
      <4>2. m * 0 = 0
        OBVIOUS
      <4>. QED BY <1>4, <2>6, <4>1, <4>2
    <3>. QED BY <3>1, <3>2
  <2>. QED BY <2>5, <2>6 DEF after
<1>6. CASE (t.direction = "BUY") # (m = 1) /\ h = Nil
  <2>1. after = book
    BY <1>6 DEF Applied
  <2>2. ASSUME NEW p \in Places, book[p] # Nil PROVE book[p].quantity = book[p].quantity + m * Traded(t, p)
    <3>1. Traded(t, p) = 0
      BY <1>2, <1>6, <2>2
    <3>2. m * 0 = 0
      OBVIOUS
    <3>. QED BY <1>4, <2>2, <3>1, <3>2
  <2>. QED BY <2>1, <2>2
<1>7. CASE (t.direction = "BUY") # (m = 1) /\ h # Nil
  <2>1. after = [book EXCEPT ![t.place] = Take(h, q, s)]
    BY <1>7 DEF Applied
  <2>2. h \in Holding /\ s \in Int
    BY <1>3, <1>7, ShareType
  <2>3. Take(h, q, s) \in Holding /\ Take(h, q, s).quantity = h.quantity - q /\ Take(h, q, s) # Nil
    BY <1>3, <2>2, TakeType, RealHolding
  <2>4. m * Traded(t, t.place) = -q
    BY <1>1, <1>2, <1>3, <1>7
  <2> DEFINE x == Take(h, q, s)
  <2>. HIDE DEF x, h, q, c, s, after
  <2>5. after \in Books /\ \A p \in Places : after[p] = IF p = t.place THEN x ELSE book[p]
    BY <1>1, <2>1, <2>3 DEF Books, x
  <2>6. ASSUME NEW p \in Places, book[p] # Nil
        PROVE  after[p] # Nil /\ after[p].quantity = book[p].quantity + m * Traded(t, p)
    <3>1. CASE p = t.place
      <4>1. h = book[p] /\ h.quantity \in Int
        BY <1>4, <2>6, <3>1 DEF h
      <4>. QED BY <1>3, <2>3, <2>4, <2>5, <3>1, <4>1 DEF x
    <3>2. CASE p # t.place
      <4>1. Traded(t, p) = 0 /\ after[p] = book[p]
        BY <1>2, <2>5, <3>2
      <4>2. m * 0 = 0
        OBVIOUS
      <4>. QED BY <1>4, <2>6, <4>1, <4>2
    <3>. QED BY <3>1, <3>2
  <2>. QED BY <2>5, <2>6 DEF after
<1>. QED BY <1>5, <1>6, <1>7

-----------------------------------------------------------------------------
(* Transfers. *)

(* A transfer under the books is between two places that hold the asset.    *)
EndsHold(x, book) == x # Nil => x.from # x.to /\ book[x.from] # Nil /\ book[x.to] # Nil

HoldInv ==
    /\ HoldingsTypeOK
    /\ \A x \in TransferIds : EndsHold(transfers[x], holdings)

LEMMA TransferFields ==
    ASSUME NEW t \in Transfer
    PROVE  t # Nil /\ t.from \in Places /\ t.to \in Places /\ t.quantity \in Nat /\ t.fee \in Nat
BY NilIsNoRow DEF Transfer

LEMMA FeeNotNil == ASSUME NEW a \in Nat, NEW n \in Nat PROVE [amount |-> a, net |-> n] \in Fee
BY DEF Fee

(* Units leave one place with a cost and come to another with the same.     *)
MovedTo(there, book, u, y, v, z) == there = [book EXCEPT ![u] = y, ![v] = z]
SameCost(y, z, g, h) == y.cost + z.cost = CostOf(g) + CostOf(h)

LEMMA MoveIs ==
    ASSUME NEW book \in Books, NEW u \in Places, NEW v \in Places, u # v,
           NEW y \in Holding, NEW z \in Holding, NEW there, MovedTo(there, book, u, y, v, z),
           SameCost(y, z, book[u], book[v])
    PROVE  /\ there \in Books
           /\ \A p \in Places : there[p] = IF p = u THEN y ELSE IF p = v THEN z ELSE book[p]
           /\ \A p \in Places : book[p] # Nil => there[p] # Nil
           /\ there[u] # Nil /\ there[v] # Nil
           /\ TotalCost(there) = TotalCost(book)
<1>1. \A p \in Places : there[p] = IF p = u THEN y ELSE IF p = v THEN z ELSE book[p]
  BY DEF Books, MovedTo
<1>2. there \in Books
  BY <1>1 DEF Books, MovedTo
<1>3. y # Nil /\ z # Nil /\ CostOf(y) = y.cost /\ CostOf(z) = z.cost /\ y.cost \in Int /\ z.cost \in Int
  BY RealHolding
<1>4. \A p \in Places : CostOf(book[p]) \in Int /\ CostOf(there[p]) \in Int
  <2>1. ASSUME NEW h \in Holding \cup {Nil} PROVE CostOf(h) \in Int
    BY RealHolding DEF CostOf
  <2>. QED BY <1>2, <2>1 DEF Books
<1> DEFINE mid == [book EXCEPT ![u] = y]
           f == CostsOf(book)
           g == CostsOf(mid)
           k == CostsOf(there)
<1>5. \A p \in Places : mid[p] = IF p = u THEN y ELSE book[p]
  BY DEF Books
<1>6. \A p \in Places : f[p] \in Int /\ g[p] \in Int /\ k[p] \in Int
  BY <1>3, <1>4, <1>5 DEF CostsOf
<1>7. /\ \A p \in Places \ {u} : f[p] = g[p]
      /\ \A p \in Places \ {v} : g[p] = k[p]
  <2>1. \A p \in Places : f[p] = CostOf(book[p]) /\ g[p] = CostOf(mid[p]) /\ k[p] = CostOf(there[p])
    BY DEF CostsOf
  <2>2. \A p \in Places \ {u} : mid[p] = book[p]
    BY <1>5
  <2>3. \A p \in Places \ {v} : mid[p] = there[p]
    BY <1>1, <1>5
  <2>. HIDE DEF f, g, k, mid
  <2>4. ASSUME NEW p \in Places \ {u} PROVE f[p] = g[p]
    <3>1. p \in Places /\ mid[p] = book[p]
      BY <2>2
    <3>. QED BY <2>1, <3>1
  <2>5. ASSUME NEW p \in Places \ {v} PROVE g[p] = k[p]
    <3>1. p \in Places /\ mid[p] = there[p]
      BY <2>3
    <3>. QED BY <2>1, <3>1
  <2>. QED BY <2>4, <2>5
<1>8. /\ f[u] = CostOf(book[u]) /\ g[u] = y.cost
      /\ g[v] = CostOf(book[v]) /\ k[v] = z.cost
  BY <1>1, <1>3, <1>5 DEF CostsOf
<1>9. IsFiniteSet(Places)
  BY HoldingsAssumption
<1>10. TotalCost(book) = SumOf(f, Places) /\ TotalCost(there) = SumOf(k, Places)
  BY TotalCostIsSum
<1>. HIDE DEF f, g, k, mid
<1>11. SumOf(g, Places) = SumOf(f, Places) - f[u] + g[u]
  BY <1>6, <1>7, <1>9, SumChange
<1>12. SumOf(k, Places) = SumOf(g, Places) - g[v] + k[v]
  BY <1>6, <1>7, <1>9, SumChange
<1>13. SumOf(f, Places) \in Int /\ SumOf(g, Places) \in Int
  BY <1>6, <1>9, SumType
<1>14. TotalCost(there) = TotalCost(book)
  <2> DEFINE a == SumOf(f, Places)
             b == SumOf(g, Places)
             cu == CostOf(book[u])
             cv == CostOf(book[v])
  <2>1. a \in Int /\ b \in Int /\ cu \in Int /\ cv \in Int
    BY <1>4, <1>13
  <2>2. b = a - cu + y.cost /\ SumOf(k, Places) = b - cv + z.cost /\ y.cost + z.cost = cu + cv
    BY <1>8, <1>11, <1>12 DEF SameCost
  <2>. HIDE DEF a, b, cu, cv
  <2>3. SumOf(k, Places) = a
    BY <1>3, <2>1, <2>2
  <2>. QED BY <1>10, <2>3 DEF a
<1>. QED BY <1>1, <1>2, <1>3, <1>14

(* What one row more or less declares. *)
TradeRows == [TradeIds -> Trade \cup {Nil}]
TransferRows == [TransferIds -> Transfer \cup {Nil}]

LEMMA DeclaredTrade ==
    ASSUME NEW ts, ts \in TradeRows, NEW i \in TradeIds, NEW r, r \in Trade \cup {Nil},
           NEW us, Updated(us, ts, i, r), NEW xs, xs \in TransferRows, NEW p
    PROVE  Declared(us, xs, p) - Declared(ts, xs, p) = Traded(r, p) - Traded(ts[i], p)
<1>. USE DEF TradeRows, TransferRows, Updated
<1>1. ASSUME NEW t \in Trade \cup {Nil} PROVE Traded(t, p) \in Int
  BY TradeFields DEF Traded
<1>2. ASSUME NEW t \in Transfer \cup {Nil} PROVE Transferred(t, p) \in Int
  BY TransferFields DEF Transferred
<1> DEFINE f == TradedOf(ts, p)
           g == TradedOf(us, p)
           k == TransferredOf(xs, p)
<1>3. \A j \in TradeIds : f[j] \in Int /\ g[j] \in Int
  BY <1>1 DEF TradedOf
<1>4. \A j \in TradeIds \ {i} : f[j] = g[j]
  BY DEF TradedOf
<1>5. f[i] = Traded(ts[i], p) /\ g[i] = Traded(r, p)
  BY DEF TradedOf
<1>6. \A x \in TransferIds : k[x] \in Int
  BY <1>2 DEF TransferredOf
<1>7. /\ TradesAt(ts, p) = SumOf(f, TradeIds) /\ TradesAt(us, p) = SumOf(g, TradeIds)
      /\ TransfersAt(xs, p) = SumOf(k, TransferIds)
  BY TradesAtIsSum, TransfersAtIsSum
<1>8. IsFiniteSet(TradeIds) /\ IsFiniteSet(TransferIds)
  BY HoldingsAssumption
<1>. HIDE DEF f, g, k
<1>9. SumOf(g, TradeIds) = SumOf(f, TradeIds) - f[i] + g[i]
  BY <1>3, <1>4, <1>8, SumChange
<1>10. SumOf(f, TradeIds) \in Int /\ SumOf(k, TransferIds) \in Int
  BY <1>3, <1>6, <1>8, SumType
<1> DEFINE a == SumOf(f, TradeIds)
           b == SumOf(g, TradeIds)
           m == SumOf(k, TransferIds)
<1>11. Declared(us, xs, p) = b + m /\ Declared(ts, xs, p) = a + m
  BY <1>7, DeclaredParts
<1>12. b = a - f[i] + g[i] /\ a \in Int /\ m \in Int /\ f[i] \in Int /\ g[i] \in Int
  BY <1>3, <1>9, <1>10
<1>. HIDE DEF a, b, m
<1>. QED BY <1>5, <1>11, <1>12

LEMMA DeclaredTransfer ==
    ASSUME NEW xs, xs \in TransferRows, NEW i \in TransferIds, NEW r, r \in Transfer \cup {Nil},
           NEW ys, Updated(ys, xs, i, r), NEW ts, ts \in TradeRows, NEW p
    PROVE  Declared(ts, ys, p) - Declared(ts, xs, p) = Transferred(r, p) - Transferred(xs[i], p)
<1>. USE DEF TradeRows, TransferRows, Updated
<1>1. ASSUME NEW t \in Trade \cup {Nil} PROVE Traded(t, p) \in Int
  BY TradeFields DEF Traded
<1>2. ASSUME NEW t \in Transfer \cup {Nil} PROVE Transferred(t, p) \in Int
  BY TransferFields DEF Transferred
<1> DEFINE f == TransferredOf(xs, p)
           g == TransferredOf(ys, p)
           k == TradedOf(ts, p)
<1>3. \A j \in TransferIds : f[j] \in Int /\ g[j] \in Int
  BY <1>2 DEF TransferredOf
<1>4. \A j \in TransferIds \ {i} : f[j] = g[j]
  BY DEF TransferredOf
<1>5. f[i] = Transferred(xs[i], p) /\ g[i] = Transferred(r, p)
  BY DEF TransferredOf
<1>6. \A j \in TradeIds : k[j] \in Int
  BY <1>1 DEF TradedOf
<1>7. /\ TransfersAt(xs, p) = SumOf(f, TransferIds) /\ TransfersAt(ys, p) = SumOf(g, TransferIds)
      /\ TradesAt(ts, p) = SumOf(k, TradeIds)
  BY TradesAtIsSum, TransfersAtIsSum
<1>8. IsFiniteSet(TradeIds) /\ IsFiniteSet(TransferIds)
  BY HoldingsAssumption
<1>. HIDE DEF f, g, k
<1>9. SumOf(g, TransferIds) = SumOf(f, TransferIds) - f[i] + g[i]
  BY <1>3, <1>4, <1>8, SumChange
<1>10. SumOf(f, TransferIds) \in Int /\ SumOf(k, TradeIds) \in Int
  BY <1>3, <1>6, <1>8, SumType
<1> DEFINE a == SumOf(f, TransferIds)
           b == SumOf(g, TransferIds)
           m == SumOf(k, TradeIds)
<1>11. Declared(ts, ys, p) = m + b /\ Declared(ts, xs, p) = m + a
  BY <1>7, DeclaredParts
<1>12. b = a - f[i] + g[i] /\ a \in Int /\ m \in Int /\ f[i] \in Int /\ g[i] \in Int
  BY <1>3, <1>9, <1>10
<1>. HIDE DEF a, b, m
<1>. QED BY <1>5, <1>11, <1>12

LEMMA DeclaredType ==
    ASSUME NEW ts \in [TradeIds -> Trade \cup {Nil}], NEW xs \in [TransferIds -> Transfer \cup {Nil}], NEW p
    PROVE  Declared(ts, xs, p) \in Int
<1> DEFINE f == TradedOf(ts, p)
           g == TransferredOf(xs, p)
<1>1. \A i \in TradeIds : f[i] \in Int
  BY TradeFields DEF TradedOf, Traded
<1>2. \A x \in TransferIds : g[x] \in Int
  BY TransferFields DEF TransferredOf, Transferred
<1>3. Declared(ts, xs, p) = SumOf(f, TradeIds) + SumOf(g, TransferIds)
  BY DeclaredParts, TradesAtIsSum, TransfersAtIsSum
<1>4. IsFiniteSet(TradeIds) /\ IsFiniteSet(TransferIds)
  BY HoldingsAssumption
<1>. HIDE DEF f, g
<1>5. SumOf(f, TradeIds) \in Int /\ SumOf(g, TransferIds) \in Int
  BY <1>1, <1>2, <1>4, SumType
<1>. QED BY <1>3, <1>5

-----------------------------------------------------------------------------
(* The steps. *)

Counted == requests < MaxRequests /\ requests' = requests + 1 /\ UNCHANGED asset

FollowsRows ==
    \A p \in Places :
        holdings[p] # Nil /\ holdings'[p] # Nil /\ ~Retyped =>
            holdings'[p].quantity - holdings[p].quantity
                = Declared(trades', transfers', p) - Declared(trades, transfers, p)

MovesCost == transfers' # transfers => TotalCost(holdings') = TotalCost(holdings)

HoldingsStep == HoldInv' /\ FollowsRows /\ MovesCost

LEMMA HoldTypes ==
    HoldInv =>
      /\ holdings \in Books /\ trades \in [TradeIds -> Trade \cup {Nil}]
      /\ transfers \in [TransferIds -> Transfer \cup {Nil}] /\ fees \in [TransferIds -> Fee \cup {Nil}]
      /\ cash \in Int /\ requests \in 0..MaxRequests /\ asset \in {"STOCK", "BITCOIN"}
      /\ \A x \in TransferIds : EndsHold(transfers[x], holdings)
BY DEF HoldInv, HoldingsTypeOK, Books

LEMMA HoldTyped ==
    ASSUME HoldInv, Counted, holdings' \in Books, trades' \in [TradeIds -> Trade \cup {Nil}],
           transfers' \in [TransferIds -> Transfer \cup {Nil}], fees' \in [TransferIds -> Fee \cup {Nil}],
           cash' \in Int
    PROVE  HoldingsTypeOK'
<1>1. requests' \in 0..MaxRequests /\ asset' \in {"STOCK", "BITCOIN"}
  BY HoldTypes, HoldingsAssumption DEF Counted
<1>. QED BY <1>1 DEF HoldingsTypeOK, Books

(* A request on a trade that keeps the holdings with the rows. *)
LEMMA TradeSide ==
    ASSUME HoldInv, Counted, NEW i \in TradeIds, NEW r \in Trade \cup {Nil}, trades' = [trades EXCEPT ![i] = r],
           NoTransfer, holdings' \in Books,
           \A p \in Places : holdings[p] # Nil =>
             /\ holdings'[p] # Nil
             /\ holdings'[p].quantity = holdings[p].quantity + (Traded(r, p) - Traded(trades[i], p))
    PROVE  HoldingsStep
<1>1. /\ trades \in [TradeIds -> Trade \cup {Nil}] /\ holdings \in Books
      /\ transfers \in [TransferIds -> Transfer \cup {Nil}] /\ fees \in [TransferIds -> Fee \cup {Nil}]
      /\ cash \in Int
      /\ \A x \in TransferIds : EndsHold(transfers[x], holdings)
  BY HoldTypes
<1>2. transfers' = transfers /\ cash' = cash /\ fees' = fees
  BY DEF NoTransfer
<1>3. trades' \in [TradeIds -> Trade \cup {Nil}]
  BY <1>1
<1>4. HoldingsTypeOK'
  BY <1>1, <1>2, <1>3, HoldTyped
<1>5. ASSUME NEW x \in TransferIds PROVE EndsHold(transfers'[x], holdings')
  <2>1. EndsHold(transfers[x], holdings) /\ transfers'[x] = transfers[x]
    BY <1>1, <1>2
  <2>2. transfers[x] # Nil => transfers[x].from \in Places /\ transfers[x].to \in Places
    BY <1>1, TransferFields
  <2>. QED BY <2>1, <2>2 DEF EndsHold
<1>6. ASSUME NEW p \in Places, holdings[p] # Nil
      PROVE  holdings'[p].quantity - holdings[p].quantity
                = Declared(trades', transfers', p) - Declared(trades, transfers, p)
  <2>1. Declared(trades', transfers', p) - Declared(trades, transfers, p) = Traded(r, p) - Traded(trades[i], p)
    <3>1. trades \in TradeRows /\ transfers \in TransferRows
      BY <1>1 DEF TradeRows, TransferRows
    <3>2. Updated(trades', trades, i, r)
      BY DEF Updated
    <3>. QED BY <1>2, <3>1, <3>2, DeclaredTrade
  <2>2. holdings[p].quantity \in Int
    BY <1>1, <1>6 DEF Books, Holding
  <2>3. Traded(r, p) \in Int /\ Traded(trades[i], p) \in Int
    BY <1>1, TradeFields DEF Traded
  <2> DEFINE a == Traded(r, p)
             b == Traded(trades[i], p)
             q == holdings[p].quantity
             n == holdings'[p].quantity
             d == Declared(trades', transfers', p) - Declared(trades, transfers, p)
  <2>4. d = a - b /\ n = q + (a - b) /\ q \in Int /\ a \in Int /\ b \in Int
    BY <1>6, <2>1, <2>2, <2>3
  <2>. HIDE DEF a, b, q, n, d
  <2>5. n - q = d
    BY <2>4
  <2>. QED BY <2>5 DEF n, q, d
<1>7. FollowsRows
  BY <1>6 DEF FollowsRows
<1>8. MovesCost
  BY <1>2 DEF MovesCost
<1>. QED BY <1>4, <1>5, <1>7, <1>8 DEF HoldingsStep, HoldInv

LEMMA TradedType == ASSUME NEW t \in Trade \cup {Nil}, NEW p PROVE Traded(t, p) \in Int /\ Traded(Nil, p) = 0
BY TradeFields DEF Traded

(* A trade applied, and a trade reversed. *)
LEMMA AppliedOnce ==
    ASSUME NEW book \in Books, NEW t \in Trade
    PROVE  /\ Applied(book, t, 1) \in Books
           /\ \A p \in Places : book[p] # Nil =>
                /\ Applied(book, t, 1)[p] # Nil
                /\ Applied(book, t, 1)[p].quantity = book[p].quantity + Traded(t, p)
<1> DEFINE m == 1
<1>1. m \in {1, -1} /\ \A p : Traded(t, p) \in Int
  BY TradedType
<1>2. \A p : m * Traded(t, p) = Traded(t, p)
  BY <1>1
<1>. HIDE DEF m
<1>3. /\ Applied(book, t, m) \in Books
      /\ \A p \in Places : book[p] # Nil =>
                /\ Applied(book, t, m)[p] # Nil
                /\ Applied(book, t, m)[p].quantity = book[p].quantity + m * Traded(t, p)
  BY <1>1, AppliedIs
<1>4. /\ Applied(book, t, m) \in Books
      /\ \A p \in Places : book[p] # Nil =>
                /\ Applied(book, t, m)[p] # Nil
                /\ Applied(book, t, m)[p].quantity = book[p].quantity + Traded(t, p)
  BY <1>2, <1>3
<1>. QED BY <1>4 DEF m

LEMMA ReversedIs ==
    ASSUME NEW book \in Books, NEW t \in Trade
    PROVE  /\ Applied(book, t, -1) \in Books
           /\ \A p \in Places : book[p] # Nil =>
                /\ Applied(book, t, -1)[p] # Nil
                /\ Applied(book, t, -1)[p].quantity = book[p].quantity - Traded(t, p)
<1> DEFINE m == -1
<1>1. m \in {1, -1} /\ \A p : Traded(t, p) \in Int
  BY TradedType
<1>2. \A n \in Int, q \in Int : q + m * n = q - n
  OBVIOUS
<1>. HIDE DEF m
<1>3. /\ Applied(book, t, m) \in Books
      /\ \A p \in Places : book[p] # Nil =>
                /\ Applied(book, t, m)[p] # Nil
                /\ Applied(book, t, m)[p].quantity = book[p].quantity + m * Traded(t, p)
  BY <1>1, AppliedIs
<1>4. \A p \in Places : book[p] # Nil => book[p].quantity \in Int
  BY DEF Books, Holding
<1>5. /\ Applied(book, t, m) \in Books
      /\ \A p \in Places : book[p] # Nil =>
                /\ Applied(book, t, m)[p] # Nil
                /\ Applied(book, t, m)[p].quantity = book[p].quantity - Traded(t, p)
  BY <1>1, <1>2, <1>3, <1>4
<1>. QED BY <1>5 DEF m

LEMMA CreateTradeStep ==
    ASSUME HoldInv, Counted, NEW i \in TradeIds, NEW t \in Trade, CreateTrade(i, t)
    PROVE  HoldingsStep
<1>1. /\ trades[i] = Nil /\ trades' = [trades EXCEPT ![i] = t]
      /\ holdings' = Applied(holdings, t, 1) /\ NoTransfer
  BY DEF CreateTrade
<1>2. holdings \in Books
  BY HoldTypes
<1>3. holdings' \in Books
  BY <1>1, <1>2, AppliedOnce
<1>4. ASSUME NEW p \in Places, holdings[p] # Nil
      PROVE  /\ holdings'[p] # Nil
             /\ holdings'[p].quantity = holdings[p].quantity + (Traded(t, p) - Traded(trades[i], p))
  <2>1. holdings'[p] # Nil /\ holdings'[p].quantity = holdings[p].quantity + Traded(t, p)
    BY <1>1, <1>2, <1>4, AppliedOnce
  <2>2. Traded(t, p) \in Int /\ Traded(trades[i], p) = 0
    BY <1>1, TradedType
  <2>3. Traded(t, p) = Traded(t, p) - Traded(trades[i], p)
    BY <2>2
  <2>. QED BY <2>1, <2>3
<1>. QED BY <1>1, <1>3, <1>4, TradeSide

LEMMA EditTradeStep ==
    ASSUME HoldInv, Counted, NEW i \in TradeIds, NEW t \in Trade, EditTrade(i, t)
    PROVE  HoldingsStep
<1> DEFINE old == trades[i]
           mid == Applied(holdings, old, -1)
<1>1. /\ old # Nil /\ trades' = [trades EXCEPT ![i] = t]
      /\ holdings' = Applied(mid, t, 1) /\ NoTransfer
  BY DEF EditTrade
<1>2. holdings \in Books /\ old \in Trade
  BY <1>1, HoldTypes
<1>. HIDE DEF old
<1>3. mid \in Books
  BY <1>2, ReversedIs
<1>4. ASSUME NEW p \in Places, holdings[p] # Nil
      PROVE  /\ holdings'[p] # Nil
             /\ holdings'[p].quantity = holdings[p].quantity + (Traded(t, p) - Traded(old, p))
  <2>1. mid[p] # Nil /\ mid[p].quantity = holdings[p].quantity - Traded(old, p)
    BY <1>2, <1>4, ReversedIs
  <2>. HIDE DEF mid
  <2>2. holdings'[p] # Nil /\ holdings'[p].quantity = mid[p].quantity + Traded(t, p)
    BY <1>1, <1>2, <1>3, <2>1, AppliedOnce
  <2>3. Traded(t, p) \in Int /\ Traded(old, p) \in Int /\ holdings[p].quantity \in Int
    BY <1>2, <1>4, TradedType DEF Books, Holding
  <2> DEFINE a == Traded(t, p)
             b == Traded(old, p)
             q == holdings[p].quantity
             n == holdings'[p].quantity
  <2>4. n = (q - b) + a /\ a \in Int /\ b \in Int /\ q \in Int
    BY <2>1, <2>2, <2>3
  <2>. HIDE DEF a, b, q, n
  <2>5. n = q + (a - b)
    BY <2>4
  <2>. QED BY <2>2, <2>5 DEF a, b, q, n
<1>5. holdings' \in Books
  <2>. HIDE DEF mid
  <2>. QED BY <1>1, <1>2, <1>3, AppliedOnce
<1>. QED BY <1>1, <1>4, <1>5, TradeSide DEF old

LEMMA DeleteTradeStep ==
    ASSUME HoldInv, Counted, NEW i \in TradeIds, DeleteTrade(i)
    PROVE  HoldingsStep
<1> DEFINE old == trades[i]
<1>1. /\ old # Nil /\ trades' = [trades EXCEPT ![i] = Nil]
      /\ holdings' = Applied(holdings, old, -1) /\ NoTransfer
  BY DEF DeleteTrade
<1>2. holdings \in Books /\ old \in Trade
  BY <1>1, HoldTypes
<1>. HIDE DEF old
<1>3. holdings' \in Books
  BY <1>1, <1>2, ReversedIs
<1>4. ASSUME NEW p \in Places, holdings[p] # Nil
      PROVE  /\ holdings'[p] # Nil
             /\ holdings'[p].quantity = holdings[p].quantity + (Traded(Nil, p) - Traded(old, p))
  <2>1. holdings'[p] # Nil /\ holdings'[p].quantity = holdings[p].quantity - Traded(old, p)
    BY <1>1, <1>2, <1>4, ReversedIs
  <2>2. Traded(old, p) \in Int /\ Traded(Nil, p) = 0 /\ holdings[p].quantity \in Int
    BY <1>2, <1>4, TradedType DEF Books, Holding
  <2>3. holdings[p].quantity - Traded(old, p) = holdings[p].quantity + (Traded(Nil, p) - Traded(old, p))
    BY <2>2
  <2>. QED BY <2>1, <2>3
<1>. QED BY <1>1, <1>3, <1>4, TradeSide DEF old

LEMMA RetypeTradeStep ==
    ASSUME HoldInv, Counted, NEW i \in TradeIds, RetypeTrade(i)
    PROVE  HoldingsStep
<1>1. /\ trades[i] # Nil /\ trades' = [trades EXCEPT ![i] = Nil] /\ holdings' = holdings
      /\ transfers' = transfers /\ cash' = cash /\ fees' = fees
  BY DEF RetypeTrade, NoTransfer
<1>2. trades' \in [TradeIds -> Trade \cup {Nil}] /\ trades'[i] = Nil
  BY <1>1, HoldTypes
<1>3. HoldingsTypeOK'
  BY <1>1, <1>2, HoldTypes, HoldTyped
<1>4. HoldInv'
  BY <1>1, <1>3, HoldTypes DEF HoldInv
<1>5. Retyped
  BY <1>1, <1>2 DEF Retyped
<1>. QED BY <1>1, <1>4, <1>5 DEF HoldingsStep, FollowsRows, MovesCost

LEMMA FeeStep ==
    ASSUME HoldInv, Counted, NEW x \in TransferIds, (\E n \in Fees \ {0} : EditFee(x, n)) \/ DeleteFee(x)
    PROVE  HoldingsStep
<1>1. fees[x] # Nil /\ UNCHANGED <<holdings, trades, transfers>>
  BY DEF EditFee, DeleteFee
<1>2. fees[x] \in Fee /\ fees[x].net \in Nat
  BY <1>1, HoldTypes DEF Fee
<1>3. fees' \in [TransferIds -> Fee \cup {Nil}] /\ cash' \in Int
  <2>1. CASE DeleteFee(x)
    BY <1>2, <2>1, HoldTypes DEF DeleteFee
  <2>2. CASE \E n \in Fees \ {0} : EditFee(x, n)
    <3>1. PICK n \in Fees \ {0} : EditFee(x, n)
      BY <2>2
    <3>2. n \in Nat
      BY HoldingsAssumption
    <3> DEFINE r == [amount |-> n, net |-> n]
    <3>3. r \in Fee
      BY <3>2, FeeNotNil
    <3>4. fees' = [fees EXCEPT ![x] = r] /\ cash' = cash + fees[x].net - n
      BY <3>1 DEF EditFee
    <3>. HIDE DEF r
    <3>. QED BY <1>2, <3>2, <3>3, <3>4, HoldTypes
  <2>. QED BY <2>1, <2>2
<1>4. HoldingsTypeOK'
  BY <1>1, <1>3, HoldTypes, HoldTyped
<1>5. HoldInv'
  BY <1>1, <1>4, HoldTypes DEF HoldInv
<1>6. FollowsRows
  <2>. SUFFICES ASSUME NEW p \in Places, holdings[p] # Nil
                PROVE  holdings'[p].quantity - holdings[p].quantity
                         = Declared(trades', transfers', p) - Declared(trades, transfers, p)
    BY DEF FollowsRows
  <2>2. holdings[p].quantity \in Int
    BY HoldTypes DEF Books, Holding
  <2>3. Declared(trades, transfers, p) \in Int
    BY HoldTypes, DeclaredType
  <2> DEFINE d == Declared(trades, transfers, p)
             e == Declared(trades', transfers', p)
  <2>4. d = e
    BY <1>1
  <2>. HIDE DEF d, e
  <2>. QED BY <1>1, <2>2, <2>3, <2>4 DEF d, e
<1>. QED BY <1>1, <1>5, <1>6 DEF HoldingsStep, MovesCost

LEMMA TransferredIs ==
    ASSUME NEW t \in Transfer, NEW p
    PROVE  /\ Transferred(Nil, p) = 0 /\ Transferred(t, p) \in Int
           /\ t.from # t.to /\ p = t.from => Transferred(t, p) = -(t.quantity + t.fee)
           /\ t.from # t.to /\ p = t.to => Transferred(t, p) = t.quantity
           /\ p \notin {t.from, t.to} => Transferred(t, p) = 0
<1>1. t # Nil /\ t.quantity \in Nat /\ t.fee \in Nat
  BY TransferFields
<1>. QED BY <1>1 DEF Transferred

(* A transfer that is made or undone: s is the row it was, r the row it is. *)
Tells(y, g, r, s, p) == g # Nil => y.quantity - g.quantity = Transferred(r, p) - Transferred(s, p)
Elsewhere(r, s, u, v) == \A p \in Places \ {u, v} : Transferred(r, p) = Transferred(s, p)
Joins(r, u, v) == r # Nil => r.from = u /\ r.to = v

LEMMA TransferSide ==
    ASSUME HoldInv, Counted, NEW x \in TransferIds, NEW r, r \in Transfer \cup {Nil},
           Updated(transfers', transfers, x, r), trades' = trades,
           fees' \in [TransferIds -> Fee \cup {Nil}], cash' \in Int,
           NEW u \in Places, NEW v \in Places, u # v, NEW y \in Holding, NEW z \in Holding,
           MovedTo(holdings', holdings, u, y, v, z),
           SameCost(y, z, holdings[u], holdings[v]), Joins(r, u, v),
           Tells(y, holdings[u], r, transfers[x], u), Tells(z, holdings[v], r, transfers[x], v),
           Elsewhere(r, transfers[x], u, v)
    PROVE  HoldingsStep
<1>1. /\ holdings \in Books /\ trades \in TradeRows /\ transfers \in TransferRows
      /\ \A w \in TransferIds : EndsHold(transfers[w], holdings)
  BY HoldTypes DEF TradeRows, TransferRows
<1>2. /\ holdings' \in Books
      /\ \A p \in Places : holdings'[p] = IF p = u THEN y ELSE IF p = v THEN z ELSE holdings[p]
      /\ \A p \in Places : holdings[p] # Nil => holdings'[p] # Nil
      /\ holdings'[u] # Nil /\ holdings'[v] # Nil
      /\ TotalCost(holdings') = TotalCost(holdings)
  <2>1. PICK there : there = holdings'
    OBVIOUS
  <2>2. MovedTo(there, holdings, u, y, v, z)
    BY <2>1
  <2>3. /\ there \in Books
        /\ \A p \in Places : there[p] = IF p = u THEN y ELSE IF p = v THEN z ELSE holdings[p]
        /\ \A p \in Places : holdings[p] # Nil => there[p] # Nil
        /\ there[u] # Nil /\ there[v] # Nil
        /\ TotalCost(there) = TotalCost(holdings)
    BY <1>1, <2>2, MoveIs
  <2>. QED BY <2>1, <2>3
<1>3. transfers' \in TransferRows /\ \A w \in TransferIds : transfers'[w] = IF w = x THEN r ELSE transfers[w]
  BY <1>1 DEF TransferRows, Updated
<1>4. HoldingsTypeOK'
  BY <1>1, <1>2, <1>3, HoldTyped DEF TradeRows, TransferRows
<1>5. ASSUME NEW w \in TransferIds PROVE EndsHold(transfers'[w], holdings')
  <2>1. CASE w = x
    <3>1. transfers'[w] = r
      BY <1>3, <2>1
    <3>. QED BY <1>2, <3>1 DEF EndsHold, Joins
  <2>2. CASE w # x
    <3>1. transfers'[w] = transfers[w] /\ EndsHold(transfers[w], holdings)
      BY <1>1, <1>3, <2>2
    <3>2. transfers[w] # Nil => transfers[w].from \in Places /\ transfers[w].to \in Places
      BY <1>1, TransferFields DEF TransferRows
    <3>. QED BY <1>2, <3>1, <3>2 DEF EndsHold
  <2>. QED BY <2>1, <2>2
<1>6. ASSUME NEW p \in Places, holdings[p] # Nil
      PROVE  holdings'[p].quantity - holdings[p].quantity
                = Declared(trades', transfers', p) - Declared(trades, transfers, p)
  <2>2. Declared(trades, transfers', p) - Declared(trades, transfers, p)
          = Transferred(r, p) - Transferred(transfers[x], p)
    BY <1>1, DeclaredTransfer
  <2>3. holdings'[p].quantity - holdings[p].quantity = Transferred(r, p) - Transferred(transfers[x], p)
    <3>1. CASE p = u
      BY <1>2, <1>6, <3>1 DEF Tells
    <3>2. CASE p = v
      BY <1>2, <1>6, <3>2 DEF Tells
    <3>3. CASE p \notin {u, v}
      <4>1. holdings[p].quantity \in Int
        BY <1>1, <1>6 DEF Books, Holding
      <4>3. Transferred(transfers[x], p) \in Int
        <5>1. \A t \in Transfer : Transferred(t, p) \in Int
          BY TransferredIs
        <5>2. Transferred(Nil, p) \in Int
          BY DEF Transferred
        <5>. QED BY <1>1, <5>1, <5>2 DEF TransferRows
      <4>2. holdings'[p] = holdings[p] /\ Transferred(r, p) = Transferred(transfers[x], p)
        BY <1>2, <3>3 DEF Elsewhere
      <4>. QED BY <4>1, <4>2, <4>3
    <3>. QED BY <3>1, <3>2, <3>3
  <2>. QED BY <2>2, <2>3
<1>7. FollowsRows
  BY <1>6 DEF FollowsRows
<1>8. MovesCost
  BY <1>2 DEF MovesCost
<1>. QED BY <1>4, <1>5, <1>7, <1>8 DEF HoldingsStep, HoldInv

(* Units and cost taken from one holding and added to another, or to none. *)
LEMMA TakeAndAdd ==
    ASSUME NEW h \in Holding, NEW g \in Holding \cup {Nil}, NEW m \in Nat, NEW n \in Nat, NEW c \in Int
    PROVE  /\ Take(h, m, c) \in Holding /\ Add(g, n, c) \in Holding
           /\ Take(h, m, c).quantity - h.quantity = -m
           /\ g # Nil => Add(g, n, c).quantity - g.quantity = n
           /\ SameCost(Take(h, m, c), Add(g, n, c), h, g) /\ SameCost(Add(g, n, c), Take(h, m, c), g, h)
<1>1. h.quantity \in Int /\ h.cost \in Int /\ CostOf(h) = h.cost
  BY RealHolding
<1>2. CostOf(g) \in Int /\ (g # Nil => g.quantity \in Int)
  BY RealHolding DEF CostOf
<1>3. Take(h, m, c) \in Holding /\ Take(h, m, c).quantity = h.quantity - m /\ Take(h, m, c).cost = h.cost - c
  BY TakeType
<1>4. Add(g, n, c) \in Holding /\ (g # Nil => Add(g, n, c).quantity = g.quantity + n)
      /\ Add(g, n, c).cost = CostOf(g) + c
  BY AddType
<1>. QED BY <1>1, <1>2, <1>3, <1>4 DEF SameCost

Taken(y, z, h, g, m, n) ==
    /\ y.quantity - h.quantity = -m
    /\ g # Nil => z.quantity - g.quantity = n
    /\ SameCost(y, z, h, g)

LEMMA SomeTaken ==
    ASSUME NEW h \in Holding, NEW g \in Holding \cup {Nil}, NEW m \in Nat, NEW n \in Nat, NEW c \in Int
    PROVE  \E y \in Holding, z \in Holding : y = Take(h, m, c) /\ z = Add(g, n, c) /\ Taken(y, z, h, g, m, n)
<1> DEFINE a == Take(h, m, c)
           b == Add(g, n, c)
<1>1. a \in Holding /\ b \in Holding
  BY TakeAndAdd
<1>2. /\ a.quantity - h.quantity = -m
      /\ g # Nil => b.quantity - g.quantity = n
      /\ SameCost(a, b, h, g)
  BY TakeAndAdd
<1>. QED BY <1>1, <1>2 DEF Taken

LEMMA SendStep ==
    ASSUME HoldInv, Counted, NEW x \in TransferIds, NEW u \in Places, NEW v \in Places, u # v,
           NEW q \in Nat, NEW f \in Nat, NEW c, c = Share(holdings[u], q),
           transfers[x] = Nil, holdings[u] # Nil,
           transfers' = [transfers EXCEPT ![x] = [from |-> u, to |-> v, quantity |-> q, fee |-> f]],
           holdings' = [holdings EXCEPT ![u] = Take(@, q + f, c), ![v] = Add(@, q, c)],
           trades' = trades, fees' \in [TransferIds -> Fee \cup {Nil}], cash' \in Int
    PROVE  HoldingsStep
<1> DEFINE r == [from |-> u, to |-> v, quantity |-> q, fee |-> f]
<1>1. PICK h \in Holding, g \in Holding \cup {Nil}, m \in Nat : h = holdings[u] /\ g = holdings[v] /\ m = q + f
  <2>1. holdings[u] \in Holding /\ holdings[v] \in Holding \cup {Nil}
    BY HoldTypes DEF Books
  <2>. QED BY <2>1
<1>2. PICK d \in Int : d = c
  BY <1>1, ShareType
<1>3. PICK y \in Holding, z \in Holding : y = Take(h, m, d) /\ z = Add(g, q, d) /\ Taken(y, z, h, g, m, q)
  BY <1>1, <1>2, SomeTaken
<1>4. /\ y.quantity - h.quantity = -m
      /\ g # Nil => z.quantity - g.quantity = q
      /\ SameCost(y, z, h, g)
  BY <1>3 DEF Taken
<1>5. MovedTo(holdings', holdings, u, y, v, z)
  <2>1. holdings' = [holdings EXCEPT ![u] = Take(holdings[u], q + f, c), ![v] = Add(holdings[v], q, c)]
    BY HoldTypes DEF Books
  <2>. QED BY <1>1, <1>2, <1>3, <2>1 DEF MovedTo
<1>6. r \in Transfer /\ r.from = u /\ r.to = v /\ r.quantity = q /\ r.fee = f
  BY DEF Transfer
<1>7. Updated(transfers', transfers, x, r)
  BY DEF Updated
<1>. HIDE DEF r
<1>8. /\ Transferred(r, u) = -m /\ Transferred(r, v) = q
      /\ \A p : Transferred(transfers[x], p) = 0
      /\ \A p \in Places \ {u, v} : Transferred(r, p) = 0
  BY <1>1, <1>6, TransferredIs
<1>9. Tells(y, holdings[u], r, transfers[x], u)
  BY <1>1, <1>4, <1>8 DEF Tells
<1>10. Tells(z, holdings[v], r, transfers[x], v)
  BY <1>1, <1>4, <1>8 DEF Tells
<1>11. Elsewhere(r, transfers[x], u, v) /\ Joins(r, u, v)
  BY <1>6, <1>8 DEF Elsewhere, Joins
<1>12. SameCost(y, z, holdings[u], holdings[v])
  BY <1>1, <1>4
<1>. QED BY <1>5, <1>6, <1>7, <1>9, <1>10, <1>11, <1>12, TransferSide

LEMMA BitcoinTransferStep ==
    ASSUME HoldInv, Counted, NEW x \in TransferIds, NEW u \in Places, NEW v \in Places,
           NEW q \in Quantities, NEW f \in Fees, BitcoinTransfer(x, u, v, q, f)
    PROVE  HoldingsStep
<1>1. q \in Nat /\ f \in Nat
  BY HoldingsAssumption
<1>2. fees' \in [TransferIds -> Fee \cup {Nil}] /\ cash' \in Int
  BY HoldTypes DEF BitcoinTransfer
<1>. QED BY <1>1, <1>2, SendStep DEF BitcoinTransfer

LEMMA StockTransferStep ==
    ASSUME HoldInv, Counted, NEW x \in TransferIds, NEW u \in Places, NEW v \in Places,
           NEW q \in Quantities, NEW f \in Fees, StockTransfer(x, u, v, q, f)
    PROVE  HoldingsStep
<1>1. q \in Nat /\ f \in Nat /\ 0 \in Nat
  BY HoldingsAssumption
<1> DEFINE e == IF f = 0 THEN Nil ELSE [amount |-> f, net |-> 0]
<1>2. e \in Fee \cup {Nil}
  BY <1>1, FeeNotNil
<1>3. fees' = [fees EXCEPT ![x] = e] /\ cash' = cash - f
  BY DEF StockTransfer
<1>. HIDE DEF e
<1>4. fees' \in [TransferIds -> Fee \cup {Nil}] /\ cash' \in Int
  BY <1>1, <1>2, <1>3, HoldTypes
<1>5. /\ u # v /\ transfers[x] = Nil /\ holdings[u] # Nil /\ trades' = trades
      /\ transfers' = [transfers EXCEPT ![x] = [from |-> u, to |-> v, quantity |-> q, fee |-> 0]]
  BY DEF StockTransfer
<1>6. holdings' = [holdings EXCEPT ![u] = Take(@, q + 0, Share(holdings[u], q)), ![v] = Add(@, q, Share(holdings[u], q))]
  <2>1. q + 0 = q
    BY <1>1
  <2>. QED BY <2>1 DEF StockTransfer
<1>. QED BY <1>1, <1>4, <1>5, <1>6, SendStep

LEMMA ReverseTransferStep ==
    ASSUME HoldInv, Counted, NEW x \in TransferIds, ReverseTransfer(x)
    PROVE  HoldingsStep
<1>1. PICK t : t = transfers[x]
  OBVIOUS
<1>2. t # Nil /\ t \in Transfer /\ EndsHold(t, holdings)
  BY <1>1, HoldTypes DEF ReverseTransfer
<1>3. PICK u \in Places, v \in Places : u = t.from /\ v = t.to
  BY <1>2, TransferFields
<1>4. PICK m \in Nat, n \in Nat : m = t.quantity /\ n = t.quantity + t.fee
  <2>1. t.quantity \in Nat /\ t.fee \in Nat
    BY <1>2, TransferFields
  <2>2. t.quantity + t.fee \in Nat
    BY <2>1
  <2>. QED BY <2>1, <2>2
<1>5. u # v /\ holdings[u] # Nil /\ holdings[v] # Nil
  BY <1>2, <1>3 DEF EndsHold
<1>6. PICK g \in Holding, h \in Holding : g = holdings[u] /\ h = holdings[v]
  BY <1>5, HoldTypes DEF Books
<1>7. PICK c \in Int : c = Share(h, m)
  BY <1>4, ShareType
<1>8. PICK y \in Holding, z \in Holding : y = Add(g, n, c) /\ z = Take(h, m, c)
  BY TakeAndAdd
<1>9. /\ z.quantity - h.quantity = -m
      /\ y.quantity - g.quantity = n
      /\ SameCost(y, z, g, h)
  BY <1>5, <1>6, <1>8, TakeAndAdd
<1>10. MovedTo(holdings', holdings, u, y, v, z)
  <2>1. holdings' = [holdings EXCEPT ![u] = Add(@, n, c), ![v] = Take(@, m, c)]
    BY <1>1, <1>3, <1>4, <1>6, <1>7 DEF ReverseTransfer
  <2>2. holdings' = [holdings EXCEPT ![u] = Add(holdings[u], n, c), ![v] = Take(holdings[v], m, c)]
    BY <1>5, <2>1, HoldTypes DEF Books
  <2>. QED BY <1>6, <1>8, <2>2 DEF MovedTo
<1>11. /\ Transferred(t, u) = -n /\ Transferred(t, v) = m
       /\ \A p \in Places \ {u, v} : Transferred(t, p) = 0
       /\ \A p : Transferred(Nil, p) = 0
  BY <1>2, <1>3, <1>4, <1>5, TransferredIs
<1>12. /\ Tells(y, holdings[u], Nil, transfers[x], u) /\ Tells(z, holdings[v], Nil, transfers[x], v)
       /\ Elsewhere(Nil, transfers[x], u, v) /\ Joins(Nil, u, v)
       /\ SameCost(y, z, holdings[u], holdings[v])
  <2>1. Tells(y, holdings[u], Nil, transfers[x], u)
    BY <1>1, <1>6, <1>9, <1>11 DEF Tells
  <2>2. Tells(z, holdings[v], Nil, transfers[x], v)
    BY <1>1, <1>6, <1>9, <1>11 DEF Tells
  <2>. QED BY <1>1, <1>6, <1>9, <1>11, <2>1, <2>2 DEF Elsewhere, Joins
<1>13. Updated(transfers', transfers, x, Nil) /\ trades' = trades
  BY DEF ReverseTransfer, Updated
<1>14. fees' \in [TransferIds -> Fee \cup {Nil}] /\ cash' \in Int
  <2>1. fees' = [fees EXCEPT ![x] = Nil]
    BY DEF ReverseTransfer
  <2>2. cash' \in Int
    <3>1. CASE fees[x] = Nil
      BY <3>1, HoldTypes DEF ReverseTransfer
    <3>2. CASE fees[x] # Nil
      <4>1. fees[x].amount \in Nat
        BY <3>2, HoldTypes DEF Fee
      <4>. QED BY <3>2, <4>1, HoldTypes DEF ReverseTransfer
    <3>. QED BY <3>1, <3>2
  <2>. QED BY <2>1, <2>2, HoldTypes
<1>15. Nil \in Transfer \cup {Nil}
  OBVIOUS
<1>. QED BY <1>5, <1>10, <1>12, <1>13, <1>14, <1>15, TransferSide

LEMMA DeleteHoldingStep ==
    ASSUME HoldInv, Counted, NEW p \in Places, DeleteHolding(p)
    PROVE  HoldingsStep
<1>1. /\ \A x \in TransferIds : transfers[x] # Nil => p \notin {transfers[x].from, transfers[x].to}
      /\ holdings' = [holdings EXCEPT ![p] = Nil]
      /\ trades' = trades /\ transfers' = transfers /\ cash' = cash /\ fees' = fees
  BY DEF DeleteHolding, NoTransfer
<1>2. /\ holdings \in Books /\ trades \in TradeRows /\ transfers \in TransferRows
      /\ \A x \in TransferIds : EndsHold(transfers[x], holdings)
  BY HoldTypes DEF TradeRows, TransferRows
<1>3. holdings' \in Books /\ \A u \in Places : holdings'[u] = IF u = p THEN Nil ELSE holdings[u]
  BY <1>1, <1>2 DEF Books
<1>4. HoldingsTypeOK'
  BY <1>1, <1>3, HoldTypes, HoldTyped
<1>5. ASSUME NEW x \in TransferIds PROVE EndsHold(transfers'[x], holdings')
  <2>1. EndsHold(transfers[x], holdings) /\ transfers'[x] = transfers[x]
    BY <1>1, <1>2
  <2>2. transfers[x] # Nil => transfers[x].from \in Places \ {p} /\ transfers[x].to \in Places \ {p}
    BY <1>1, <1>2, TransferFields DEF TransferRows
  <2>. QED BY <1>3, <2>1, <2>2 DEF EndsHold
<1>6. FollowsRows
  <2>. SUFFICES ASSUME NEW u \in Places, holdings[u] # Nil, holdings'[u] # Nil
                PROVE  holdings'[u].quantity - holdings[u].quantity
                         = Declared(trades', transfers', u) - Declared(trades, transfers, u)
    BY DEF FollowsRows
  <2>1. holdings'[u] = holdings[u] /\ holdings[u].quantity \in Int
    BY <1>2, <1>3 DEF Books, Holding
  <2>2. Declared(trades, transfers, u) \in Int
    BY <1>2, DeclaredType DEF TradeRows, TransferRows
  <2> DEFINE d == Declared(trades, transfers, u)
             e == Declared(trades', transfers', u)
  <2>3. d = e
    BY <1>1
  <2>. HIDE DEF d, e
  <2>. QED BY <2>1, <2>2, <2>3 DEF d, e
<1>. QED BY <1>1, <1>4, <1>5, <1>6 DEF HoldingsStep, HoldInv, MovesCost

LEMMA HoldingsMove == ASSUME HoldInv, HoldingsNext PROVE HoldingsStep
<1>1. Counted
  BY DEF HoldingsNext, Counted
<1>2. CASE \E i \in TradeIds, t \in Trade : CreateTrade(i, t)
  BY <1>1, <1>2, CreateTradeStep
<1>3. CASE \E i \in TradeIds, t \in Trade : EditTrade(i, t)
  BY <1>1, <1>3, EditTradeStep
<1>4. CASE \E i \in TradeIds : RetypeTrade(i)
  BY <1>1, <1>4, RetypeTradeStep
<1>5. CASE \E i \in TradeIds : DeleteTrade(i)
  BY <1>1, <1>5, DeleteTradeStep
<1>6. CASE \E p \in Places : DeleteHolding(p)
  BY <1>1, <1>6, DeleteHoldingStep
<1>7. CASE \E x \in TransferIds : ReverseTransfer(x)
  BY <1>1, <1>7, ReverseTransferStep
<1>8. CASE \E x \in TransferIds : DeleteFee(x) \/ \E n \in Fees \ {0} : EditFee(x, n)
  BY <1>1, <1>8, FeeStep
<1>9. CASE \E x \in TransferIds, u \in Places, v \in Places, q \in Quantities, f \in Fees :
             BitcoinTransfer(x, u, v, q, f)
  BY <1>1, <1>9, BitcoinTransferStep
<1>10. CASE \E x \in TransferIds, u \in Places, v \in Places, q \in Quantities, f \in Fees :
             StockTransfer(x, u, v, q, f)
  BY <1>1, <1>10, StockTransferStep
<1>. QED BY <1>2, <1>3, <1>4, <1>5, <1>6, <1>7, <1>8, <1>9, <1>10 DEF HoldingsNext

LEMMA HoldingsStart == HoldingsInit => HoldInv
BY HoldingsAssumption DEF HoldingsInit, HoldInv, HoldingsTypeOK, EndsHold

LEMMA HoldingsStay == HoldInv /\ UNCHANGED holdingsVars => HoldInv'
BY DEF HoldInv, HoldingsTypeOK, EndsHold, holdingsVars

LEMMA HoldingsInductive == HoldingsSpec => []HoldInv
<1>1. HoldInv /\ HoldingsNext => HoldInv'
  BY HoldingsMove DEF HoldingsStep
<1>. QED BY <1>1, HoldingsStart, HoldingsStay, PTL DEF HoldingsSpec

(* Holdings, trades, transfers and their fees keep their types (lib/        *)
(* holdings.ts, lib/transfers.ts).                                          *)
THEOREM HoldingTypesAreKept == HoldingsSpec => []HoldingsTypeOK
<1>1. HoldInv => HoldingsTypeOK
  BY DEF HoldInv
<1>. QED BY <1>1, HoldingsInductive, PTL

(* applyTradeToHolding, applyBitcoinToHolding and the transfers: whatever   *)
(* is bought, sold, edited, deleted, transferred and reversed, a holding    *)
(* moves by as many units as the rows about it, but for a trade that is     *)
(* made something else.                                                     *)
THEOREM HoldingsFollowTheirRows == HoldingsSpec => HoldingFollowsRows
<1>1. HoldInv /\ HoldingsNext => FollowsRows
  BY HoldingsMove DEF HoldingsStep
<1>2. HoldInv /\ UNCHANGED holdingsVars => HoldInv'
  BY HoldingsStay
<1>. QED BY <1>1, HoldingsInductive, PTL DEF HoldingsSpec, HoldingFollowsRows, FollowsRows

(* lib/transfers.ts: a transfer, and the reversal of one, carries cost from *)
(* one holding to another and makes none, whatever its share is rounded to. *)
THEOREM TransfersKeepTheCost == HoldingsSpec => TransfersMoveCost
<1>1. HoldInv /\ HoldingsNext => MovesCost
  BY HoldingsMove DEF HoldingsStep
<1>. QED BY <1>1, HoldingsInductive, PTL DEF HoldingsSpec, TransfersMoveCost, MovesCost

-----------------------------------------------------------------------------
(* The balance chain.  A chain is a finite set of links of rows that are    *)
(* not the same, so that of two links one is before the other.              *)

LinkSet == [date : Int, id : Int, side : Sides, delta : Int]
LinkDelta == [l \in LinkSet |-> l.delta]
IsChain(links) ==
    /\ links \subseteq LinkSet
    /\ IsFiniteSet(links)
    /\ \A k, l \in links : k.id = l.id => k = l
Earlier(links, place) == {k \in links : Before(k, place)}
Later(links, place) == {k \in links : Before(place, k)}

DeltaOf(S) == [l \in S |-> l.delta]
DeltaSum(S) == MapThenSumSet(LAMBDA l : l.delta, S)

LEMMA DeltaSumIsSum ==
    ASSUME NEW S
    PROVE  DeltaSum(S) = SumOf(DeltaOf(S), S)
<1> DEFINE IsThis(sum) ==
             sum = [T \in SUBSET S |->
                      IF T = {} THEN 0
                      ELSE LET x == CHOOSE x \in T : TRUE IN x.delta + sum[T \ {x}]]
<1>1. DeltaSum(S) = (CHOOSE sum : IsThis(sum))[S]
  BY DEF DeltaSum, MapThenSumSet, MapThenFoldSet
<1>2. ASSUME NEW sum PROVE IsSum(sum, DeltaOf(S), S) <=> IsThis(sum)
  <2>1. \A T \in SUBSET S : T # {} =>
          DeltaOf(S)[CHOOSE x \in T : TRUE] = (CHOOSE x \in T : TRUE).delta
    BY DEF DeltaOf
  <2>. QED BY <2>1 DEF IsSum
<1>3. (CHOOSE sum : IsSum(sum, DeltaOf(S), S)) = (CHOOSE sum : IsThis(sum))
  <2>. HIDE DEF IsThis
  <2>. QED BY <1>2
<1>. HIDE DEF IsThis
<1>. QED BY <1>1, <1>3, SumIter

LEMMA RunningIsSum ==
    ASSUME NEW links \in SUBSET LinkSet, NEW start, NEW l
    PROVE  Running(links, start, l) = start + SumOf(LinkDelta, Earlier(links, l))
<1>1. Running(links, start, l) = start + DeltaSum(Earlier(links, l))
  BY DEF Running, DeltaSum, Earlier
<1>2. \A k \in Earlier(links, l) : DeltaOf(Earlier(links, l))[k] = LinkDelta[k]
  BY DEF DeltaOf, LinkDelta, Earlier
<1>3. SumOf(DeltaOf(Earlier(links, l)), Earlier(links, l)) = SumOf(LinkDelta, Earlier(links, l))
  <2>. HIDE DEF Earlier
  <2>. QED BY <1>2, SumFrame
<1>. QED BY <1>1, <1>3, DeltaSumIsSum

LEMMA DeltaType == ASSUME NEW l \in LinkSet PROVE LinkDelta[l] = l.delta /\ l.delta \in Int
BY DEF LinkDelta, LinkSet

LEMMA LinkFields == ASSUME NEW l \in LinkSet PROVE l.date \in Int /\ l.id \in Int /\ l.side \in Sides
BY DEF LinkSet

(* What parts of chains sum to. *)
LEMMA LinksSumType ==
    ASSUME NEW S \in SUBSET LinkSet, IsFiniteSet(S)
    PROVE  SumOf(LinkDelta, S) \in Int
BY SumType, DeltaType

LEMMA RunningType ==
    ASSUME NEW links \in SUBSET LinkSet, IsFiniteSet(links), NEW start \in Int, NEW l
    PROVE  Running(links, start, l) \in Int
<1>1. Earlier(links, l) \in SUBSET LinkSet /\ Earlier(links, l) \in SUBSET links
  BY DEF Earlier
<1>. QED BY <1>1, FS_Subset, LinksSumType, RunningIsSum

(* A walk that starts from what the links not after its place lead to has   *)
(* the balance of the whole chain at every later link.                      *)
LEMMA RunningFromPlace ==
    ASSUME NEW L, IsChain(L), NEW place, place.date \in Int, place.id \in Int,
           NEW start, start = Opening + SumOf(LinkDelta, L \ Later(L, place)),
           NEW l \in Later(L, place)
    PROVE  Running(Later(L, place), start, l) = Running(L, Opening, l)
<1> DEFINE A == L \ Later(L, place)
           B == Earlier(Later(L, place), l)
<1>1. L \in SUBSET LinkSet /\ IsFiniteSet(L)
  BY DEF IsChain
<1>2. Later(L, place) \in SUBSET L /\ l \in LinkSet /\ Before(place, l)
  BY <1>1 DEF Later
<1>3. Earlier(L, l) = A \cup B
  <2>1. \A k \in L : k.date \in Int /\ k.id \in Int
    BY <1>1, LinkFields
  <2>2. l.date \in Int /\ l.id \in Int
    BY <1>2, LinkFields
  <2>3. \A k \in L : ~Before(place, k) => Before(k, l)
    BY <2>1, <2>2, <1>2 DEF Before
  <2>. QED BY <2>3 DEF Later, Earlier
<1>4. IsFiniteSet(A) /\ IsFiniteSet(B) /\ A \cap B = {} /\ A \in SUBSET LinkSet /\ B \in SUBSET LinkSet
  <2>1. A \in SUBSET L /\ B \in SUBSET L
    BY DEF Earlier, Later
  <2>2. A \cap B = {}
    BY DEF Earlier
  <2>. QED BY <1>1, <2>1, <2>2, FS_Subset
<1>. HIDE DEF A, B
<1>5. SumOf(LinkDelta, A \cup B) = SumOf(LinkDelta, A) + SumOf(LinkDelta, B)
  <2>1. \A x \in A \cup B : LinkDelta[x] \in Int
    BY <1>4, DeltaType
  <2>. QED BY <1>4, <2>1, SumSplit
<1>6. Running(Later(L, place), start, l) = start + SumOf(LinkDelta, B)
  BY <1>1, <1>2, RunningIsSum DEF B
<1>7. Running(L, Opening, l) = Opening + SumOf(LinkDelta, A \cup B)
  BY <1>1, <1>3, RunningIsSum
<1>8. SumOf(LinkDelta, A) \in Int /\ SumOf(LinkDelta, B) \in Int /\ Opening \in Int
  BY <1>4, LinksSumType, ChainAssumption
<1>. QED BY <1>5, <1>6, <1>7, <1>8 DEF A

(* Columns, and what a walk writes into them. *)
LEMMA PairType ==
    ASSUME NEW before \in Int, NEW delta \in Int
    PROVE  Pair(before, delta) \in Columns /\ Pair(before, delta).before = before
           /\ Pair(before, delta).after = before + delta
BY DEF Pair, Columns

LEMMA NullIsNoInt == Null \notin Int /\ Null \notin ChainAccounts
BY ChainAssumption

LEMMA WrittenAt ==
    ASSUME NEW c, NEW some, \A k, l \in some : k.id = l.id => k = l, NEW links, NEW start,
           NEW l \in some, l.id \in DOMAIN c, l.side \in Sides
    PROVE  Written(c, some, links, start)[l.id][l.side] = Pair(Running(links, start, l), l.delta)
<1> DEFINE Here == {k \in some : k.id = l.id /\ k.side = l.side}
           Cell == IF Here = {} THEN c[l.id][l.side]
                   ELSE Pair(Running(links, start, CHOOSE k \in Here : TRUE), (CHOOSE k \in Here : TRUE).delta)
<1>1. Written(c, some, links, start)[l.id][l.side] = Cell
  BY DEF Written
<1>2. Here = {l}
  OBVIOUS
<1>. HIDE DEF Here
<1>3. (CHOOSE k \in Here : TRUE) = l
  BY <1>2
<1>. QED BY <1>1, <1>2, <1>3

LEMMA WrittenElse ==
    ASSUME NEW c, NEW some, NEW links, NEW start,
           NEW i \in DOMAIN c, NEW s \in Sides, \A l \in some : l.id # i \/ l.side # s
    PROVE  Written(c, some, links, start)[i][s] = c[i][s]
<1> DEFINE Here == {k \in some : k.id = i /\ k.side = s}
           Cell == IF Here = {} THEN c[i][s]
                   ELSE Pair(Running(links, start, CHOOSE k \in Here : TRUE), (CHOOSE k \in Here : TRUE).delta)
<1>1. Written(c, some, links, start)[i][s] = Cell
  BY DEF Written
<1>2. Here = {}
  OBVIOUS
<1>. QED BY <1>1, <1>2

LEMMA WrittenType ==
    ASSUME NEW D, NEW c \in [D -> [Sides -> Columns]], NEW some \in SUBSET LinkSet,
           NEW links \in SUBSET LinkSet, IsFiniteSet(links), NEW start \in Int
    PROVE  Written(c, some, links, start) \in [D -> [Sides -> Columns]]
<1> DEFINE Here(i, s) == {l \in some : l.id = i /\ l.side = s}
           Cell(i, s) == IF Here(i, s) = {} THEN c[i][s]
                         ELSE LET l == CHOOSE l \in Here(i, s) : TRUE
                              IN  Pair(Running(links, start, l), l.delta)
<1>1. Written(c, some, links, start) = [i \in D |-> [s \in Sides |-> Cell(i, s)]]
  BY DEF Written
<1>2. ASSUME NEW i \in D, NEW s \in Sides PROVE Cell(i, s) \in Columns
  <2>1. CASE Here(i, s) = {}
    BY <2>1
  <2>2. CASE Here(i, s) # {}
    <3> DEFINE l == CHOOSE l \in Here(i, s) : TRUE
    <3>1. l \in LinkSet
      BY <2>2
    <3>2. Cell(i, s) = Pair(Running(links, start, l), l.delta)
      BY <2>2
    <3>. HIDE DEF l, Cell
    <3>3. l.delta \in Int
      BY <3>1, DeltaType
    <3>4. Running(links, start, l) \in Int
      BY RunningType
    <3>. QED BY <3>2, <3>3, <3>4, PairType
  <2>. QED BY <2>1, <2>2
<1>. HIDE DEF Cell
<1>. QED BY <1>1, <1>2

(* The columns of these links are theirs already, or nothing stops a walk   *)
(* at them.                                                                 *)
RightIn(c, L, l) == c[l.id][l.side] = Pair(Running(L, Opening, l), l.delta)
GoesOn(c, L, l, fill) ==
    IF c[l.id][l.side].before = Null THEN fill ELSE c[l.id][l.side].before # Running(L, Opening, l)

LEMMA BeforeOrder ==
    ASSUME NEW L, IsChain(L), NEW k \in L, NEW l \in L
    PROVE  /\ ~(Before(k, l) /\ Before(l, k)) /\ ~Before(k, k)
           /\ k # l => Before(k, l) \/ Before(l, k)
BY LinkFields DEF IsChain, Before

LEMMA WalkMakesExact ==
    ASSUME NEW t, NEW a, NEW L, L = Links(t, a), IsChain(L),
           NEW D, NEW c \in [D -> [Sides -> Columns]], \A l \in L : l.id \in D,
           NEW place, place.date \in Int, place.id \in Int,
           NEW start, start = Opening + SumOf(LinkDelta, L \ Later(L, place)), NEW fill,
           \A l \in L \ Later(L, place) : RightIn(c, L, l),
           \A l \in Later(L, place) :
              \/ RightIn(c, L, l)
              \/ \A k \in Later(L, place) : k = l \/ Before(k, l) => GoesOn(c, L, k, fill)
    PROVE  \A l \in L : RightIn(Walk(t, c, a, place, start, fill), L, l)
<1> DEFINE P == Later(L, place)
           stop == {k \in P : IF c[k.id][k.side].before = Null THEN ~fill
                              ELSE c[k.id][k.side].before = Running(P, start, k)}
           some == {l \in P : \A k \in stop : Before(l, k)}
           W == Written(c, some, P, start)
<1>1. Walk(t, c, a, place, start, fill) = W
  BY DEF Walk, Later
<1>2. L \in SUBSET LinkSet /\ P \in SUBSET L /\ some \in SUBSET P
  BY DEF IsChain, Later
<1>3. \A k \in P : Running(P, start, k) = Running(L, Opening, k)
  BY RunningFromPlace
<1>4. \A l \in L : l.id \in D /\ l.side \in Sides
  BY <1>2, LinkFields
<1>5. \A k, l \in some : k.id = l.id => k = l
  BY <1>2 DEF IsChain
<1>6. DOMAIN c = D
  OBVIOUS
<1>7. ASSUME NEW l \in some PROVE RightIn(W, L, l)
  <2>0. l \in L /\ l \in P
    BY <1>2
  <2>1. W[l.id][l.side] = Pair(Running(P, start, l), l.delta)
    <3>. HIDE DEF some, P
    <3>. QED BY <2>0, <1>4, <1>5, <1>6, WrittenAt
  <2>. HIDE DEF W, some, P
  <2>. QED BY <2>0, <1>3, <2>1 DEF RightIn
<1>8. ASSUME NEW l \in L, l \notin some PROVE W[l.id][l.side] = c[l.id][l.side]
  <2>1. \A k \in some : k.id # l.id \/ k.side # l.side
    BY <1>2, <1>8 DEF IsChain
  <2>. HIDE DEF some, P
  <2>. QED BY <1>4, <1>6, <2>1, WrittenElse
<1>9. ASSUME NEW l \in P, l \notin some PROVE RightIn(c, L, l)
  <2>1. PICK k \in stop : ~Before(l, k)
    BY <1>9
  <2>2. k \in P /\ (k = l \/ Before(k, l))
    BY <1>2, <2>1, BeforeOrder
  <2>3. ~GoesOn(c, L, k, fill)
    BY <1>3, <2>1 DEF GoesOn
  <2>. HIDE DEF stop, some
  <2>. QED BY <2>2, <2>3
<1>. HIDE DEF W, some, stop
<1>10. ASSUME NEW l \in L PROVE RightIn(W, L, l)
  <2>1. CASE l \in some
    BY <1>7, <2>1
  <2>2. CASE l \notin some
    <3>1. RightIn(c, L, l)
      BY <1>9, <2>2
    <3>. QED BY <1>8, <2>2, <3>1 DEF RightIn
  <2>. QED BY <2>1, <2>2
<1>. QED BY <1>1, <1>10

(* A walk of one account leaves the links of the others as they were.       *)
OffChain(L, i, s) == \A l \in L : l.id # i \/ l.side # s

LEMMA WalkFrame ==
    ASSUME NEW t, NEW a, IsChain(Links(t, a)), NEW c, NEW place, NEW start, NEW fill,
           NEW i \in DOMAIN c, NEW s \in Sides, OffChain(Links(t, a), i, s)
    PROVE  Walk(t, c, a, place, start, fill)[i][s] = c[i][s]
<1> DEFINE P == Later(Links(t, a), place)
           stop == {k \in P : IF c[k.id][k.side].before = Null THEN ~fill
                              ELSE c[k.id][k.side].before = Running(P, start, k)}
           some == {l \in P : \A k \in stop : Before(l, k)}
<1>1. Walk(t, c, a, place, start, fill) = Written(c, some, P, start)
  BY DEF Walk, Later
<1>2. some \in SUBSET Links(t, a)
  BY DEF Later
<1>3. \A l \in some : l.id # i \/ l.side # s
  BY <1>2 DEF OffChain
<1>. HIDE DEF some, P
<1>4. Written(c, some, P, start)[i][s] = c[i][s]
  <2>. HIDE DEF stop
  <2>. QED BY <1>3, WrittenElse
<1>. QED BY <1>1, <1>4

LEMMA WalkType ==
    ASSUME NEW t, NEW a, IsChain(Links(t, a)), NEW D, NEW c \in [D -> [Sides -> Columns]],
           NEW place, NEW start \in Int, NEW fill
    PROVE  Walk(t, c, a, place, start, fill) \in [D -> [Sides -> Columns]]
<1> DEFINE P == Later(Links(t, a), place)
           stop == {k \in P : IF c[k.id][k.side].before = Null THEN ~fill
                              ELSE c[k.id][k.side].before = Running(P, start, k)}
           some == {l \in P : \A k \in stop : Before(l, k)}
<1>1. Walk(t, c, a, place, start, fill) = Written(c, some, P, start)
  BY DEF Walk, Later
<1>2. some \in SUBSET LinkSet /\ P \in SUBSET LinkSet /\ P \in SUBSET Links(t, a)
  BY DEF Later, IsChain
<1>3. IsFiniteSet(P)
  BY <1>2, FS_Subset DEF IsChain
<1>. HIDE DEF some, P
<1>4. Written(c, some, P, start) \in [D -> [Sides -> Columns]]
  BY <1>2, <1>3, WrittenType
<1>. QED BY <1>1, <1>4

(* The links of an account are a chain. *)
ChainTable(t) ==
    /\ IsFiniteSet(DOMAIN t) /\ DOMAIN t \subseteq Nat
    /\ t \in [DOMAIN t -> ChainRow]

LEMMA ChainRowFields ==
    ASSUME NEW r \in ChainRow
    PROVE  /\ r.date \in Nat /\ r.amount \in Nat \ {0}
           /\ r.date \in ChainDates /\ r.amount \in ChainAmounts
           /\ r.from \in ChainAccounts /\ r.to \in ChainAccounts \cup {Null} /\ r.to # r.from
BY ChainAssumption DEF ChainRow

LEMMA LinkIs ==
    ASSUME NEW t, ChainTable(t), NEW i \in DOMAIN t, NEW s \in Sides
    PROVE  /\ Link(t, i, s) \in LinkSet
           /\ Link(t, i, s).date = t[i].date /\ Link(t, i, s).id = i /\ Link(t, i, s).side = s
           /\ Link(t, i, s).delta = IF s = "inbound" THEN t[i].amount ELSE -t[i].amount
           /\ Link(t, i, s).delta # 0
<1>1. t[i] \in ChainRow /\ i \in Int
  BY DEF ChainTable
<1>2. t[i].date \in Int /\ t[i].amount \in Int /\ t[i].amount # 0
  BY <1>1, ChainRowFields
<1>. QED BY <1>1, <1>2 DEF Link, LinkSet

LEMMA LinksAre ==
    ASSUME NEW t, ChainTable(t), NEW a \in ChainAccounts
    PROVE  /\ IsChain(Links(t, a))
           /\ \A l \in Links(t, a) :
                /\ l.id \in DOMAIN t /\ l.side \in Sides /\ l = Link(t, l.id, l.side) /\ l.delta # 0
                /\ IF l.side = "source" THEN t[l.id].from = a ELSE l.side = "inbound" /\ t[l.id].to = a
           /\ \A i \in DOMAIN t :
                /\ t[i].from = a => Link(t, i, "source") \in Links(t, a)
                /\ t[i].to = a => Link(t, i, "inbound") \in Links(t, a)
<1> DEFINE Out == {i \in DOMAIN t : t[i].from = a}
           In == {i \in DOMAIN t : t[i].to = a}
           OutLinks == {Link(t, i, "source") : i \in Out}
           InLinks == {Link(t, i, "inbound") : i \in In}
           L == Links(t, a)
<1>1. L = OutLinks \cup InLinks
  BY DEF Links
<1>2. "source" \in Sides /\ "inbound" \in Sides /\ "source" # "inbound"
  BY DEF Sides
<1>3. IsFiniteSet(OutLinks)
  <2>1. IsFiniteSet(Out)
    BY FS_Subset DEF ChainTable
  <2> DEFINE h == [i \in Out |-> Link(t, i, "source")]
  <2>2. \A i \in Out : h[i] = Link(t, i, "source")
    OBVIOUS
  <2>. HIDE DEF Out, h
  <2>3. IsFiniteSet({h[i] : i \in Out})
    BY <2>1, ImageIsFinite
  <2>4. {h[i] : i \in Out} = OutLinks
    BY <2>2
  <2>. QED BY <2>3, <2>4
<1>4. IsFiniteSet(InLinks)
  <2>1. IsFiniteSet(In)
    BY FS_Subset DEF ChainTable
  <2> DEFINE h == [i \in In |-> Link(t, i, "inbound")]
  <2>2. \A i \in In : h[i] = Link(t, i, "inbound")
    OBVIOUS
  <2>. HIDE DEF In, h
  <2>3. IsFiniteSet({h[i] : i \in In})
    BY <2>1, ImageIsFinite
  <2>4. {h[i] : i \in In} = InLinks
    BY <2>2
  <2>. QED BY <2>3, <2>4
<1>5. IsFiniteSet(L)
  <2>. HIDE DEF OutLinks, InLinks
  <2>. QED BY <1>1, <1>3, <1>4, FS_Union
<1>6. ASSUME NEW l \in L
      PROVE  /\ l \in LinkSet /\ l.id \in DOMAIN t /\ l.side \in Sides
             /\ l = Link(t, l.id, l.side) /\ l.delta # 0
             /\ IF l.side = "source" THEN t[l.id].from = a ELSE l.side = "inbound" /\ t[l.id].to = a
  <2>1. CASE l \in OutLinks
    <3>1. PICK i \in Out : l = Link(t, i, "source")
      BY <2>1
    <3>. QED BY <1>2, <3>1, LinkIs
  <2>2. CASE l \in InLinks
    <3>1. PICK i \in In : l = Link(t, i, "inbound")
      BY <2>2
    <3>. QED BY <1>2, <3>1, LinkIs
  <2>. QED BY <1>1, <2>1, <2>2
<1>7. \A k, l \in L : k.id = l.id => k = l
  <2> SUFFICES ASSUME NEW k \in L, NEW l \in L, k.id = l.id PROVE k = l
    OBVIOUS
  <2>1. t[l.id].from # t[l.id].to
    BY <1>6, ChainRowFields DEF ChainTable
  <2>2. k.side = l.side
    BY <1>6, <2>1 DEF Sides
  <2>. HIDE DEF L
  <2>. QED BY <1>6, <2>2
<1>8. L \subseteq LinkSet
  BY <1>6
<1>9. \A i \in DOMAIN t :
                /\ t[i].from = a => Link(t, i, "source") \in L
                /\ t[i].to = a => Link(t, i, "inbound") \in L
  BY <1>1
<1>. HIDE DEF L
<1>10. IsChain(L)
  BY <1>5, <1>7, <1>8 DEF IsChain
<1>. QED BY <1>6, <1>9, <1>10 DEF L

(* The latest of the links of a chain. *)
LEMMA LatestIs ==
    ASSUME NEW L, IsChain(L), NEW S \in SUBSET L, S # {}
    PROVE  /\ Latest(S) \in S
           /\ \A l \in S : l = Latest(S) \/ Before(l, Latest(S))
<1> DEFINE Last(U, k) == k \in U /\ \A l \in U \ {k} : Before(l, k)
           Good == {U \in SUBSET S : U = {} \/ \E k \in U : Last(U, k)}
<1>1. IsFiniteSet(S)
  BY FS_Subset DEF IsChain
<1>2. {} \in Good
  OBVIOUS
<1>3. ASSUME NEW U \in SUBSET S, NEW x \in U, U \ {x} \in Good PROVE U \in Good
  <2>1. CASE U \ {x} = {}
    <3>1. Last(U, x)
      BY <2>1
    <3>. QED BY <3>1
  <2>2. CASE U \ {x} # {}
    <3>1. PICK k \in U \ {x} : Last(U \ {x}, k)
      BY <1>3, <2>2
    <3>2. \A l \in L : l.date \in Int /\ l.id \in Int
      BY LinkFields DEF IsChain
    <3>3. x \in L /\ k \in L /\ x # k
      OBVIOUS
    <3>4. CASE Before(x, k)
      <4>1. Last(U, k)
        BY <3>1, <3>4
      <4>. QED BY <4>1
    <3>5. CASE Before(k, x)
      <4>1. \A l \in U \ {x} : Before(l, x)
        BY <3>1, <3>2, <3>3, <3>5 DEF Before
      <4>2. Last(U, x)
        BY <4>1
      <4>. QED BY <4>2
    <3>6. Before(x, k) \/ Before(k, x)
      BY <3>3, BeforeOrder
    <3>. QED BY <3>4, <3>5, <3>6
  <2>. QED BY <2>1, <2>2
<1>4. S \in Good
  <2>1. \A U \in SUBSET S : \A x \in U : U \ {x} \in Good => U \in Good
    BY <1>3
  <2>. HIDE DEF Good
  <2>. QED BY <1>1, <1>2, <2>1, SubsetInduction
<1>5. \E k \in S : \A l \in S \ {k} : Before(l, k)
  BY <1>4
<1>6. Latest(S) \in S /\ \A l \in S \ {Latest(S)} : Before(l, Latest(S))
  BY <1>5 DEF Latest
<1>. QED BY <1>6

(* What comes before a place is the latest link before it, and what comes   *)
(* before that.                                                             *)
LEMMA EarlierByLatest ==
    ASSUME NEW L, IsChain(L), NEW place, place.date \in Int, place.id \in Int,
           Earlier(L, place) # {}, NEW m, m = Latest(Earlier(L, place))
    PROVE  /\ m \in L /\ Before(m, place)
           /\ \A l \in Earlier(L, place) : l = m \/ Before(l, m)
           /\ Earlier(L, place) = Earlier(L, m) \cup {m} /\ m \notin Earlier(L, m)
           /\ SumOf(LinkDelta, Earlier(L, place)) = SumOf(LinkDelta, Earlier(L, m)) + m.delta
<1>1. m \in Earlier(L, place) /\ \A l \in Earlier(L, place) : l = m \/ Before(l, m)
  <2>1. Earlier(L, place) \in SUBSET L
    BY DEF Earlier
  <2>. QED BY <2>1, LatestIs
<1>2. \A l \in L : l \in LinkSet /\ l.date \in Int /\ l.id \in Int
  BY LinkFields DEF IsChain
<1>3. m \in L /\ Before(m, place)
  BY <1>1 DEF Earlier
<1>4. m.date \in Int /\ m.id \in Int /\ m \in LinkSet
  BY <1>2, <1>3
<1>5. \A l \in L : Before(l, m) => Before(l, place)
  BY <1>2, <1>3, <1>4 DEF Before
<1>6. Earlier(L, place) = Earlier(L, m) \cup {m}
  BY <1>1, <1>5 DEF Earlier
<1>7. m \notin Earlier(L, m)
  BY <1>4 DEF Earlier, Before
<1>8. Earlier(L, m) \in SUBSET L /\ IsFiniteSet(Earlier(L, m))
  <2>1. Earlier(L, m) \in SUBSET L
    BY DEF Earlier
  <2>. QED BY <2>1, FS_Subset DEF IsChain
<1>9. SumOf(LinkDelta, Earlier(L, m) \cup {m}) = LinkDelta[m] + SumOf(LinkDelta, Earlier(L, m))
  <2>1. \A x \in Earlier(L, m) \cup {m} : LinkDelta[x] \in Int
    BY <1>2, <1>3, <1>8, DeltaType
  <2>. QED BY <1>7, <1>8, <2>1, SumAdd
<1>10. SumOf(LinkDelta, Earlier(L, m)) \in Int /\ LinkDelta[m] = m.delta /\ m.delta \in Int
  BY <1>2, <1>4, <1>8, LinksSumType, DeltaType
<1>11. SumOf(LinkDelta, Earlier(L, place)) = SumOf(LinkDelta, Earlier(L, m) \cup {m})
  BY <1>6
<1>. QED BY <1>1, <1>3, <1>6, <1>7, <1>9, <1>10, <1>11

(* Where the earlier links are right, so is the balance a hook starts from. *)
LEMMA PreviousIs ==
    ASSUME NEW t, NEW a, NEW L, L = Links(t, a), IsChain(L), NEW c,
           NEW place, place.date \in Int, place.id \in Int,
           \A k \in Earlier(L, place) : k.id # place.id /\ RightIn(c, L, k)
    PROVE  /\ Earlier(L, place) = {} => Previous(t, c, a, place) = Null
           /\ Earlier(L, place) # {} =>
                /\ Previous(t, c, a, place) = Opening + SumOf(LinkDelta, Earlier(L, place))
                /\ Previous(t, c, a, place) # Null
           /\ DestinationBefore(t, c, place, a) = Opening + SumOf(LinkDelta, Earlier(L, place))
           /\ Opening + SumOf(LinkDelta, Earlier(L, place)) \in Int
<1> DEFINE E == Earlier(L, place)
<1>1. {k \in L : Before(k, place) /\ k.id # place.id} = E
  BY DEF Earlier
<1>2. Previous(t, c, a, place) = IF E = {} THEN Null ELSE After(c, Latest(E))
  BY <1>1 DEF Previous
<1>3. Opening \in Int
  BY ChainAssumption
<1>4. E \in SUBSET L /\ L \in SUBSET LinkSet /\ IsFiniteSet(L)
  BY DEF Earlier, IsChain
<1>5. SumOf(LinkDelta, E) \in Int
  BY <1>4, FS_Subset, LinksSumType
<1>6. CASE E = {}
  <2>1. SumOf(LinkDelta, E) = 0
    BY <1>6, SumEmpty
  <2>. QED BY <1>2, <1>3, <1>6, <2>1 DEF DestinationBefore
<1>7. CASE E # {}
  <2> DEFINE m == Latest(E)
  <2>1. m \in E /\ m \in L /\ m \in LinkSet
    BY <1>4, <1>7, LatestIs
  <2>2. SumOf(LinkDelta, E) = SumOf(LinkDelta, Earlier(L, m)) + m.delta
    BY <1>7, EarlierByLatest
  <2>3. After(c, m) = Running(L, Opening, m) + m.delta
    <3>1. RightIn(c, L, m)
      BY <2>1
    <3>. HIDE DEF m
    <3>. QED BY <3>1 DEF RightIn, Pair, After
  <2>4. Running(L, Opening, m) = Opening + SumOf(LinkDelta, Earlier(L, m))
    BY <1>4, RunningIsSum
  <2>5. Earlier(L, m) \in SUBSET L
    BY DEF Earlier
  <2>6. SumOf(LinkDelta, Earlier(L, m)) \in Int /\ m.delta \in Int
    BY <1>4, <2>1, <2>5, FS_Subset, LinksSumType, DeltaType
  <2>. HIDE DEF m, E
  <2>7. After(c, m) = Opening + SumOf(LinkDelta, E)
    BY <1>3, <2>2, <2>3, <2>4, <2>6
  <2>8. Previous(t, c, a, place) = Opening + SumOf(LinkDelta, E) /\ Opening + SumOf(LinkDelta, E) # Null
    BY <1>2, <1>3, <1>5, <1>7, <2>7, NullIsNoInt DEF m
  <2>. QED BY <1>3, <1>5, <1>7, <2>8 DEF DestinationBefore, E
<1>. QED BY <1>6, <1>7

(* A link n takes its place among links K that were right in a chain where  *)
(* a link of the same row, that moved od, sat at o.                         *)
Gives(o, od, k) == IF Before(o, k) THEN od ELSE 0
WasRight(c, K, o, od, k) == c[k.id][k.side] = Pair(Running(K, Opening, k) + Gives(o, od, k), k.delta)

LEMMA RunningWith ==
    ASSUME NEW K, NEW n, n \notin K, IsChain(K \cup {n}), NEW k \in K
    PROVE  /\ Running(K \cup {n}, Opening, k) = Running(K, Opening, k) + Gives(n, n.delta, k)
           /\ Running(K, Opening, k) \in Int /\ Gives(n, n.delta, k) \in Int
<1> DEFINE E == Earlier(K, k)
<1>1. K \in SUBSET LinkSet /\ n \in LinkSet /\ IsFiniteSet(K) /\ K \cup {n} \in SUBSET LinkSet
  <2>1. IsFiniteSet(K)
    BY FS_Subset DEF IsChain
  <2>. QED BY <2>1 DEF IsChain
<1>2. E \in SUBSET LinkSet /\ E \in SUBSET K /\ n \notin E
  BY <1>1 DEF Earlier
<1>3. IsFiniteSet(E)
  BY <1>1, <1>2, FS_Subset
<1>4. SumOf(LinkDelta, E) \in Int /\ n.delta \in Int /\ Opening \in Int /\ LinkDelta[n] = n.delta
  BY <1>1, <1>2, <1>3, LinksSumType, DeltaType, ChainAssumption
<1>5. Running(K, Opening, k) = Opening + SumOf(LinkDelta, E)
  BY <1>1, RunningIsSum
<1>6. Running(K \cup {n}, Opening, k) = Opening + SumOf(LinkDelta, Earlier(K \cup {n}, k))
  BY <1>1, RunningIsSum
<1>7. CASE Before(n, k)
  <2>1. Earlier(K \cup {n}, k) = E \cup {n}
    BY <1>7 DEF Earlier
  <2>2. \A x \in E \cup {n} : LinkDelta[x] \in Int
    BY <1>1, <1>2, DeltaType
  <2>. HIDE DEF E
  <2>3. SumOf(LinkDelta, E \cup {n}) = LinkDelta[n] + SumOf(LinkDelta, E)
    BY <1>2, <1>3, <2>2, SumAdd
  <2>4. SumOf(LinkDelta, Earlier(K \cup {n}, k)) = SumOf(LinkDelta, E \cup {n})
    BY <2>1
  <2>. QED BY <1>4, <1>5, <1>6, <1>7, <2>3, <2>4 DEF Gives
<1>8. CASE ~Before(n, k)
  <2>1. Earlier(K \cup {n}, k) = E
    BY <1>8 DEF Earlier
  <2>. HIDE DEF E
  <2>. QED BY <1>4, <1>5, <1>6, <1>8, <2>1 DEF Gives
<1>. QED BY <1>7, <1>8

Uncrossed(K, o, n) == \A k \in K : ~(Before(o, k) /\ Before(k, n))
WereRight(c, K, o, od) == \A k \in K : WasRight(c, K, o, od, k)
Mends(c, L, K, n) ==
    /\ \A k \in K : ~Before(n, k) => RightIn(c, L, k)
    /\ \A k \in K : Before(n, k) =>
         \/ RightIn(c, L, k)
         \/ \A m \in K : Before(n, m) /\ (m = k \/ Before(m, k)) =>
              \A fill \in BOOLEAN : GoesOn(c, L, m, fill)

LEMMA PlaceShift ==
    ASSUME NEW K, NEW n, n \notin K, IsChain(K \cup {n}), n.delta # 0,
           NEW o, NEW od \in Int, o.date \in Int, o.id = n.id,
           NEW c, WereRight(c, K, o, od), Uncrossed(K, o, n),
           \/ od = n.delta
           \/ od # n.delta /\ o.date = n.date
    PROVE  Mends(c, K \cup {n}, K, n)
<1> DEFINE L == K \cup {n}
<1>1. \A k \in K : /\ k \in LinkSet /\ k.date \in Int /\ k.id \in Int /\ k.id # n.id
                   /\ Before(n, k) \/ Before(k, n)
  <2>1. \A k \in K : k \in LinkSet /\ k.id # n.id
    BY DEF IsChain
  <2>2. \A k \in K : Before(n, k) \/ Before(k, n)
    BY BeforeOrder
  <2>. QED BY <2>1, <2>2, LinkFields
<1>2. n.date \in Int /\ n.id \in Int /\ n.delta \in Int /\ o.id \in Int
  <2>1. n \in LinkSet
    BY DEF IsChain
  <2>. QED BY <2>1, LinkFields, DeltaType
<1>3. ASSUME NEW k \in K
      PROVE  /\ Running(L, Opening, k) = Running(K, Opening, k) + Gives(n, n.delta, k)
             /\ Running(K, Opening, k) \in Int /\ Gives(n, n.delta, k) \in Int
             /\ Gives(o, od, k) \in Int
             /\ c[k.id][k.side].before = Running(K, Opening, k) + Gives(o, od, k)
             /\ Gives(n, n.delta, k) = Gives(o, od, k) => RightIn(c, L, k)
  <2>1. /\ Running(L, Opening, k) = Running(K, Opening, k) + Gives(n, n.delta, k)
        /\ Running(K, Opening, k) \in Int /\ Gives(n, n.delta, k) \in Int
    BY RunningWith
  <2>2. Gives(o, od, k) \in Int
    BY DEF Gives
  <2>3. WasRight(c, K, o, od, k)
    BY DEF WereRight
  <2>. HIDE DEF L
  <2>. QED BY <2>1, <2>2, <2>3 DEF WasRight, Pair, RightIn
<1>4. ASSUME NEW m \in K, Gives(n, n.delta, m) # Gives(o, od, m), NEW fill PROVE GoesOn(c, L, m, fill)
  <2>. HIDE DEF L
  <2>0. /\ Running(L, Opening, m) = Running(K, Opening, m) + Gives(n, n.delta, m)
        /\ Running(K, Opening, m) \in Int /\ Gives(n, n.delta, m) \in Int
        /\ Gives(o, od, m) \in Int
        /\ c[m.id][m.side].before = Running(K, Opening, m) + Gives(o, od, m)
    BY <1>3
  <2>1. c[m.id][m.side].before # Running(L, Opening, m) /\ c[m.id][m.side].before \in Int
    BY <1>4, <2>0
  <2>. QED BY <2>1, NullIsNoInt DEF GoesOn
<1>. HIDE DEF L
<1>5. ASSUME NEW k \in K, ~Before(n, k) PROVE RightIn(c, L, k)
  <2>1. ~Before(o, k)
    BY <1>1, <1>5 DEF Uncrossed
  <2>. QED BY <1>3, <1>5, <2>1 DEF Gives
<1>6. ASSUME NEW k \in K, Before(n, k), ~RightIn(c, L, k),
             NEW m \in K, Before(n, m), m = k \/ Before(m, k)
      PROVE  Gives(n, n.delta, m) # Gives(o, od, m)
  <2>1. Gives(n, n.delta, k) # Gives(o, od, k)
    BY <1>3, <1>6
  <2>2. CASE od = n.delta
    <3>1. ~Before(o, k)
      BY <1>6, <2>1, <2>2 DEF Gives
    <3>2. ~Before(o, m)
      BY <1>1, <1>2, <1>6, <3>1 DEF Before
    <3>. QED BY <1>2, <1>6, <3>2 DEF Gives
  <2>3. CASE od # n.delta /\ o.date = n.date
    <3>1. Before(o, m)
      BY <1>6, <2>3 DEF Before
    <3>. QED BY <1>6, <2>3, <3>1 DEF Gives
  <2>. QED BY <2>2, <2>3
<1>7. ASSUME NEW k \in K, Before(n, k), ~RightIn(c, L, k)
      PROVE  \A m \in K : Before(n, m) /\ (m = k \/ Before(m, k)) =>
                \A fill \in BOOLEAN : GoesOn(c, L, m, fill)
  BY <1>4, <1>6, <1>7
<1>8. Mends(c, L, K, n)
  BY <1>5, <1>7 DEF Mends
<1>. QED BY <1>8 DEF L

(* The row's own columns are written, and the later links walked.           *)
LEMMA WriteIs ==
    ASSUME NEW D, NEW c \in [D -> [Sides -> Columns]], NEW i \in D, NEW s \in Sides,
           NEW before \in Int, NEW delta \in Int
    PROVE  /\ Write(c, i, s, before, delta) \in [D -> [Sides -> Columns]]
           /\ Write(c, i, s, before, delta)[i][s] = Pair(before, delta)
           /\ \A j \in D, u \in Sides : j # i \/ u # s => Write(c, i, s, before, delta)[j][u] = c[j][u]
<1>1. Pair(before, delta) \in Columns
  BY PairType
<1>. QED BY <1>1 DEF Write

LEMMA PlaceMakesExact ==
    ASSUME NEW t, NEW a, NEW L, L = Links(t, a), IsChain(L), NEW n \in L, n.delta # 0,
           NEW D, NEW c \in [D -> [Sides -> Columns]], \A l \in L : l.id \in D,
           NEW o, NEW od \in Int, o.date \in Int, o.id = n.id,
           WereRight(c, L \ {n}, o, od), Uncrossed(L \ {n}, o, n),
           \/ od = n.delta
           \/ od # n.delta /\ o.date = n.date,
           NEW before, before = Opening + SumOf(LinkDelta, Earlier(L, n))
    PROVE  LET w == Write(c, n.id, n.side, before, n.delta)
           IN  \A l \in L : RightIn(Walk(t, w, a, n, before + n.delta, FALSE), L, l)
<1> DEFINE K == L \ {n}
           w == Write(c, n.id, n.side, before, n.delta)
           P == Later(L, n)
<1>1. L = K \cup {n} /\ n \notin K /\ L \in SUBSET LinkSet /\ IsFiniteSet(L) /\ n \in LinkSet
  BY DEF IsChain
<1>2. n.date \in Int /\ n.id \in D /\ n.id \in Int /\ n.side \in Sides /\ n.delta \in Int
  BY <1>1, LinkFields, DeltaType
<1>3. IsChain(K \cup {n})
  BY <1>1
<1>4. Mends(c, L, K, n)
  <2>1. WereRight(c, K, o, od) /\ Uncrossed(K, o, n)
    OBVIOUS
  <2>. HIDE DEF K
  <2>2. Mends(c, K \cup {n}, K, n)
    BY <1>1, <1>3, <2>1, PlaceShift
  <2>3. K \cup {n} = L
    BY <1>1
  <2>. QED BY <2>2, <2>3
<1>5. Earlier(L, n) \in SUBSET L /\ IsFiniteSet(Earlier(L, n))
  <2>1. Earlier(L, n) \in SUBSET L
    BY DEF Earlier
  <2>. QED BY <1>1, <2>1, FS_Subset
<1>6. SumOf(LinkDelta, Earlier(L, n)) \in Int /\ Opening \in Int /\ before \in Int
  BY <1>1, <1>5, LinksSumType, ChainAssumption
<1>7. /\ w \in [D -> [Sides -> Columns]]
      /\ w[n.id][n.side] = Pair(before, n.delta)
      /\ \A j \in D, u \in Sides : j # n.id \/ u # n.side => w[j][u] = c[j][u]
  <2>. HIDE DEF w
  <2>. QED BY <1>2, <1>6, WriteIs DEF w
<1>8. \A k \in K : k.id \in D /\ k.side \in Sides /\ k.id # n.id
  BY <1>1, LinkFields DEF IsChain
<1>9. \A k \in K : w[k.id][k.side] = c[k.id][k.side]
  <2>. HIDE DEF w, K
  <2>. QED BY <1>7, <1>8
<1>10. before + n.delta = Opening + SumOf(LinkDelta, L \ P)
  <2>1. L \ P = Earlier(L, n) \cup {n} /\ n \notin Earlier(L, n)
    BY <1>1, BeforeOrder DEF Later, Earlier
  <2>2. \A x \in Earlier(L, n) \cup {n} : LinkDelta[x] \in Int
    BY <1>1, <1>5, DeltaType
  <2>3. SumOf(LinkDelta, Earlier(L, n) \cup {n}) = LinkDelta[n] + SumOf(LinkDelta, Earlier(L, n))
    BY <1>5, <2>1, <2>2, SumAdd
  <2>4. SumOf(LinkDelta, L \ P) = SumOf(LinkDelta, Earlier(L, n) \cup {n})
    BY <2>1
  <2>5. LinkDelta[n] = n.delta
    BY <1>1, DeltaType
  <2>. HIDE DEF P
  <2>. QED BY <1>2, <1>6, <2>3, <2>4, <2>5
<1>11. Running(L, Opening, n) = before
  BY <1>1, RunningIsSum
<1>12. P \in SUBSET K
  BY <1>1, BeforeOrder DEF Later
<1>13. \A l \in L \ P : RightIn(w, L, l)
  <2> SUFFICES ASSUME NEW l \in L \ P PROVE RightIn(w, L, l)
    OBVIOUS
  <2>1. CASE l = n
    <3>. HIDE DEF w
    <3>. QED BY <1>7, <1>11, <2>1 DEF RightIn
  <2>2. CASE l # n
    <3>1. l \in K /\ ~Before(n, l)
      BY <2>2 DEF Later
    <3>2. RightIn(c, L, l)
      <4>. HIDE DEF K
      <4>. QED BY <1>4, <3>1 DEF Mends
    <3>. HIDE DEF w, K, P
    <3>. QED BY <1>9, <3>1, <3>2 DEF RightIn
  <2>. QED BY <2>1, <2>2
<1>14. \A l \in P :
              \/ RightIn(w, L, l)
              \/ \A k \in P : k = l \/ Before(k, l) => GoesOn(w, L, k, FALSE)
  <2> SUFFICES ASSUME NEW l \in P, ~RightIn(w, L, l), NEW k \in P, k = l \/ Before(k, l)
               PROVE  GoesOn(w, L, k, FALSE)
    <3>. HIDE DEF w, P
    <3>. QED OBVIOUS
  <2>1. l \in K /\ k \in K /\ Before(n, l) /\ Before(n, k)
    BY <1>12 DEF Later
  <2>. HIDE DEF w, K, P
  <2>2. ~RightIn(c, L, l)
    BY <1>9, <2>1 DEF RightIn
  <2>3. GoesOn(c, L, k, FALSE)
    BY <1>4, <2>1, <2>2 DEF Mends
  <2>. QED BY <1>9, <2>1, <2>3 DEF GoesOn
<1>. HIDE DEF w, P, K
<1>15. \A l \in L : RightIn(Walk(t, w, a, n, before + n.delta, FALSE), L, l)
  BY <1>2, <1>7, <1>10, <1>13, <1>14, WalkMakesExact DEF P
<1>. QED BY <1>15 DEF w

(* The hook, account by account: what it must find of the chain that n      *)
(* takes its place in, and what it leaves of the columns of the others.     *)
Ready(c, L, n) ==
    \E date \in Int, od \in Int :
        LET o == [date |-> date, id |-> n.id]
        IN  /\ WereRight(c, L \ {n}, o, od)
            /\ Uncrossed(L \ {n}, o, n)
            /\ od = n.delta \/ (od # n.delta /\ date = n.date)

(* From columns c to columns d nothing changes but at these links.          *)
OnlyAt(c, d, D, L) ==
    /\ d \in [D -> [Sides -> Columns]]
    /\ \A i \in D, s \in Sides : OffChain(L, i, s) => d[i][s] = c[i][s]

LEMMA ColumnsAre ==
    ASSUME NEW x \in Columns
    PROVE  /\ x.before \in Int \cup {Null} /\ x.after \in Int \cup {Null}
           /\ x.before = Null <=> x.after = Null
BY NullIsNoInt DEF Columns, NoColumns

LEMMA ExactIs ==
    ASSUME NEW t, NEW c, NEW a
    PROVE  Exact(t, c, a) <=> \A l \in Links(t, a) : RightIn(c, Links(t, a), l)
BY DEF Exact, Right, RightIn

LEMMA OtherLinks ==
    ASSUME NEW t, ChainTable(t), NEW a \in ChainAccounts, NEW b \in ChainAccounts, a # b,
           NEW l \in Links(t, b)
    PROVE  OffChain(Links(t, a), l.id, l.side)
<1> SUFFICES ASSUME NEW k \in Links(t, a), k.id = l.id, k.side = l.side PROVE FALSE
  BY DEF OffChain
<1>1. IF l.side = "source" THEN t[l.id].from = b ELSE l.side = "inbound" /\ t[l.id].to = b
  BY LinksAre
<1>2. IF k.side = "source" THEN t[k.id].from = a ELSE k.side = "inbound" /\ t[k.id].to = a
  BY LinksAre
<1>. QED BY <1>1, <1>2

LEMMA ReadyMends ==
    ASSUME NEW c, NEW L, IsChain(L), NEW n \in L, n.delta # 0, Ready(c, L, n)
    PROVE  Mends(c, L, L \ {n}, n)
<1> DEFINE K == L \ {n}
           o(date) == [date |-> date, id |-> n.id]
<1>1. PICK date \in Int, od \in Int :
        /\ WereRight(c, K, o(date), od) /\ Uncrossed(K, o(date), n)
        /\ od = n.delta \/ (od # n.delta /\ date = n.date)
  BY DEF Ready
<1>2. o(date).date = date /\ o(date).id = n.id
  OBVIOUS
<1>3. n \notin K /\ K \cup {n} = L
  OBVIOUS
<1>4. IsChain(K \cup {n})
  BY <1>3
<1>. HIDE DEF K, o
<1>5. Mends(c, K \cup {n}, K, n)
  BY <1>1, <1>2, <1>3, <1>4, PlaceShift
<1>. QED BY <1>3, <1>5 DEF K

LEMMA ReadyExact ==
    ASSUME NEW t, NEW a, NEW L, L = Links(t, a), IsChain(L), NEW n \in L, n.delta # 0,
           NEW D, NEW c \in [D -> [Sides -> Columns]], \A l \in L : l.id \in D, Ready(c, L, n),
           NEW before, before = Opening + SumOf(LinkDelta, Earlier(L, n))
    PROVE  \A l \in L : RightIn(Walk(t, Write(c, n.id, n.side, before, n.delta), a, n, before + n.delta, FALSE), L, l)
<1> DEFINE K == L \ {n}
           o(date) == [date |-> date, id |-> n.id]
<1>1. PICK date \in Int, od \in Int :
        /\ WereRight(c, K, o(date), od) /\ Uncrossed(K, o(date), n)
        /\ od = n.delta \/ (od # n.delta /\ date = n.date)
  BY DEF Ready
<1>2. o(date).date = date /\ o(date).id = n.id
  OBVIOUS
<1>. HIDE DEF o
<1>. QED BY <1>1, <1>2, PlaceMakesExact

(* A ready chain stays ready when columns of the row itself, or of other    *)
(* chains, change.                                                          *)
LEMMA ReadyFrame ==
    ASSUME NEW L, IsChain(L), NEW n \in L, NEW c, Ready(c, L, n), NEW d,
           \A k \in L \ {n} : d[k.id][k.side] = c[k.id][k.side]
    PROVE  Ready(d, L, n)
<1> DEFINE K == L \ {n}
           o(date) == [date |-> date, id |-> n.id]
<1>1. PICK date \in Int, od \in Int :
        /\ WereRight(c, K, o(date), od) /\ Uncrossed(K, o(date), n)
        /\ od = n.delta \/ (od # n.delta /\ date = n.date)
  BY DEF Ready
<1>2. WereRight(d, K, o(date), od)
  <2>1. \A k \in K : d[k.id][k.side] = c[k.id][k.side]
    OBVIOUS
  <2>. HIDE DEF K, o
  <2>. QED BY <1>1, <2>1 DEF WereRight, WasRight
<1>. QED BY <1>1, <1>2 DEF Ready

(* What the hook finds before the row, when its chain is ready for it.      *)
LEMMA ReadyPrevious ==
    ASSUME NEW t, NEW a, NEW L, L = Links(t, a), IsChain(L), NEW n \in L, n.delta # 0,
           NEW c, Ready(c, L, n)
    PROVE  /\ Earlier(L, n) = {} => Previous(t, c, a, n) = Null
           /\ Earlier(L, n) # {} =>
                /\ Previous(t, c, a, n) = Opening + SumOf(LinkDelta, Earlier(L, n))
                /\ Previous(t, c, a, n) # Null
           /\ DestinationBefore(t, c, n, a) = Opening + SumOf(LinkDelta, Earlier(L, n))
           /\ Opening + SumOf(LinkDelta, Earlier(L, n)) \in Int
<1>1. Mends(c, L, L \ {n}, n)
  BY ReadyMends
<1>2. n.date \in Int /\ n.id \in Int
  BY LinkFields DEF IsChain
<1>3. \A k \in Earlier(L, n) : k.id # n.id /\ RightIn(c, L, k)
  <2> SUFFICES ASSUME NEW k \in Earlier(L, n) PROVE k.id # n.id /\ RightIn(c, L, k)
    OBVIOUS
  <2>1. k \in L /\ Before(k, n)
    BY DEF Earlier
  <2>2. k # n /\ ~Before(n, k)
    BY <2>1, BeforeOrder
  <2>3. k.id # n.id
    BY <2>1, <2>2 DEF IsChain
  <2>. QED BY <1>1, <2>1, <2>2, <2>3 DEF Mends
<1>. QED BY <1>2, <1>3, PreviousIs

LEMMA HealIs ==
    ASSUME NEW t, ChainTable(t), NEW a \in ChainAccounts, NEW place,
           NEW c \in [DOMAIN t -> [Sides -> Columns]]
    PROVE  OnlyAt(c, Heal(t, c, a, place), DOMAIN t, Links(t, a))
<1> DEFINE L == Links(t, a)
           anchors == {k \in L : Before(k, place) /\ k.id # place.id /\ After(c, k) # Null}
           m == Latest(anchors)
<1>1. IsChain(L) /\ \A l \in L : l.id \in DOMAIN t /\ l.side \in Sides
  BY LinksAre
<1>2. \E p, start, fill : start \in Int /\ Heal(t, c, a, place) = Walk(t, c, a, p, start, fill)
  <2>1. CASE anchors = {}
    <3>1. Heal(t, c, a, place) = Walk(t, c, a, Start, Opening, TRUE)
      BY <2>1 DEF Heal
    <3>. QED BY <3>1, ChainAssumption
  <2>2. CASE anchors # {}
    <3>1. Heal(t, c, a, place) = Walk(t, c, a, m, After(c, m), TRUE)
      BY <2>2 DEF Heal
    <3>2. m \in anchors
      <4>1. anchors \in SUBSET L
        OBVIOUS
      <4>. HIDE DEF anchors, L
      <4>. QED BY <1>1, <2>2, <4>1, LatestIs
    <3>3. m.id \in DOMAIN t /\ m.side \in Sides /\ After(c, m) # Null
      BY <1>1, <3>2
    <3>. HIDE DEF m
    <3>4. c[m.id][m.side] \in Columns
      BY <3>3
    <3>5. After(c, m) \in Int
      BY <3>3, <3>4, ColumnsAre DEF After
    <3>. QED BY <3>1, <3>5
  <2>. QED BY <2>1, <2>2
<1>3. PICK p, start, fill : start \in Int /\ Heal(t, c, a, place) = Walk(t, c, a, p, start, fill)
  BY <1>2
<1>4. Walk(t, c, a, p, start, fill) \in [DOMAIN t -> [Sides -> Columns]]
  BY <1>1, <1>3, WalkType
<1>5. ASSUME NEW i \in DOMAIN t, NEW s \in Sides, OffChain(L, i, s)
      PROVE  Walk(t, c, a, p, start, fill)[i][s] = c[i][s]
  <2>1. i \in DOMAIN c /\ OffChain(Links(t, a), i, s) /\ IsChain(Links(t, a))
    BY <1>1, <1>5
  <2>. QED BY <2>1, WalkFrame
<1>. QED BY <1>3, <1>4, <1>5 DEF OnlyAt

LEMMA WalkedWrite ==
    ASSUME NEW t, ChainTable(t), NEW a \in ChainAccounts, NEW c \in [DOMAIN t -> [Sides -> Columns]],
           NEW n \in Links(t, a), NEW before \in Int, NEW place, NEW start \in Int, NEW fill
    PROVE  OnlyAt(c, Walk(t, Write(c, n.id, n.side, before, n.delta), a, place, start, fill),
                  DOMAIN t, Links(t, a))
<1> DEFINE w == Write(c, n.id, n.side, before, n.delta)
<1>1. IsChain(Links(t, a)) /\ n.id \in DOMAIN t /\ n.side \in Sides
  BY LinksAre
<1>2. n.delta \in Int
  BY <1>1, DeltaType DEF IsChain
<1>3. /\ w \in [DOMAIN t -> [Sides -> Columns]]
      /\ \A j \in DOMAIN t, u \in Sides : j # n.id \/ u # n.side => w[j][u] = c[j][u]
  <2>. HIDE DEF w
  <2>. QED BY <1>1, <1>2, WriteIs DEF w
<1>. HIDE DEF w
<1>4. Walk(t, w, a, place, start, fill) \in [DOMAIN t -> [Sides -> Columns]]
  BY <1>1, <1>3, WalkType
<1>5. ASSUME NEW i \in DOMAIN t, NEW s \in Sides, OffChain(Links(t, a), i, s)
      PROVE  Walk(t, w, a, place, start, fill)[i][s] = c[i][s]
  <2>1. w[i][s] = c[i][s]
    BY <1>3, <1>5 DEF OffChain
  <2>2. i \in DOMAIN w
    BY <1>3
  <2>3. Walk(t, w, a, place, start, fill)[i][s] = w[i][s]
    BY <1>1, <1>5, <2>2, WalkFrame
  <2>. QED BY <2>1, <2>3
<1>. QED BY <1>4, <1>5 DEF w, OnlyAt

LEMMA DestinationBeforeType ==
    ASSUME NEW t, ChainTable(t), NEW c \in [DOMAIN t -> [Sides -> Columns]], NEW a \in ChainAccounts, NEW place
    PROVE  /\ DestinationBefore(t, c, place, a) \in Int
           /\ Previous(t, c, a, place) \in Int \cup {Null}
<1> DEFINE E == {k \in Links(t, a) : Before(k, place) /\ k.id # place.id}
           m == Latest(E)
<1>1. Previous(t, c, a, place) = IF E = {} THEN Null ELSE After(c, m)
  BY DEF Previous
<1>2. CASE E = {}
  BY <1>1, <1>2, ChainAssumption DEF DestinationBefore
<1>3. CASE E # {}
  <2>1. m \in Links(t, a)
    <3>1. E \in SUBSET Links(t, a) /\ IsChain(Links(t, a))
      BY LinksAre
    <3>. HIDE DEF E
    <3>. QED BY <1>3, <3>1, LatestIs
  <2>. HIDE DEF m
  <2>2. m.id \in DOMAIN t /\ m.side \in Sides
    BY <2>1, LinksAre
  <2>3. c[m.id][m.side] \in Columns
    BY <2>2
  <2>4. After(c, m) \in Int \cup {Null}
    BY <2>3, ColumnsAre DEF After
  <2>. HIDE DEF E
  <2>. QED BY <1>1, <1>3, <2>4, ChainAssumption DEF DestinationBefore
<1>. QED BY <1>2, <1>3

(* What the receiving side of a row does. *)
LEMMA DestinationIs ==
    ASSUME NEW t, ChainTable(t), NEW c \in [DOMAIN t -> [Sides -> Columns]], NEW i \in DOMAIN t
    PROVE  OnlyAt(c, WithDestination(t, c, i), DOMAIN t,
                  IF t[i].to = Null THEN {} ELSE Links(t, t[i].to))
<1> DEFINE to == t[i].to
           n == Link(t, i, "inbound")
           before == DestinationBefore(t, c, n, to)
<1>1. CASE to = Null
  BY <1>1 DEF WithDestination, OnlyAt
<1>2. CASE to # Null
  <2>1. to \in ChainAccounts
    BY <1>2, ChainRowFields DEF ChainTable
  <2>2. "inbound" \in Sides
    BY DEF Sides
  <2>3. n \in Links(t, to) /\ n.id = i /\ n.side = "inbound" /\ n.delta \in Int
    <3>1. n \in Links(t, to) /\ n.id = i /\ n.side = "inbound" /\ n \in LinkSet
      BY <2>1, <2>2, LinksAre, LinkIs
    <3>. HIDE DEF n
    <3>. QED BY <3>1, DeltaType
  <2>4. WithDestination(t, c, i) =
            Walk(t, Write(c, n.id, n.side, before, n.delta), to, n, before + n.delta, FALSE)
    BY <1>2, <2>3 DEF WithDestination
  <2>5. before \in Int
    BY <2>1, DestinationBeforeType
  <2> DEFINE start == before + n.delta
  <2>6. start \in Int
    BY <2>3, <2>5
  <2>7. PICK fill : fill = FALSE
    OBVIOUS
  <2>8. WithDestination(t, c, i) = Walk(t, Write(c, n.id, n.side, before, n.delta), to, n, start, fill)
    BY <2>4, <2>7
  <2>. HIDE DEF start, n, before, to
  <2>9. OnlyAt(c, Walk(t, Write(c, n.id, n.side, before, n.delta), to, n, start, fill), DOMAIN t, Links(t, to))
    BY <2>1, <2>3, <2>5, <2>6, WalkedWrite
  <2>. QED BY <1>2, <2>8, <2>9 DEF to
<1>. QED BY <1>1, <1>2

LEMMA DestinationExact ==
    ASSUME NEW t, ChainTable(t), NEW c \in [DOMAIN t -> [Sides -> Columns]], NEW i \in DOMAIN t,
           t[i].to # Null, Ready(c, Links(t, t[i].to), Link(t, i, "inbound"))
    PROVE  Exact(t, WithDestination(t, c, i), t[i].to)
<1> DEFINE to == t[i].to
           n == Link(t, i, "inbound")
           L == Links(t, to)
           before == DestinationBefore(t, c, n, to)
<1>1. to \in ChainAccounts
  BY ChainRowFields DEF ChainTable
<1>2. "inbound" \in Sides
  BY DEF Sides
<1>3. IsChain(L) /\ n \in L /\ n.id = i /\ n.side = "inbound" /\ n.delta # 0 /\ \A l \in L : l.id \in DOMAIN t
  <2>1. n \in L /\ n.id = i /\ n.side = "inbound" /\ n.delta # 0
    BY <1>1, <1>2, LinksAre, LinkIs
  <2>. QED BY <1>1, <2>1, LinksAre
<1>4. WithDestination(t, c, i) =
            Walk(t, Write(c, n.id, n.side, before, n.delta), to, n, before + n.delta, FALSE)
  BY <1>3 DEF WithDestination
<1>. HIDE DEF to, n
<1>5. Ready(c, L, n)
  BY DEF to, n
<1>6. before = Opening + SumOf(LinkDelta, Earlier(L, n))
  BY <1>3, <1>5, ReadyPrevious
<1>. HIDE DEF before
<1>7. \A l \in L : RightIn(Walk(t, Write(c, n.id, n.side, before, n.delta), to, n, before + n.delta, FALSE), L, l)
  <2>1. L = Links(t, to)
    OBVIOUS
  <2>. HIDE DEF L
  <2>. QED BY <1>3, <1>5, <1>6, <2>1, ReadyExact
<1>8. Exact(t, WithDestination(t, c, i), to)
  BY <1>4, <1>7, ExactIs
<1>. QED BY <1>8 DEF to

(* The hook on the row's own account, and then on the receiving one. *)
SourceStep(t, c, i) ==
    LET link == Link(t, i, "source")
        previous == Previous(t, c, t[i].from, link)
        noInbound == [c EXCEPT ![i]["inbound"] = NoColumns]
    IN  IF previous = Null THEN Heal(t, c, t[i].from, link)
        ELSE Walk(t, Write(noInbound, i, "source", previous, link.delta), t[i].from, link,
                  previous + link.delta, FALSE)

LEMMA HookedParts ==
    ASSUME NEW t, NEW c, NEW i
    PROVE  Hooked(t, c, i) = WithDestination(t, SourceStep(t, c, i), i)
BY DEF Hooked, SourceStep

LEMMA ExactFrame ==
    ASSUME NEW t, NEW a, NEW c, Exact(t, c, a), NEW d,
           \A l \in Links(t, a) : d[l.id][l.side] = c[l.id][l.side]
    PROVE  Exact(t, d, a)
BY ExactIs DEF RightIn

LEMMA NoInbound ==
    ASSUME NEW D, NEW c \in [D -> [Sides -> Columns]], NEW i \in D
    PROVE  /\ [c EXCEPT ![i]["inbound"] = NoColumns] \in [D -> [Sides -> Columns]]
           /\ \A j \in D, s \in Sides : j # i \/ s # "inbound" =>
                [c EXCEPT ![i]["inbound"] = NoColumns][j][s] = c[j][s]
BY DEF Columns

LEMMA SourceLink ==
    ASSUME NEW t, ChainTable(t), NEW i \in DOMAIN t
    PROVE  /\ t[i].from \in ChainAccounts /\ IsChain(Links(t, t[i].from))
           /\ \A l \in Links(t, t[i].from) : l.id \in DOMAIN t
           /\ Link(t, i, "source") \in Links(t, t[i].from)
           /\ Link(t, i, "source").id = i /\ Link(t, i, "source").side = "source"
           /\ Link(t, i, "source").delta # 0 /\ Link(t, i, "source").delta \in Int
           /\ Link(t, i, "source").date = t[i].date
<1>1. t[i].from \in ChainAccounts /\ "source" \in Sides
  BY ChainRowFields DEF ChainTable, Sides
<1>2. Link(t, i, "source") \in LinkSet
  BY <1>1, LinkIs
<1>3. Link(t, i, "source").delta \in Int
  BY <1>2, DeltaType
<1>. QED BY <1>1, <1>3, LinkIs, LinksAre

LEMMA SourceIs ==
    ASSUME NEW t, ChainTable(t), NEW c \in [DOMAIN t -> [Sides -> Columns]], NEW i \in DOMAIN t
    PROVE  /\ SourceStep(t, c, i) \in [DOMAIN t -> [Sides -> Columns]]
           /\ \A j \in DOMAIN t, s \in Sides :
                OffChain(Links(t, t[i].from), j, s) /\ (j # i \/ s # "inbound") =>
                    SourceStep(t, c, i)[j][s] = c[j][s]
<1> DEFINE a == t[i].from
           n == Link(t, i, "source")
           previous == Previous(t, c, a, n)
           e == [c EXCEPT ![i]["inbound"] = NoColumns]
<1>1. a \in ChainAccounts /\ n \in Links(t, a) /\ n.id = i /\ n.side = "source" /\ n.delta \in Int
  BY SourceLink
<1>2. previous \in Int \cup {Null}
  <2>. HIDE DEF a, n
  <2>. QED BY <1>1, DestinationBeforeType
<1>3. CASE previous = Null
  <2>1. SourceStep(t, c, i) = Heal(t, c, a, n)
    BY <1>3 DEF SourceStep
  <2>. HIDE DEF n, a
  <2>2. OnlyAt(c, Heal(t, c, a, n), DOMAIN t, Links(t, a))
    BY <1>1, HealIs
  <2>. QED BY <2>1, <2>2 DEF OnlyAt, a
<1>4. CASE previous # Null
  <2>1. previous \in Int
    BY <1>2, <1>4
  <2> DEFINE start == previous + n.delta
  <2>2. PICK fill : fill = FALSE
    OBVIOUS
  <2>3. SourceStep(t, c, i) = Walk(t, Write(e, n.id, n.side, previous, n.delta), a, n, start, fill)
    BY <1>1, <1>4, <2>2 DEF SourceStep
  <2>4. start \in Int
    BY <1>1, <2>1
  <2>5. /\ e \in [DOMAIN t -> [Sides -> Columns]]
        /\ \A j \in DOMAIN t, s \in Sides : j # i \/ s # "inbound" => e[j][s] = c[j][s]
    BY NoInbound
  <2>. HIDE DEF start, n, a, previous, e
  <2>6. OnlyAt(e, Walk(t, Write(e, n.id, n.side, previous, n.delta), a, n, start, fill), DOMAIN t, Links(t, a))
    BY <1>1, <2>1, <2>4, <2>5, WalkedWrite
  <2>. QED BY <2>3, <2>5, <2>6 DEF OnlyAt, a
<1>. QED BY <1>3, <1>4

(* Nothing is before the row: its chain is seeded from the opening balance. *)
LEMMA SeedExact ==
    ASSUME NEW t, ChainTable(t), NEW a, NEW L, L = Links(t, a), IsChain(L),
           \A l \in L : l.id \in DOMAIN t /\ l = Link(t, l.id, l.side),
           NEW n \in L, n.delta # 0, Earlier(L, n) = {},
           NEW c \in [DOMAIN t -> [Sides -> Columns]], c[n.id][n.side].before = Null, Ready(c, L, n)
    PROVE  /\ Heal(t, c, a, n) = Walk(t, c, a, Start, Opening, TRUE)
           /\ \A l \in L : RightIn(Walk(t, c, a, Start, Opening, TRUE), L, l)
<1> DEFINE K == L \ {n}
<1>1. {k \in L : Before(k, n) /\ k.id # n.id /\ After(c, k) # Null} = {}
  BY DEF Earlier
<1>2. Heal(t, c, a, n) = Walk(t, c, a, Start, Opening, TRUE)
  BY <1>1 DEF Heal
<1>3. Mends(c, L, K, n)
  BY ReadyMends
<1>4. \A l \in L : Before(Start, l)
  <2> SUFFICES ASSUME NEW l \in L PROVE Before(Start, l)
    OBVIOUS
  <2>1. l.date = t[l.id].date
    BY DEF Link
  <2>2. t[l.id] \in ChainRow
    BY DEF ChainTable
  <2>3. l.date \in Nat
    BY <2>1, <2>2, ChainRowFields
  <2>. QED BY <2>3 DEF Start, Before
<1>5. Later(L, Start) = L /\ L \ Later(L, Start) = {}
  BY <1>4 DEF Later
<1>6. Opening = Opening + SumOf(LinkDelta, L \ Later(L, Start))
  <2>1. SumOf(LinkDelta, {}) = 0
    BY SumEmpty
  <2>2. SumOf(LinkDelta, L \ Later(L, Start)) = SumOf(LinkDelta, {})
    BY <1>5
  <2>. QED BY <2>1, <2>2, ChainAssumption
<1>7. GoesOn(c, L, n, TRUE)
  BY DEF GoesOn
<1>8. ASSUME NEW l \in L
      PROVE  \/ RightIn(c, L, l)
             \/ \A k \in L : k = l \/ Before(k, l) => GoesOn(c, L, k, TRUE)
  <2>1. \A k \in L : k # n => Before(n, k)
    BY BeforeOrder DEF Earlier
  <2>2. CASE l = n
    <3>1. \A k \in L : k = l \/ Before(k, l) => k = n
      BY <2>2 DEF Earlier
    <3>. QED BY <1>7, <3>1
  <2>3. CASE l # n
    <3>1. RightIn(c, L, l) \/ \A m \in K : Before(n, m) /\ (m = l \/ Before(m, l)) => GoesOn(c, L, m, TRUE)
      BY <1>3, <2>1, <2>3 DEF Mends
    <3>. QED BY <1>7, <2>1, <3>1
  <2>. QED BY <2>2, <2>3
<1>9. Start.date \in Int /\ Start.id \in Int
  BY DEF Start
<1>. HIDE DEF K
<1>10. \A l \in L : RightIn(Walk(t, c, a, Start, Opening, TRUE), L, l)
  BY <1>5, <1>6, <1>8, <1>9, WalkMakesExact
<1>. QED BY <1>2, <1>10

LEMMA SourceExact ==
    ASSUME NEW t, ChainTable(t), NEW c \in [DOMAIN t -> [Sides -> Columns]], NEW i \in DOMAIN t,
           Ready(c, Links(t, t[i].from), Link(t, i, "source")),
           \/ Previous(t, c, t[i].from, Link(t, i, "source")) # Null
           \/ c[i]["source"].before = Null
    PROVE  Exact(t, SourceStep(t, c, i), t[i].from)
<1> DEFINE a == t[i].from
           n == Link(t, i, "source")
           L == Links(t, a)
           previous == Previous(t, c, a, n)
           e == [c EXCEPT ![i]["inbound"] = NoColumns]
<1>1. /\ a \in ChainAccounts /\ n \in L /\ n.id = i /\ n.side = "source" /\ n.delta # 0 /\ IsChain(L)
      /\ \A l \in L : l.id \in DOMAIN t
  BY SourceLink
<1>2. \A l \in L : l.id \in DOMAIN t /\ l.side \in Sides /\ l = Link(t, l.id, l.side)
  BY <1>1, LinksAre
<1>3. Ready(c, L, n)
  OBVIOUS
<1>4. /\ Earlier(L, n) = {} => previous = Null
      /\ Earlier(L, n) # {} => previous = Opening + SumOf(LinkDelta, Earlier(L, n)) /\ previous # Null
  <2>1. L = Links(t, a)
    OBVIOUS
  <2>. HIDE DEF L, n, a
  <2>. QED BY <1>1, <1>3, <2>1, ReadyPrevious
<1>5. CASE previous = Null
  <2>1. Earlier(L, n) = {} /\ c[n.id][n.side].before = Null
    BY <1>1, <1>4, <1>5
  <2>2. SourceStep(t, c, i) = Heal(t, c, a, n)
    BY <1>5 DEF SourceStep
  <2>3. L = Links(t, a)
    OBVIOUS
  <2>. HIDE DEF L, n, a
  <2>4. \A l \in L : RightIn(SourceStep(t, c, i), L, l)
    <3>1. /\ Heal(t, c, a, n) = Walk(t, c, a, Start, Opening, TRUE)
          /\ \A l \in L : RightIn(Walk(t, c, a, Start, Opening, TRUE), L, l)
      BY <1>1, <1>2, <1>3, <2>1, <2>3, SeedExact
    <3>. QED BY <2>2, <3>1
  <2>5. Exact(t, SourceStep(t, c, i), a)
    BY <2>3, <2>4, ExactIs
  <2>. QED BY <2>5 DEF a
<1>6. CASE previous # Null
  <2>1. SourceStep(t, c, i) = Walk(t, Write(e, n.id, n.side, previous, n.delta), a, n, previous + n.delta, FALSE)
    BY <1>1, <1>6 DEF SourceStep
  <2>2. previous = Opening + SumOf(LinkDelta, Earlier(L, n))
    BY <1>4, <1>6
  <2>3. /\ e \in [DOMAIN t -> [Sides -> Columns]]
        /\ \A j \in DOMAIN t, s \in Sides : j # i \/ s # "inbound" => e[j][s] = c[j][s]
    BY NoInbound
  <2>4. L = Links(t, a)
    OBVIOUS
  <2>. HIDE DEF L, n, a, e, previous
  <2>5. \A k \in L \ {n} : k.id # i /\ e[k.id][k.side] = c[k.id][k.side]
    BY <1>1, <1>2, <2>3 DEF IsChain
  <2>6. Ready(e, L, n)
    BY <1>1, <1>3, <2>5, ReadyFrame
  <2>7. \A l \in L : RightIn(SourceStep(t, c, i), L, l)
    <3>1. \A l \in L : RightIn(Walk(t, Write(e, n.id, n.side, previous, n.delta), a, n, previous + n.delta, FALSE), L, l)
      BY <1>1, <2>2, <2>3, <2>4, <2>6, ReadyExact
    <3>. QED BY <2>1, <3>1
  <2>8. Exact(t, SourceStep(t, c, i), a)
    BY <2>4, <2>7, ExactIs
  <2>. QED BY <2>8 DEF a
<1>. QED BY <1>5, <1>6

(* What a hook that finds its chains ready leaves of every account. *)
LEMMA InboundLink ==
    ASSUME NEW t, ChainTable(t), NEW i \in DOMAIN t, t[i].to # Null
    PROVE  /\ t[i].to \in ChainAccounts /\ t[i].to # t[i].from /\ IsChain(Links(t, t[i].to))
           /\ \A l \in Links(t, t[i].to) : l.id \in DOMAIN t
           /\ Link(t, i, "inbound") \in Links(t, t[i].to)
           /\ Link(t, i, "inbound").id = i /\ Link(t, i, "inbound").side = "inbound"
           /\ Link(t, i, "inbound").delta # 0 /\ Link(t, i, "inbound").delta \in Int
           /\ Link(t, i, "inbound").date = t[i].date
<1>1. t[i].to \in ChainAccounts /\ t[i].to # t[i].from /\ "inbound" \in Sides
  BY ChainRowFields DEF ChainTable, Sides
<1>2. Link(t, i, "inbound") \in LinkSet
  BY <1>1, LinkIs
<1>3. Link(t, i, "inbound").delta \in Int
  BY <1>2, DeltaType
<1>. QED BY <1>1, <1>3, LinkIs, LinksAre

LEMMA HookedType ==
    ASSUME NEW t, ChainTable(t), NEW c \in [DOMAIN t -> [Sides -> Columns]], NEW i \in DOMAIN t
    PROVE  Hooked(t, c, i) \in [DOMAIN t -> [Sides -> Columns]]
BY HookedParts, SourceIs, DestinationIs DEF OnlyAt

LEMMA DestinationElsewhere ==
    ASSUME NEW t, ChainTable(t), NEW c \in [DOMAIN t -> [Sides -> Columns]], NEW i \in DOMAIN t,
           NEW b \in ChainAccounts, b # t[i].to, Exact(t, c, b)
    PROVE  Exact(t, WithDestination(t, c, i), b)
<1>1. OnlyAt(c, WithDestination(t, c, i), DOMAIN t, IF t[i].to = Null THEN {} ELSE Links(t, t[i].to))
  BY DestinationIs
<1>2. ASSUME NEW l \in Links(t, b) PROVE WithDestination(t, c, i)[l.id][l.side] = c[l.id][l.side]
  <2>1. l.id \in DOMAIN t /\ l.side \in Sides
    BY LinksAre
  <2>2. CASE t[i].to = Null
    <3>1. OffChain({}, l.id, l.side)
      BY DEF OffChain
    <3>. QED BY <1>1, <2>1, <2>2, <3>1 DEF OnlyAt
  <2>3. CASE t[i].to # Null
    <3>1. OffChain(Links(t, t[i].to), l.id, l.side)
      BY <2>3, InboundLink, OtherLinks
    <3>. QED BY <1>1, <2>1, <2>3, <3>1 DEF OnlyAt
  <2>. QED BY <2>2, <2>3
<1>. QED BY <1>2, ExactFrame

LEMMA HookedSource ==
    ASSUME NEW t, ChainTable(t), NEW c \in [DOMAIN t -> [Sides -> Columns]], NEW i \in DOMAIN t,
           Exact(t, SourceStep(t, c, i), t[i].from)
    PROVE  Exact(t, Hooked(t, c, i), t[i].from)
<1>1. t[i].from \in ChainAccounts /\ t[i].from # t[i].to
  BY ChainRowFields DEF ChainTable
<1>. QED BY <1>1, SourceIs, DestinationElsewhere, HookedParts

LEMMA HookedDestination ==
    ASSUME NEW t, ChainTable(t), NEW c \in [DOMAIN t -> [Sides -> Columns]], NEW i \in DOMAIN t,
           t[i].to # Null, Ready(c, Links(t, t[i].to), Link(t, i, "inbound"))
    PROVE  Exact(t, Hooked(t, c, i), t[i].to)
<1> DEFINE L == Links(t, t[i].to)
           n == Link(t, i, "inbound")
           S == SourceStep(t, c, i)
<1>1. IsChain(L) /\ n \in L /\ n.id = i
  BY InboundLink
<1>2. /\ S \in [DOMAIN t -> [Sides -> Columns]]
      /\ \A j \in DOMAIN t, s \in Sides :
           OffChain(Links(t, t[i].from), j, s) /\ (j # i \/ s # "inbound") => S[j][s] = c[j][s]
  BY SourceIs
<1>3. ASSUME NEW k \in L \ {n} PROVE S[k.id][k.side] = c[k.id][k.side]
  <2>1. k.id # i
    BY <1>1 DEF IsChain
  <2>2. k.id \in DOMAIN t /\ k.side \in Sides
    BY LinksAre, InboundLink
  <2>3. OffChain(Links(t, t[i].from), k.id, k.side)
    BY OtherLinks, SourceLink, InboundLink
  <2>. HIDE DEF S, L, n
  <2>. QED BY <1>2, <2>1, <2>2, <2>3
<1>4. Ready(S, L, n)
  <2>. HIDE DEF S, L, n
  <2>1. Ready(c, L, n)
    BY DEF L, n
  <2>. QED BY <1>1, <1>3, <2>1, ReadyFrame
<1>. QED BY <1>2, <1>4, DestinationExact, HookedParts

LEMMA HookedElsewhere ==
    ASSUME NEW t, ChainTable(t), NEW c \in [DOMAIN t -> [Sides -> Columns]], NEW i \in DOMAIN t,
           NEW b \in ChainAccounts, b # t[i].from, b # t[i].to, Exact(t, c, b)
    PROVE  Exact(t, Hooked(t, c, i), b)
<1> DEFINE S == SourceStep(t, c, i)
<1>1. /\ S \in [DOMAIN t -> [Sides -> Columns]]
      /\ \A j \in DOMAIN t, s \in Sides :
           OffChain(Links(t, t[i].from), j, s) /\ (j # i \/ s # "inbound") => S[j][s] = c[j][s]
  BY SourceIs
<1>2. ASSUME NEW l \in Links(t, b) PROVE S[l.id][l.side] = c[l.id][l.side]
  <2>1. l.id \in DOMAIN t /\ l.side \in Sides
    BY LinksAre
  <2>2. OffChain(Links(t, t[i].from), l.id, l.side)
    BY SourceLink, OtherLinks
  <2>3. l.id # i \/ l.side # "inbound"
    BY LinksAre
  <2>. QED BY <1>1, <2>1, <2>2, <2>3
<1>. HIDE DEF S
<1>3. Exact(t, S, b)
  BY <1>2, ExactFrame
<1>4. Exact(t, WithDestination(t, S, i), b)
  BY <1>1, <1>3, DestinationElsewhere
<1>. QED BY <1>4, HookedParts DEF S

(* The links of the other rows, in two tables that differ in one row. *)
Others(t, a, i) == {l \in Links(t, a) : l.id # i}
SameBut(t, u, i) == DOMAIN t \ {i} = DOMAIN u \ {i} /\ \A j \in DOMAIN t \ {i} : t[j] = u[j]

LEMMA OthersWithin ==
    ASSUME NEW t, ChainTable(t), NEW u, ChainTable(u), NEW i, SameBut(t, u, i), NEW a \in ChainAccounts
    PROVE  Others(t, a, i) \subseteq Others(u, a, i)
<1> SUFFICES ASSUME NEW l \in Others(t, a, i) PROVE l \in Others(u, a, i)
  OBVIOUS
<1>1. l \in Links(t, a) /\ l.id # i
  BY DEF Others
<1>2. /\ l.id \in DOMAIN t /\ l.side \in Sides /\ l = Link(t, l.id, l.side)
      /\ IF l.side = "source" THEN t[l.id].from = a ELSE l.side = "inbound" /\ t[l.id].to = a
  BY <1>1, LinksAre
<1>3. l.id \in DOMAIN u /\ t[l.id] = u[l.id]
  BY <1>1, <1>2 DEF SameBut
<1>4. l = Link(u, l.id, l.side)
  BY <1>2, <1>3 DEF Link
<1>5. l \in Links(u, a)
  BY <1>2, <1>3, <1>4, LinksAre
<1>. QED BY <1>1, <1>5 DEF Others

LEMMA OthersAgree ==
    ASSUME NEW t, ChainTable(t), NEW u, ChainTable(u), NEW i, SameBut(t, u, i), NEW a \in ChainAccounts
    PROVE  Others(t, a, i) = Others(u, a, i)
<1>1. SameBut(u, t, i)
  BY DEF SameBut
<1>. QED BY <1>1, OthersWithin, SMTT(30)

LEMMA OthersAre ==
    ASSUME NEW t, ChainTable(t), NEW a \in ChainAccounts, NEW i
    PROVE  /\ i \notin DOMAIN t => Others(t, a, i) = Links(t, a)
           /\ (i \in DOMAIN t /\ a # t[i].from /\ a # t[i].to) => Others(t, a, i) = Links(t, a)
           /\ \A n \in Links(t, a) : n.id = i => Others(t, a, i) = Links(t, a) \ {n}
<1>1. /\ IsChain(Links(t, a))
      /\ \A l \in Links(t, a) : /\ l.id \in DOMAIN t
                                /\ t[l.id].from = a \/ t[l.id].to = a
  BY LinksAre
<1>. QED BY <1>1 DEF Others, IsChain

(* A chain that was right is ready for a new row, and for a row that        *)
(* changed its amount, or its date without crossing another.                *)
LEMMA ReadyNew ==
    ASSUME NEW t, ChainTable(t), NEW u, ChainTable(u), NEW i, i \notin DOMAIN u, SameBut(t, u, i),
           NEW d, NEW c, \A j \in DOMAIN u, s \in Sides : c[j][s] = d[j][s],
           NEW a \in ChainAccounts, NEW n \in Links(t, a), n.id = i, Exact(u, d, a)
    PROVE  Ready(c, Links(t, a), n)
<1> DEFINE K == Links(t, a) \ {n}
           o == [date |-> n.date, id |-> n.id]
<1>1. IsChain(Links(t, a)) /\ n \in LinkSet /\ n.delta # 0
  BY LinksAre DEF IsChain
<1>2. n.date \in Int /\ n.delta \in Int /\ n.id \in Int
  BY <1>1, LinkFields, DeltaType
<1>3. K = Links(u, a)
  BY OthersAgree, OthersAre
<1>4. ASSUME NEW k \in K PROVE WasRight(c, K, o, 0, k)
  <2>1. k \in Links(u, a) /\ k.id \in DOMAIN u /\ k.side \in Sides
    BY <1>3, LinksAre
  <2>2. RightIn(d, Links(u, a), k)
    BY <2>1, ExactIs
  <2>3. c[k.id][k.side] = Pair(Running(K, Opening, k), k.delta)
    <3>. HIDE DEF K
    <3>. QED BY <1>3, <2>1, <2>2 DEF RightIn
  <2>4. Running(K, Opening, k) \in Int
    <3>1. K \in SUBSET LinkSet /\ IsFiniteSet(K)
      BY <1>1, FS_Subset DEF IsChain
    <3>. HIDE DEF K
    <3>. QED BY <3>1, RunningType, ChainAssumption
  <2>. HIDE DEF K
  <2>5. Running(K, Opening, k) + Gives(o, 0, k) = Running(K, Opening, k)
    BY <2>4 DEF Gives
  <2>. QED BY <2>3, <2>5 DEF WasRight
<1>5. ASSUME NEW k \in K PROVE ~(Before(o, k) /\ Before(k, n))
  <2>1. k.date \in Int /\ k.id \in Int
    BY <1>1, LinkFields DEF IsChain
  <2>. QED BY <1>2, <2>1 DEF Before
<1>6. WereRight(c, K, o, 0) /\ Uncrossed(K, o, n)
  <2>. HIDE DEF K, o
  <2>. QED BY <1>4, <1>5 DEF WereRight, Uncrossed
<1>. QED BY <1>1, <1>2, <1>6 DEF Ready

LEMMA ReadyMoved ==
    ASSUME NEW t, ChainTable(t), NEW u, ChainTable(u), NEW i, SameBut(t, u, i), NEW c,
           NEW a \in ChainAccounts, NEW n \in Links(t, a), n.id = i, NEW o \in Links(u, a), o.id = i,
           Exact(u, c, a),
           \A k \in Others(u, a, i) : ~(Before(o, k) /\ Before(k, n)),
           \/ o.delta = n.delta
           \/ o.delta # n.delta /\ o.date = n.date
    PROVE  Ready(c, Links(t, a), n)
<1> DEFINE K == Links(t, a) \ {n}
           p == [date |-> o.date, id |-> n.id]
<1>1. IsChain(Links(u, a)) /\ o \in LinkSet
  BY LinksAre DEF IsChain
<1>2. o.date \in Int /\ o.delta \in Int
  BY <1>1, LinkFields, DeltaType
<1>3. K = Others(u, a, i) /\ K = Links(u, a) \ {o}
  BY OthersAgree, OthersAre
<1>4. K \cup {o} = Links(u, a) /\ o \notin K
  BY <1>3
<1>5. \A k : Before(p, k) <=> Before(o, k)
  BY DEF Before
<1>6. ASSUME NEW k \in K PROVE WasRight(c, K, p, o.delta, k)
  <2>1. RightIn(c, Links(u, a), k)
    BY <1>4, ExactIs
  <2>. HIDE DEF K, p
  <2>2. Running(K \cup {o}, Opening, k) = Running(K, Opening, k) + Gives(o, o.delta, k)
    BY <1>1, <1>4, RunningWith
  <2>3. Gives(p, o.delta, k) = Gives(o, o.delta, k)
    BY <1>5 DEF Gives
  <2>. QED BY <1>4, <2>1, <2>2, <2>3 DEF RightIn, WasRight
<1>7. WereRight(c, K, p, o.delta) /\ Uncrossed(K, p, n)
  <2>1. \A k \in K : ~(Before(o, k) /\ Before(k, n))
    BY <1>3
  <2>. HIDE DEF K, p
  <2>. QED BY <1>5, <1>6, <2>1 DEF WereRight, Uncrossed
<1>. QED BY <1>2, <1>7 DEF Ready

(* The invariant: columns of the type they have, and the promise itself. *)
ChainInv == ChainTypeOK /\ ChainKept

LEMMA ChainTypes ==
    ASSUME ChainTypeOK
    PROVE  /\ ChainTable(txs) /\ cols \in [DOMAIN txs -> [Sides -> Columns]]
           /\ DOMAIN txs \subseteq ChainIds /\ stale \subseteq ChainAccounts /\ slips \in 0..MaxSlips
BY ChainAssumption DEF ChainTypeOK, ChainTable

(* A new row's columns are blank. *)
Added(t, c, i, r) ==
    /\ DOMAIN t = DOMAIN txs \cup {i} /\ ChainTable(t) /\ t[i] = r /\ SameBut(t, txs, i)
    /\ c \in [DOMAIN t -> [Sides -> Columns]]
    /\ c[i]["source"] = NoColumns /\ c[i]["inbound"] = NoColumns
    /\ \A j \in DOMAIN txs, s \in Sides : c[j][s] = cols[j][s]

LEMMA NewRow ==
    ASSUME ChainTypeOK, NEW i \in ChainIds, i \notin DOMAIN txs, NEW r \in ChainRow
    PROVE  Added(With(txs, i, r), With(cols, i, Blank), i, r)
<1> DEFINE t == With(txs, i, r)
           c == With(cols, i, Blank)
<1>1. /\ ChainTable(txs) /\ cols \in [DOMAIN txs -> [Sides -> Columns]]
      /\ DOMAIN txs \subseteq ChainIds
  BY ChainTypes
<1>2. DOMAIN t = DOMAIN txs \cup {i} /\ t[i] = r /\ \A j \in DOMAIN txs : t[j] = txs[j]
  BY DEF With
<1>3. IsFiniteSet(DOMAIN txs \cup {i}) /\ i \in Nat
  BY <1>1, FS_AddElement, ChainAssumption DEF ChainTable
<1>4. ChainTable(t)
  <2>1. t \in [DOMAIN t -> ChainRow]
    <3>1. t = [j \in DOMAIN t |-> t[j]]
      BY DEF With
    <3>2. \A j \in DOMAIN t : t[j] \in ChainRow
      BY <1>1, <1>2 DEF ChainTable
    <3>. QED BY <3>1, <3>2
  <2>. QED BY <1>1, <1>2, <1>3, <2>1 DEF ChainTable
<1>5. Blank \in [Sides -> Columns] /\ Blank["source"] = NoColumns /\ Blank["inbound"] = NoColumns
  BY DEF Blank, Columns, Sides
<1>6. c \in [DOMAIN t -> [Sides -> Columns]] /\ c[i] = Blank /\ \A j \in DOMAIN txs : c[j] = cols[j]
  BY <1>1, <1>2, <1>5 DEF With
<1>. HIDE DEF t, c
<1>7. Added(t, c, i, r)
  BY <1>2, <1>4, <1>5, <1>6 DEF SameBut, Added
<1>. QED BY <1>7 DEF t, c

LEMMA CreateTxIs ==
    ASSUME ChainInv, NEW i \in ChainIds, NEW r \in ChainRow, CreateTx(i, r)
    PROVE  /\ ChainTable(txs') /\ cols' \in [DOMAIN txs' -> [Sides -> Columns]]
           /\ DOMAIN txs' \subseteq ChainIds /\ stale' = stale /\ slips' = slips
           /\ \A a \in ChainAccounts \ stale : Exact(txs', cols', a)
<1> DEFINE t == With(txs, i, r)
           c == With(cols, i, Blank)
<1>1. i \notin DOMAIN txs /\ txs' = t /\ cols' = Hooked(t, c, i) /\ stale' = stale /\ slips' = slips
  BY DEF CreateTx
<1>2. /\ ChainTable(txs) /\ DOMAIN txs \subseteq ChainIds
      /\ \A a \in ChainAccounts \ stale : Exact(txs, cols, a)
  BY ChainTypes DEF ChainInv, ChainKept
<1>3. /\ DOMAIN t = DOMAIN txs \cup {i} /\ ChainTable(t) /\ t[i] = r /\ SameBut(t, txs, i)
      /\ c \in [DOMAIN t -> [Sides -> Columns]]
      /\ c[i]["source"] = NoColumns
      /\ \A j \in DOMAIN txs, s \in Sides : c[j][s] = cols[j][s]
  BY <1>1, NewRow DEF ChainInv, Added
<1>. HIDE DEF t, c
<1>4. ASSUME NEW a \in ChainAccounts \ stale PROVE Exact(t, Hooked(t, c, i), a)
  <2>1. i \in DOMAIN t
    BY <1>3
  <2>2. Exact(txs, cols, a)
    BY <1>2
  <2>3. CASE a = t[i].from
    <3>1. Link(t, i, "source") \in Links(t, a) /\ Link(t, i, "source").id = i
      BY <1>3, <2>1, <2>3, SourceLink
    <3>2. Ready(c, Links(t, a), Link(t, i, "source"))
      BY <1>1, <1>2, <1>3, <2>2, <3>1, ReadyNew
    <3>3. c[i]["source"].before = Null
      BY <1>3 DEF NoColumns
    <3>4. Exact(t, SourceStep(t, c, i), a)
      BY <1>3, <2>1, <2>3, <3>2, <3>3, SourceExact
    <3>. QED BY <1>3, <2>1, <2>3, <3>4, HookedSource
  <2>4. CASE a = t[i].to
    <3>0. t[i].to # Null
      BY <2>4, NullIsNoInt
    <3>1. Link(t, i, "inbound") \in Links(t, a) /\ Link(t, i, "inbound").id = i
      BY <1>3, <2>1, <2>4, <3>0, InboundLink
    <3>2. Ready(c, Links(t, a), Link(t, i, "inbound"))
      BY <1>1, <1>2, <1>3, <2>2, <3>1, ReadyNew
    <3>. QED BY <1>3, <2>1, <2>4, <3>0, <3>2, HookedDestination
  <2>5. CASE a # t[i].from /\ a # t[i].to
    <3>1. Links(t, a) = Links(txs, a)
      BY <1>1, <1>2, <1>3, <2>1, <2>5, OthersAgree, OthersAre
    <3>2. \A l \in Links(txs, a) : c[l.id][l.side] = cols[l.id][l.side]
      BY <1>2, <1>3, LinksAre
    <3>3. Exact(t, c, a)
      BY <2>2, <3>1, <3>2, ExactIs DEF RightIn
    <3>. QED BY <1>3, <2>1, <2>5, <3>3, HookedElsewhere
  <2>. QED BY <2>3, <2>4, <2>5
<1>5. Hooked(t, c, i) \in [DOMAIN t -> [Sides -> Columns]]
  BY <1>3, HookedType
<1>. QED BY <1>1, <1>2, <1>3, <1>4, <1>5

(* An update of the amount, or of the date. *)
Amended(t, i, wrong) ==
    /\ i \in DOMAIN txs /\ ChainTable(t) /\ DOMAIN t = DOMAIN txs /\ SameBut(t, txs, i)
    /\ t[i].from = txs[i].from /\ t[i].to = txs[i].to
    /\ Converged(t, i) \subseteq wrong
    /\ \/ t[i].amount # txs[i].amount /\ t[i].date = txs[i].date
       \/ t[i].amount = txs[i].amount /\ Crossed(i, t[i].date) \subseteq wrong

LEMMA AmendedReady ==
    ASSUME ChainInv, NEW t, NEW i, NEW wrong, Amended(t, i, wrong),
           NEW a \in ChainAccounts, a \notin stale, a \notin wrong,
           NEW s \in Sides, IF s = "source" THEN t[i].from = a ELSE t[i].to = a
    PROVE  Ready(cols, Links(t, a), Link(t, i, s))
<1> DEFINE o == Link(txs, i, s)
           n == Link(t, i, s)
<1>1. ChainTable(txs) /\ Exact(txs, cols, a)
  BY ChainTypes DEF ChainInv, ChainKept
<1>2. /\ i \in DOMAIN txs /\ ChainTable(t) /\ i \in DOMAIN t /\ SameBut(t, txs, i)
      /\ t[i].from = txs[i].from /\ t[i].to = txs[i].to
  BY DEF Amended
<1>3. s = "source" \/ s = "inbound"
  BY DEF Sides
<1>4. /\ o.id = i /\ n.id = i /\ o.date = txs[i].date /\ n.date = t[i].date
      /\ o.delta = (IF s = "inbound" THEN txs[i].amount ELSE -txs[i].amount)
      /\ n.delta = (IF s = "inbound" THEN t[i].amount ELSE -t[i].amount)
  BY <1>1, <1>2, LinkIs
<1>5. n \in Links(t, a) /\ o \in Links(txs, a)
  BY <1>1, <1>2, <1>3, LinksAre
<1>6. /\ txs[i].amount \in Int /\ t[i].amount \in Int /\ txs[i].date \in Int /\ t[i].date \in Int
      /\ i \in Int
  BY <1>1, <1>2, ChainRowFields DEF ChainTable
<1>7. \A k \in Others(txs, a, i) : k.date \in Int /\ k.id \in Int /\ k.id # i /\ k \in Links(txs, a)
  BY <1>1, LinksAre, LinkFields DEF Others, IsChain
<1>8. /\ \A k \in Others(txs, a, i) : ~(Before(o, k) /\ Before(k, n))
      /\ \/ o.delta = n.delta
         \/ o.delta # n.delta /\ o.date = n.date
  <2>1. CASE t[i].amount # txs[i].amount /\ t[i].date = txs[i].date
    <3>1. o.delta # n.delta /\ o.date = n.date
      <4>. HIDE DEF o, n
      <4>. QED BY <1>4, <1>6, <2>1
    <3>2. ASSUME NEW k \in Others(txs, a, i) PROVE ~(Before(o, k) /\ Before(k, n))
      <4>. HIDE DEF o, n
      <4>. QED BY <1>4, <1>6, <1>7, <3>1 DEF Before
    <3>. QED BY <3>1, <3>2
  <2>2. CASE t[i].amount = txs[i].amount /\ Crossed(i, t[i].date) \subseteq wrong
    <3>1. o.delta = n.delta
      BY <1>4, <2>2
    <3>2. a \notin Crossed(i, t[i].date) /\ a \in Involved(txs[i])
      BY <1>2, <1>3, <2>2, NullIsNoInt DEF Involved
    <3>3. ASSUME NEW k \in Others(txs, a, i), Before(o, k), Before(k, n) PROVE FALSE
      <4>1. Before(Link(txs, i, "source"), k) /\ Before(k, [date |-> t[i].date, id |-> i])
        BY <3>3 DEF Before, Link
      <4>. QED BY <1>7, <3>2, <4>1 DEF Crossed
    <3>. QED BY <3>1, <3>3
  <2>. QED BY <2>1, <2>2 DEF Amended
<1>. HIDE DEF o, n
<1>9. Ready(cols, Links(t, a), n)
  BY <1>1, <1>2, <1>4, <1>5, <1>8, ReadyMoved
<1>. QED BY <1>9 DEF n

LEMMA AmendedIs ==
    ASSUME ChainInv, NEW t, NEW i, NEW wrong, Amended(t, i, wrong)
    PROVE  /\ Hooked(t, cols, i) \in [DOMAIN txs -> [Sides -> Columns]]
           /\ \A a \in ChainAccounts \ (stale \cup wrong) : Exact(t, Hooked(t, cols, i), a)
<1>1. /\ ChainTable(txs) /\ cols \in [DOMAIN txs -> [Sides -> Columns]]
      /\ \A a \in ChainAccounts \ stale : Exact(txs, cols, a)
  BY ChainTypes DEF ChainInv, ChainKept
<1>2. /\ i \in DOMAIN t /\ ChainTable(t) /\ DOMAIN t = DOMAIN txs /\ SameBut(t, txs, i)
      /\ t[i].from = txs[i].from /\ t[i].to = txs[i].to
      /\ Converged(t, i) \subseteq wrong
  BY DEF Amended
<1>3. cols \in [DOMAIN t -> [Sides -> Columns]]
  BY <1>1, <1>2
<1>4. ASSUME NEW a \in ChainAccounts, a \notin stale, a \notin wrong PROVE Exact(t, Hooked(t, cols, i), a)
  <2>1. CASE a = t[i].from
    <3>1. "source" \in Sides
      BY DEF Sides
    <3>2. Ready(cols, Links(t, a), Link(t, i, "source"))
      BY <1>4, <2>1, <3>1, AmendedReady
    <3>3. \/ Previous(t, cols, t[i].from, Link(t, i, "source")) # Null
          \/ cols[i]["source"].before = Null
      BY <1>2, <1>4, <2>1 DEF Converged
    <3>4. Exact(t, SourceStep(t, cols, i), t[i].from)
      BY <1>2, <1>3, <2>1, <3>2, <3>3, SourceExact
    <3>. QED BY <1>2, <1>3, <2>1, <3>4, HookedSource
  <2>2. CASE a = t[i].to
    <3>1. "inbound" \in Sides /\ t[i].to # Null
      BY <2>2, NullIsNoInt DEF Sides
    <3>2. Ready(cols, Links(t, a), Link(t, i, "inbound"))
      BY <1>4, <2>2, <3>1, AmendedReady
    <3>. QED BY <1>2, <1>3, <2>2, <3>1, <3>2, HookedDestination
  <2>3. CASE a # t[i].from /\ a # t[i].to
    <3>1. Links(t, a) = Links(txs, a)
      BY <1>1, <1>2, <2>3, OthersAgree, OthersAre
    <3>2. Exact(t, cols, a)
      BY <1>1, <1>4, <3>1, ExactIs
    <3>. QED BY <1>2, <1>3, <2>3, <3>2, HookedElsewhere
  <2>. QED BY <2>1, <2>2, <2>3
<1>5. Hooked(t, cols, i) \in [DOMAIN t -> [Sides -> Columns]]
  BY <1>2, <1>3, HookedType
<1>. QED BY <1>2, <1>4, <1>5

LEMMA SlipIs ==
    ASSUME ChainTypeOK, NEW wrong, wrong \subseteq ChainAccounts, Slip(wrong)
    PROVE  stale' = stale \cup wrong /\ stale' \subseteq ChainAccounts /\ slips' \in 0..MaxSlips
BY ChainAssumption DEF Slip, ChainTypeOK

LEMMA InvolvedAre == ASSUME NEW r \in ChainRow PROVE Involved(r) \subseteq ChainAccounts
BY ChainRowFields DEF Involved

ChainLeft ==
    /\ ChainTable(txs') /\ cols' \in [DOMAIN txs' -> [Sides -> Columns]]
    /\ DOMAIN txs' \subseteq ChainIds /\ stale' \subseteq ChainAccounts /\ slips' \in 0..MaxSlips
    /\ \A a \in ChainAccounts \ stale' : Exact(txs', cols', a)

LEMMA EditAmountIs ==
    ASSUME ChainInv, NEW i \in ChainIds, NEW n \in ChainAmounts, EditAmount(i, n)
    PROVE  ChainLeft
<1> DEFINE t == [txs EXCEPT ![i].amount = n]
           wrong == Converged(t, i)
<1>1. /\ i \in DOMAIN txs /\ txs[i].amount # n /\ txs' = t /\ cols' = Hooked(t, cols, i) /\ Slip(wrong)
  BY DEF EditAmount
<1>2. ChainTable(txs) /\ DOMAIN txs \subseteq ChainIds /\ ChainTypeOK
  BY ChainTypes DEF ChainInv
<1>3. txs[i] \in ChainRow /\ txs \in [DOMAIN txs -> ChainRow]
  BY <1>1, <1>2 DEF ChainTable
<1>4. /\ t[i] \in ChainRow /\ t[i].amount = n /\ t[i].date = txs[i].date
      /\ t[i].from = txs[i].from /\ t[i].to = txs[i].to
  BY <1>1, <1>3 DEF ChainRow
<1>5. DOMAIN t = DOMAIN txs /\ \A j \in DOMAIN txs \ {i} : t[j] = txs[j]
  OBVIOUS
<1>6. t \in [DOMAIN txs -> ChainRow]
  BY <1>3, <1>4
<1>. HIDE DEF t
<1>7. ChainTable(t) /\ SameBut(t, txs, i)
  BY <1>2, <1>5, <1>6 DEF ChainTable, SameBut
<1>8. Amended(t, i, wrong)
  BY <1>1, <1>4, <1>5, <1>7 DEF Amended
<1>9. wrong \subseteq ChainAccounts
  BY <1>4, ChainRowFields DEF Converged
<1>. HIDE DEF wrong
<1>10. stale' = stale \cup wrong /\ stale' \subseteq ChainAccounts /\ slips' \in 0..MaxSlips
  BY <1>1, <1>2, <1>9, SlipIs
<1>11. /\ Hooked(t, cols, i) \in [DOMAIN txs -> [Sides -> Columns]]
       /\ \A a \in ChainAccounts \ (stale \cup wrong) : Exact(t, Hooked(t, cols, i), a)
  BY <1>8, AmendedIs
<1>. QED BY <1>1, <1>2, <1>5, <1>7, <1>10, <1>11 DEF ChainLeft

LEMMA MoveDateIs ==
    ASSUME ChainInv, NEW i \in ChainIds, NEW d \in ChainDates, MoveDate(i, d)
    PROVE  ChainLeft
<1> DEFINE t == [txs EXCEPT ![i].date = d]
           wrong == Crossed(i, d) \cup Converged(t, i)
<1>1. /\ i \in DOMAIN txs /\ txs' = t /\ cols' = Hooked(t, cols, i) /\ Slip(wrong)
  BY DEF MoveDate
<1>2. ChainTable(txs) /\ DOMAIN txs \subseteq ChainIds /\ ChainTypeOK
  BY ChainTypes DEF ChainInv
<1>3. txs[i] \in ChainRow /\ txs \in [DOMAIN txs -> ChainRow]
  BY <1>1, <1>2 DEF ChainTable
<1>4. /\ t[i] \in ChainRow /\ t[i].date = d /\ t[i].amount = txs[i].amount
      /\ t[i].from = txs[i].from /\ t[i].to = txs[i].to
  BY <1>1, <1>3 DEF ChainRow
<1>5. DOMAIN t = DOMAIN txs /\ \A j \in DOMAIN txs \ {i} : t[j] = txs[j]
  OBVIOUS
<1>6. t \in [DOMAIN txs -> ChainRow]
  BY <1>3, <1>4
<1>. HIDE DEF t
<1>7. ChainTable(t) /\ SameBut(t, txs, i)
  BY <1>2, <1>5, <1>6 DEF ChainTable, SameBut
<1>8. Amended(t, i, wrong)
  BY <1>1, <1>4, <1>5, <1>7 DEF Amended
<1>9. wrong \subseteq ChainAccounts
  <2>1. Crossed(i, d) \subseteq ChainAccounts
    BY <1>3, InvolvedAre DEF Crossed
  <2>2. Converged(t, i) \subseteq ChainAccounts
    BY <1>4, ChainRowFields DEF Converged
  <2>. QED BY <2>1, <2>2
<1>. HIDE DEF wrong
<1>10. stale' = stale \cup wrong /\ stale' \subseteq ChainAccounts /\ slips' \in 0..MaxSlips
  BY <1>1, <1>2, <1>9, SlipIs
<1>11. /\ Hooked(t, cols, i) \in [DOMAIN txs -> [Sides -> Columns]]
       /\ \A a \in ChainAccounts \ (stale \cup wrong) : Exact(t, Hooked(t, cols, i), a)
  BY <1>8, AmendedIs
<1>. QED BY <1>1, <1>2, <1>5, <1>7, <1>10, <1>11 DEF ChainLeft

LEMMA CutCreateIs ==
    ASSUME ChainInv, NEW i \in ChainIds, NEW r \in ChainRow, CutCreate(i, r)
    PROVE  ChainLeft
<1> DEFINE t == With(txs, i, r)
           c == With(cols, i, Blank)
<1>1. i \notin DOMAIN txs /\ txs' = t /\ cols' = c /\ Slip(Involved(r))
  BY DEF CutCreate
<1>2. /\ ChainTable(txs) /\ DOMAIN txs \subseteq ChainIds /\ ChainTypeOK
      /\ \A a \in ChainAccounts \ stale : Exact(txs, cols, a)
  BY ChainTypes DEF ChainInv, ChainKept
<1>3. /\ DOMAIN t = DOMAIN txs \cup {i} /\ ChainTable(t) /\ t[i] = r /\ SameBut(t, txs, i)
      /\ c \in [DOMAIN t -> [Sides -> Columns]]
      /\ c[i]["source"] = NoColumns /\ c[i]["inbound"] = NoColumns
      /\ \A j \in DOMAIN txs, s \in Sides : c[j][s] = cols[j][s]
  BY <1>1, <1>2, NewRow DEF Added
<1>. HIDE DEF t, c
<1>4. stale' = stale \cup Involved(r) /\ stale' \subseteq ChainAccounts /\ slips' \in 0..MaxSlips
  BY <1>1, <1>2, InvolvedAre, SlipIs
<1>5. ASSUME NEW a \in ChainAccounts \ stale' PROVE Exact(t, c, a)
  <2>1. a \notin stale /\ a # t[i].from /\ a # t[i].to
    BY <1>3, <1>4, NullIsNoInt DEF Involved
  <2>2. Links(t, a) = Links(txs, a)
    BY <1>1, <1>2, <1>3, <2>1, OthersAgree, OthersAre
  <2>3. \A l \in Links(txs, a) : c[l.id][l.side] = cols[l.id][l.side]
    BY <1>2, <1>3, LinksAre
  <2>4. Exact(txs, cols, a)
    BY <1>2, <2>1
  <2>. QED BY <2>2, <2>3, <2>4, ExactIs DEF RightIn
<1>. QED BY <1>1, <1>2, <1>3, <1>4, <1>5 DEF ChainLeft

(* A deleted row's link o is gone: what followed it starts from elsewhere. *)
LEMMA GoneMends ==
    ASSUME NEW t, ChainTable(t), NEW u, ChainTable(u), NEW i, i \notin DOMAIN t, SameBut(t, u, i),
           NEW a \in ChainAccounts, NEW o \in Links(u, a), o.id = i,
           NEW e, Exact(u, e, a), NEW c, \A k \in Links(t, a) : c[k.id][k.side] = e[k.id][k.side]
    PROVE  /\ \A k \in Links(t, a) : ~Before(o, k) => RightIn(c, Links(t, a), k)
           /\ \A k \in Links(t, a) : Before(o, k) => \A fill \in BOOLEAN : GoesOn(c, Links(t, a), k, fill)
<1> DEFINE K == Links(t, a)
<1>1. K = Links(u, a) \ {o} /\ K \cup {o} = Links(u, a) /\ o \notin K
  BY OthersAgree, OthersAre
<1>2. IsChain(Links(u, a)) /\ o \in LinkSet /\ o.delta # 0
  BY LinksAre DEF IsChain
<1>3. o.delta \in Int
  BY <1>2, DeltaType
<1>. HIDE DEF K
<1>4. ASSUME NEW k \in K
      PROVE  /\ c[k.id][k.side] = Pair(Running(K, Opening, k) + Gives(o, o.delta, k), k.delta)
             /\ Running(K, Opening, k) \in Int
  <2>1. RightIn(e, K \cup {o}, k) /\ c[k.id][k.side] = e[k.id][k.side]
    BY <1>1, ExactIs DEF K
  <2>2. /\ Running(K \cup {o}, Opening, k) = Running(K, Opening, k) + Gives(o, o.delta, k)
        /\ Running(K, Opening, k) \in Int
    BY <1>1, <1>2, RunningWith
  <2>. QED BY <2>1, <2>2 DEF RightIn
<1>5. ASSUME NEW k \in K, ~Before(o, k) PROVE RightIn(c, K, k)
  <2>1. Running(K, Opening, k) + Gives(o, o.delta, k) = Running(K, Opening, k)
    BY <1>4, <1>5 DEF Gives
  <2>. QED BY <1>4, <2>1 DEF RightIn
<1>6. ASSUME NEW k \in K, Before(o, k), NEW fill \in BOOLEAN PROVE GoesOn(c, K, k, fill)
  <2>1. c[k.id][k.side].before = Running(K, Opening, k) + o.delta
    <3>1. c[k.id][k.side] = Pair(Running(K, Opening, k) + o.delta, k.delta)
      BY <1>4, <1>6 DEF Gives
    <3>. QED BY <3>1 DEF Pair
  <2>2. c[k.id][k.side].before # Running(K, Opening, k) /\ c[k.id][k.side].before # Null
    BY <1>2, <1>3, <1>4, <2>1, NullIsNoInt
  <2>. QED BY <2>2 DEF GoesOn
<1>. QED BY <1>5, <1>6 DEF K

(* A walk from a link that is right starts from the right balance. *)
LEMMA StartsAt ==
    ASSUME NEW L, IsChain(L), NEW m \in L, NEW c, RightIn(c, L, m)
    PROVE  /\ After(c, m) = Opening + SumOf(LinkDelta, L \ Later(L, m))
           /\ After(c, m) \in Int /\ After(c, m) # Null
<1> DEFINE E == Earlier(L, m)
<1>1. L \in SUBSET LinkSet /\ IsFiniteSet(L) /\ m \in LinkSet /\ E \in SUBSET L
  BY DEF IsChain, Earlier
<1>2. IsFiniteSet(E)
  BY <1>1, FS_Subset
<1>3. L \ Later(L, m) = E \cup {m} /\ m \notin E
  BY BeforeOrder DEF Later, Earlier
<1>4. Running(L, Opening, m) = Opening + SumOf(LinkDelta, E)
  BY <1>1, RunningIsSum
<1>5. After(c, m) = Running(L, Opening, m) + m.delta
  BY DEF RightIn, Pair, After
<1>. HIDE DEF E
<1>6. SumOf(LinkDelta, E \cup {m}) = LinkDelta[m] + SumOf(LinkDelta, E)
  <2>1. \A x \in E \cup {m} : LinkDelta[x] \in Int
    BY <1>1, DeltaType
  <2>. QED BY <1>2, <1>3, <2>1, SumAdd
<1>7. SumOf(LinkDelta, L \ Later(L, m)) = SumOf(LinkDelta, E \cup {m})
  BY <1>3
<1>8. SumOf(LinkDelta, E) \in Int /\ LinkDelta[m] = m.delta /\ m.delta \in Int /\ Opening \in Int
  BY <1>1, <1>2, LinksSumType, DeltaType, ChainAssumption
<1>. QED BY <1>4, <1>5, <1>6, <1>7, <1>8, NullIsNoInt

(* The account a deleted row left. *)
SourceGone(t, c, i, r) ==
    LET place == [date |-> r.date, id |-> i]
        sources == {k \in Links(t, r.from) : k.side = "source" /\ Before(k, place)}
    IN  IF sources = {} \/ After(c, Latest(sources)) = Null THEN c
        ELSE Walk(t, c, r.from, Latest(sources), After(c, Latest(sources)), FALSE)

LEMMA UnhookedParts ==
    ASSUME NEW t, NEW c, NEW i, NEW r
    PROVE  LET place == [date |-> r.date, id |-> i]
               d == SourceGone(t, c, i, r)
           IN  Unhooked(t, c, i, r) =
                 IF r.to = Null THEN d ELSE Walk(t, d, r.to, place, DestinationBefore(t, d, place, r.to), FALSE)
BY DEF Unhooked, SourceGone

LEMMA SourceGoneIs ==
    ASSUME NEW t, ChainTable(t), NEW c \in [DOMAIN t -> [Sides -> Columns]], NEW i, NEW r \in ChainRow
    PROVE  OnlyAt(c, SourceGone(t, c, i, r), DOMAIN t, Links(t, r.from))
<1> DEFINE place == [date |-> r.date, id |-> i]
           L == Links(t, r.from)
           sources == {k \in L : k.side = "source" /\ Before(k, place)}
           m == Latest(sources)
<1>1. r.from \in ChainAccounts
  BY ChainRowFields
<1>2. CASE sources = {} \/ After(c, m) = Null
  BY <1>2 DEF SourceGone, OnlyAt
<1>3. CASE sources # {} /\ After(c, m) # Null
  <2>1. IsChain(L) /\ sources \in SUBSET L
    BY <1>1, LinksAre
  <2>2. SourceGone(t, c, i, r) = Walk(t, c, r.from, m, After(c, m), FALSE)
    BY <1>3 DEF SourceGone
  <2>3. m \in L
    <3>. HIDE DEF sources, L
    <3>. QED BY <1>3, <2>1, LatestIs
  <2>. HIDE DEF m
  <2>4. m.id \in DOMAIN t /\ m.side \in Sides
    BY <1>1, <2>3, LinksAre
  <2>5. c[m.id][m.side] \in Columns
    BY <2>4
  <2>6. After(c, m) \in Int
    BY <1>3, <2>5, ColumnsAre DEF After
  <2>7. PICK fill : fill = FALSE
    OBVIOUS
  <2>8. SourceGone(t, c, i, r) = Walk(t, c, r.from, m, After(c, m), fill)
    BY <2>2, <2>7
  <2>9. Walk(t, c, r.from, m, After(c, m), fill) \in [DOMAIN t -> [Sides -> Columns]]
    BY <2>1, <2>6, WalkType
  <2>10. ASSUME NEW j \in DOMAIN t, NEW s \in Sides, OffChain(L, j, s)
         PROVE  Walk(t, c, r.from, m, After(c, m), fill)[j][s] = c[j][s]
    <3>1. j \in DOMAIN c
      OBVIOUS
    <3>. QED BY <2>1, <2>10, <3>1, WalkFrame
  <2>. QED BY <2>8, <2>9, <2>10 DEF OnlyAt
<1>. QED BY <1>2, <1>3

LEMMA SourceGoneExact ==
    ASSUME NEW t, ChainTable(t), NEW u, ChainTable(u), NEW i, i \notin DOMAIN t, i \in DOMAIN u, SameBut(t, u, i),
           NEW c \in [DOMAIN t -> [Sides -> Columns]],
           NEW a, a = u[i].from,
           NEW e, Exact(u, e, a), \A k \in Links(t, a) : c[k.id][k.side] = e[k.id][k.side],
           LET place == Link(u, i, "source")
               earlier == {k \in Links(u, a) : Before(k, place)}
               follow == {k \in Links(u, a) : Before(place, k)}
           IN  follow = {} \/ (earlier # {} /\ Latest(earlier).side = "source")
    PROVE  Exact(t, SourceGone(t, c, i, u[i]), a)
<1> DEFINE o == Link(u, i, "source")
           L == Links(t, a)
           place == [date |-> u[i].date, id |-> i]
           sources == {k \in L : k.side = "source" /\ Before(k, place)}
           m == Latest(sources)
           d == SourceGone(t, c, i, u[i])
           earlier == {k \in Links(u, a) : Before(k, o)}
           follow == {k \in Links(u, a) : Before(o, k)}
<1>1. /\ a \in ChainAccounts /\ o \in Links(u, a) /\ o.id = i /\ o.date = u[i].date
      /\ IsChain(Links(u, a))
  BY SourceLink
<1>2. IsChain(L) /\ \A l \in L : l.id \in DOMAIN t /\ l.side \in Sides
  BY <1>1, LinksAre
<1>3. L = Links(u, a) \ {o}
  BY <1>1, OthersAgree, OthersAre
<1>4. /\ \A k \in L : ~Before(o, k) => RightIn(c, L, k)
      /\ \A k \in L : Before(o, k) => \A fill \in BOOLEAN : GoesOn(c, L, k, fill)
  <2>. HIDE DEF o
  <2>. QED BY <1>1, GoneMends
<1>5. \A k : /\ Before(k, place) <=> Before(k, o)
             /\ Before(place, k) <=> Before(o, k)
  <2>. HIDE DEF o
  <2>. QED BY <1>1 DEF Before
<1>6. sources \in SUBSET L /\ sources \subseteq earlier
  BY <1>3, <1>5
<1>7. CASE sources = {} \/ After(c, m) = Null
  <2>1. follow = {}
    <3>1. ASSUME follow # {} PROVE FALSE
      <4>1. earlier # {} /\ Latest(earlier).side = "source"
        BY <3>1
      <4>2. earlier \in SUBSET Links(u, a)
        OBVIOUS
      <4>3. Latest(earlier) \in earlier /\ \A l \in earlier : l = Latest(earlier) \/ Before(l, Latest(earlier))
        <5>. HIDE DEF earlier
        <5>. QED BY <1>1, <4>1, <4>2, LatestIs
      <4>4. ~Before(o, o)
        BY <1>1, BeforeOrder
      <4>5. Latest(earlier) \in sources
        <5>1. Latest(earlier) \in Links(u, a) /\ Before(Latest(earlier), o)
          BY <4>3
        <5>. HIDE DEF o, earlier
        <5>. QED BY <1>3, <1>5, <4>1, <4>4, <5>1
      <4>6. m \in sources
        <5>. HIDE DEF sources, L
        <5>. QED BY <1>2, <1>6, <4>5, LatestIs
      <4>7. m \in L /\ Before(m, o)
        BY <1>5, <4>6
      <4>. HIDE DEF m, L, o
      <4>8. ~Before(o, m)
        BY <1>1, <1>3, <4>7, BeforeOrder
      <4>9. RightIn(c, L, m)
        BY <1>4, <4>7, <4>8
      <4>. QED BY <1>2, <1>7, <4>5, <4>7, <4>9, StartsAt
    <3>. QED BY <3>1
  <2>2. d = c
    BY <1>7 DEF SourceGone
  <2>3. \A k \in L : RightIn(d, L, k)
    BY <1>3, <1>4, <2>1, <2>2
  <2>. HIDE DEF d
  <2>4. Exact(t, d, a)
    BY <2>3, ExactIs
  <2>. QED BY <2>4 DEF d
<1>8. CASE sources # {} /\ After(c, m) # Null
  <2>1. d = Walk(t, c, a, m, After(c, m), FALSE)
    BY <1>8 DEF SourceGone
  <2>2. m \in sources /\ \A l \in sources : l = m \/ Before(l, m)
    <3>. HIDE DEF sources, L
    <3>. QED BY <1>2, <1>6, <1>8, LatestIs
  <2>3. m \in L /\ m \in earlier /\ Before(m, o)
    BY <1>5, <1>6, <2>2
  <2>4. /\ \A k \in L : k.date \in Int /\ k.id \in Int
        /\ o.date \in Int /\ o.id \in Int
    BY <1>1, <1>2, LinkFields DEF IsChain
  <2>5. follow = {} \/ \A k \in Later(L, m) : Before(o, k)
    <3> SUFFICES ASSUME follow # {}, NEW k \in Later(L, m) PROVE Before(o, k)
      OBVIOUS
    <3>1. earlier # {} /\ Latest(earlier).side = "source"
      OBVIOUS
    <3>2. earlier \in SUBSET Links(u, a)
      OBVIOUS
    <3>3. Latest(earlier) \in earlier /\ \A l \in earlier : l = Latest(earlier) \/ Before(l, Latest(earlier))
      <4>. HIDE DEF earlier
      <4>. QED BY <1>1, <3>1, <3>2, LatestIs
    <3>4. ~Before(o, o)
      BY <1>1, BeforeOrder
    <3>5. Latest(earlier) \in sources
      <4>1. Latest(earlier) \in Links(u, a) /\ Before(Latest(earlier), o)
        BY <3>3
      <4>. HIDE DEF o, earlier
      <4>. QED BY <1>3, <1>5, <3>1, <3>4, <4>1
    <3>6. k \in L /\ Before(m, k) /\ k \in Links(u, a) /\ k # o
      BY <1>3 DEF Later
    <3>7. ASSUME Before(k, o) PROVE FALSE
      <4>1. k \in earlier
        BY <3>6, <3>7
      <4>. HIDE DEF earlier, sources, m, o, L
      <4>2. k = Latest(earlier) \/ Before(k, Latest(earlier))
        BY <3>3, <4>1
      <4>3. Latest(earlier) = m \/ Before(Latest(earlier), m)
        BY <2>2, <3>5
      <4>4. Latest(earlier) \in L
        BY <1>6, <3>5
      <4>. QED BY <2>3, <2>4, <3>6, <4>2, <4>3, <4>4 DEF Before
    <3>. HIDE DEF o
    <3>. QED BY <1>1, <3>6, <3>7, BeforeOrder
  <2>. HIDE DEF m, o, L, d
  <2>6. \A k \in L \ Later(L, m) : RightIn(c, L, k)
    <3> SUFFICES ASSUME NEW k \in L, ~Before(m, k) PROVE RightIn(c, L, k)
      BY DEF Later
    <3>1. m.date \in Int /\ m.id \in Int /\ k.date \in Int /\ k.id \in Int
      BY <2>3, <2>4
    <3>2. ~Before(o, k)
      BY <2>3, <2>4, <3>1 DEF Before
    <3>. QED BY <1>4, <3>2
  <2>7. \A k \in Later(L, m) :
              \/ RightIn(c, L, k)
              \/ \A j \in Later(L, m) : j = k \/ Before(j, k) => GoesOn(c, L, j, FALSE)
    <3>1. CASE follow = {}
      <4>1. \A k \in L : ~Before(o, k)
        BY <1>3, <3>1
      <4>. QED BY <1>4, <4>1 DEF Later
    <3>2. CASE \A k \in Later(L, m) : Before(o, k)
      <4>1. Later(L, m) \subseteq L
        BY DEF Later
      <4>. QED BY <1>4, <3>2, <4>1
    <3>. QED BY <2>5, <3>1, <3>2
  <2>8. After(c, m) = Opening + SumOf(LinkDelta, L \ Later(L, m))
    <3>1. ~Before(o, m)
      BY <2>3, <2>4 DEF Before
    <3>2. RightIn(c, L, m)
      BY <1>4, <2>3, <3>1
    <3>. QED BY <1>2, <2>3, <3>2, StartsAt
  <2>9. L = Links(t, a) /\ m.date \in Int /\ m.id \in Int
    BY <2>3, <2>4 DEF L
  <2>10. \A l \in L : RightIn(Walk(t, c, a, m, After(c, m), FALSE), L, l)
    BY <1>2, <2>6, <2>7, <2>8, <2>9, WalkMakesExact
  <2>11. Exact(t, d, a)
    BY <2>1, <2>9, <2>10, ExactIs
  <2>. QED BY <2>11 DEF d
<1>. QED BY <1>7, <1>8

LEMMA DestinationGoneExact ==
    ASSUME NEW t, ChainTable(t), NEW u, ChainTable(u), NEW i, i \notin DOMAIN t, i \in DOMAIN u, SameBut(t, u, i),
           NEW c \in [DOMAIN t -> [Sides -> Columns]],
           NEW b, b = u[i].to, b # Null,
           NEW e, Exact(u, e, b), \A k \in Links(t, b) : c[k.id][k.side] = e[k.id][k.side],
           NEW place, place = [date |-> u[i].date, id |-> i]
    PROVE  Exact(t, Walk(t, c, b, place, DestinationBefore(t, c, place, b), FALSE), b)
<1> DEFINE o == Link(u, i, "inbound")
           L == Links(t, b)
           start == DestinationBefore(t, c, place, b)
<1>1. b \in ChainAccounts /\ o \in Links(u, b) /\ o.id = i /\ o.date = u[i].date /\ IsChain(Links(u, b))
  BY InboundLink
<1>2. IsChain(L) /\ \A l \in L : l.id \in DOMAIN t /\ l.side \in Sides
  BY <1>1, LinksAre
<1>3. /\ \A k \in L : ~Before(o, k) => RightIn(c, L, k)
      /\ \A k \in L : Before(o, k) => GoesOn(c, L, k, FALSE)
  <2>1. /\ \A k \in L : ~Before(o, k) => RightIn(c, L, k)
        /\ \A k \in L : Before(o, k) => \A fill \in BOOLEAN : GoesOn(c, L, k, fill)
    <3>. HIDE DEF o
    <3>. QED BY <1>1, GoneMends
  <2>. QED BY <2>1
<1>. HIDE DEF o
<1>4. \A k : Before(place, k) <=> Before(o, k)
  BY <1>1 DEF Before
<1>5. place.id = i /\ place.date = o.date /\ o.date \in Int /\ place.id \in Int
  <2>1. o \in LinkSet
    BY <1>1 DEF IsChain
  <2>. QED BY <1>1, <2>1, LinkFields
<1>6. \A k \in L : k.date \in Int /\ k.id \in Int /\ k.id # place.id
  BY <1>2, <1>5, LinkFields DEF IsChain
<1>7. L \ Later(L, place) = Earlier(L, place)
  BY <1>5, <1>6 DEF Later, Earlier, Before
<1>8. \A k \in L \ Later(L, place) : RightIn(c, L, k)
  BY <1>3, <1>4 DEF Later
<1>9. \A k \in Later(L, place) : GoesOn(c, L, k, FALSE)
  BY <1>3, <1>4 DEF Later
<1>10. L = Links(t, b)
  OBVIOUS
<1>. HIDE DEF L
<1>11. start = Opening + SumOf(LinkDelta, L \ Later(L, place))
  <2>1. \A k \in Earlier(L, place) : k.id # place.id /\ RightIn(c, L, k)
    BY <1>6, <1>7, <1>8 DEF Earlier
  <2>2. start = Opening + SumOf(LinkDelta, Earlier(L, place))
    BY <1>2, <1>5, <1>10, <2>1, PreviousIs
  <2>. QED BY <1>7, <2>2
<1>. HIDE DEF start
<1>12. \A l \in L : RightIn(Walk(t, c, b, place, start, FALSE), L, l)
  BY <1>2, <1>5, <1>8, <1>9, <1>10, <1>11, WalkMakesExact
<1>. QED BY <1>10, <1>12, ExactIs DEF start

LEMMA UnhookedType ==
    ASSUME NEW t, ChainTable(t), NEW c \in [DOMAIN t -> [Sides -> Columns]], NEW i, NEW r \in ChainRow,
           NEW d, d = SourceGone(t, c, i, r)
    PROVE  /\ OnlyAt(c, d, DOMAIN t, Links(t, r.from))
           /\ OnlyAt(d, Unhooked(t, c, i, r), DOMAIN t, IF r.to = Null THEN {} ELSE Links(t, r.to))
<1> DEFINE place == [date |-> r.date, id |-> i]
           start == DestinationBefore(t, d, place, r.to)
<1>1. OnlyAt(c, d, DOMAIN t, Links(t, r.from))
  BY SourceGoneIs
<1>2. d \in [DOMAIN t -> [Sides -> Columns]]
  BY <1>1 DEF OnlyAt
<1>3. CASE r.to = Null
  <2>1. Unhooked(t, c, i, r) = d
    BY <1>3, UnhookedParts
  <2>. QED BY <1>1, <1>2, <1>3, <2>1 DEF OnlyAt
<1>4. CASE r.to # Null
  <2>1. r.to \in ChainAccounts
    BY <1>4, ChainRowFields
  <2>2. PICK fill : fill = FALSE
    OBVIOUS
  <2>3. Unhooked(t, c, i, r) = Walk(t, d, r.to, place, start, fill)
    BY <1>4, <2>2, UnhookedParts
  <2>4. start \in Int
    BY <1>2, <2>1, DestinationBeforeType
  <2>5. IsChain(Links(t, r.to))
    BY <2>1, LinksAre
  <2>. HIDE DEF start, place
  <2>6. Walk(t, d, r.to, place, start, fill) \in [DOMAIN t -> [Sides -> Columns]]
    BY <1>2, <2>4, <2>5, WalkType
  <2>7. ASSUME NEW j \in DOMAIN t, NEW s \in Sides, OffChain(Links(t, r.to), j, s)
        PROVE  Walk(t, d, r.to, place, start, fill)[j][s] = d[j][s]
    <3>1. j \in DOMAIN d
      BY <1>2
    <3>. QED BY <2>5, <2>7, <3>1, WalkFrame
  <2>. QED BY <1>1, <1>4, <2>3, <2>6, <2>7 DEF OnlyAt
<1>. QED BY <1>3, <1>4

LEMMA OnlyAtFrame ==
    ASSUME NEW t, ChainTable(t), NEW c, NEW d, NEW L, OnlyAt(c, d, DOMAIN t, L),
           NEW a \in ChainAccounts, L = {} \/ \E b \in ChainAccounts : b # a /\ L = Links(t, b),
           NEW k \in Links(t, a)
    PROVE  d[k.id][k.side] = c[k.id][k.side]
<1>1. k.id \in DOMAIN t /\ k.side \in Sides
  BY LinksAre
<1>2. OffChain(L, k.id, k.side)
  <2>1. CASE L = {}
    BY <2>1 DEF OffChain
  <2>2. CASE \E b \in ChainAccounts : b # a /\ L = Links(t, b)
    <3>1. PICK b \in ChainAccounts : b # a /\ L = Links(t, b)
      BY <2>2
    <3>. QED BY <3>1, OtherLinks
  <2>. QED BY <2>1, <2>2
<1>. QED BY <1>1, <1>2 DEF OnlyAt

LEMMA DeleteTxIs ==
    ASSUME ChainInv, NEW i \in ChainIds, DeleteTx(i)
    PROVE  ChainLeft
<1> DEFINE t == Without(txs, i)
           c == Without(cols, i)
           r == txs[i]
           d == SourceGone(t, c, i, r)
           h == Unhooked(t, c, i, r)
           wrong == Skipped(i)
<1>1. i \in DOMAIN txs /\ txs' = t /\ cols' = h /\ Slip(wrong)
  BY DEF DeleteTx
<1>2. /\ ChainTable(txs) /\ DOMAIN txs \subseteq ChainIds /\ ChainTypeOK
      /\ cols \in [DOMAIN txs -> [Sides -> Columns]]
      /\ \A a \in ChainAccounts \ stale : Exact(txs, cols, a)
  BY ChainTypes DEF ChainInv, ChainKept
<1>3. /\ DOMAIN t = DOMAIN txs \ {i} /\ \A j \in DOMAIN t : t[j] = txs[j]
      /\ DOMAIN c = DOMAIN t /\ \A j \in DOMAIN t : c[j] = cols[j]
  BY <1>2 DEF Without
<1>4. t = [j \in DOMAIN t |-> t[j]] /\ c = [j \in DOMAIN c |-> c[j]]
  BY DEF Without
<1>5. r \in ChainRow
  BY <1>1, <1>2 DEF ChainTable
<1>. HIDE DEF t, c, r
<1>6. /\ ChainTable(t) /\ SameBut(t, txs, i) /\ i \notin DOMAIN t
      /\ c \in [DOMAIN t -> [Sides -> Columns]]
  <2>1. IsFiniteSet(DOMAIN t)
    <3>1. DOMAIN t \in SUBSET DOMAIN txs
      BY <1>3
    <3>. QED BY <1>2, <3>1, FS_Subset DEF ChainTable
  <2>2. t \in [DOMAIN t -> ChainRow]
    <3>1. \A j \in DOMAIN t : t[j] \in ChainRow
      BY <1>2, <1>3 DEF ChainTable
    <3>. QED BY <1>4, <3>1
  <2>3. c \in [DOMAIN t -> [Sides -> Columns]]
    <3>1. \A j \in DOMAIN t : c[j] \in [Sides -> Columns]
      BY <1>2, <1>3
    <3>. QED BY <1>3, <1>4, <3>1
  <2>. QED BY <1>2, <1>3, <2>1, <2>2, <2>3 DEF ChainTable, SameBut
<1>7. wrong \subseteq ChainAccounts
  <2>1. wrong \subseteq {r.from}
    BY DEF Skipped, r
  <2>. QED BY <1>5, <2>1, ChainRowFields
<1>8. stale' = stale \cup wrong /\ stale' \subseteq ChainAccounts /\ slips' \in 0..MaxSlips
  <2>. HIDE DEF wrong
  <2>. QED BY <1>1, <1>2, <1>7, SlipIs
<1>9. /\ OnlyAt(c, d, DOMAIN t, Links(t, r.from))
      /\ OnlyAt(d, h, DOMAIN t, IF r.to = Null THEN {} ELSE Links(t, r.to))
      /\ h \in [DOMAIN t -> [Sides -> Columns]] /\ d \in [DOMAIN t -> [Sides -> Columns]]
  <2>1. /\ OnlyAt(c, d, DOMAIN t, Links(t, r.from))
        /\ OnlyAt(d, h, DOMAIN t, IF r.to = Null THEN {} ELSE Links(t, r.to))
    <3>. HIDE DEF d
    <3>. QED BY <1>5, <1>6, UnhookedType DEF d
  <2>. HIDE DEF h, d
  <2>. QED BY <2>1 DEF OnlyAt
<1>10. ASSUME NEW a \in ChainAccounts, NEW k \in Links(t, a)
       PROVE  /\ k.id \in DOMAIN t
              /\ c[k.id][k.side] = cols[k.id][k.side]
              /\ a # r.from => d[k.id][k.side] = c[k.id][k.side]
              /\ a # r.to => h[k.id][k.side] = d[k.id][k.side]
  <2>0. k.id \in DOMAIN t
    BY <1>6, LinksAre
  <2>1. c[k.id][k.side] = cols[k.id][k.side]
    BY <1>3, <2>0
  <2>. HIDE DEF d, h
  <2>2. ASSUME a # r.from PROVE d[k.id][k.side] = c[k.id][k.side]
    <3>1. r.from \in ChainAccounts
      BY <1>5, ChainRowFields
    <3>. QED BY <1>6, <1>9, <2>2, <3>1, OnlyAtFrame
  <2>3. ASSUME a # r.to PROVE h[k.id][k.side] = d[k.id][k.side]
    <3> DEFINE M == IF r.to = Null THEN {} ELSE Links(t, r.to)
    <3>1. M = {} \/ \E b \in ChainAccounts : b # a /\ M = Links(t, b)
      BY <1>5, <2>3, ChainRowFields
    <3>2. OnlyAt(d, h, DOMAIN t, M)
      BY <1>9
    <3>. HIDE DEF M
    <3>. QED BY <1>6, <3>1, <3>2, OnlyAtFrame
  <2>. QED BY <2>0, <2>1, <2>2, <2>3
<1>11. ASSUME NEW a \in ChainAccounts \ stale' PROVE Exact(t, h, a)
  <2>1. Exact(txs, cols, a) /\ a \notin wrong
    <3>. HIDE DEF wrong
    <3>. QED BY <1>2, <1>8
  <2>2. r.from # r.to
    BY <1>5, ChainRowFields
  <2>3. CASE a = r.from
    <3> DEFINE place == Link(txs, i, "source")
               earlier == {k \in Links(txs, a) : Before(k, place)}
               follow == {k \in Links(txs, a) : Before(place, k)}
    <3>1. follow = {} \/ (earlier # {} /\ Latest(earlier).side = "source")
      <4>1. wrong = IF follow # {} /\ (earlier = {} \/ Latest(earlier).side = "inbound") THEN {a} ELSE {}
        BY <2>3 DEF Skipped, r
      <4>2. earlier # {} => Latest(earlier).side \in Sides
        <5>1. earlier \in SUBSET Links(txs, a) /\ IsChain(Links(txs, a))
          BY <1>2, LinksAre
        <5>. HIDE DEF earlier
        <5>2. earlier # {} => Latest(earlier) \in Links(txs, a)
          BY <5>1, LatestIs
        <5>. QED BY <1>2, <5>2, LinksAre
      <4>. HIDE DEF earlier, follow, wrong
      <4>. QED BY <2>1, <4>1, <4>2 DEF Sides
    <3>2. Exact(t, d, a)
      <4>1. \A k \in Links(t, a) : c[k.id][k.side] = cols[k.id][k.side]
        BY <1>10
      <4>. HIDE DEF d
      <4>. QED BY <1>1, <1>2, <1>6, <2>1, <2>3, <3>1, <4>1, SourceGoneExact DEF d, r
    <3>. HIDE DEF d, h
    <3>3. \A k \in Links(t, a) : h[k.id][k.side] = d[k.id][k.side]
      BY <1>10, <2>2, <2>3
    <3>. QED BY <3>2, <3>3, ExactFrame
  <2>4. CASE a = r.to
    <3> DEFINE place == [date |-> r.date, id |-> i]
    <3>1. a # Null
      BY NullIsNoInt
    <3>2. h = Walk(t, d, a, place, DestinationBefore(t, d, place, a), FALSE)
      BY <2>4, <3>1, UnhookedParts
    <3>. HIDE DEF d, h
    <3>3. \A k \in Links(t, a) : d[k.id][k.side] = cols[k.id][k.side]
      BY <1>10, <2>2, <2>4
    <3>4. Exact(t, Walk(t, d, a, place, DestinationBefore(t, d, place, a), FALSE), a)
      <4>1. a = txs[i].to /\ place = [date |-> txs[i].date, id |-> i]
        BY <2>4 DEF r
      <4>. HIDE DEF place
      <4>. QED BY <1>1, <1>2, <1>6, <1>9, <2>1, <3>1, <3>3, <4>1, DestinationGoneExact
    <3>. QED BY <3>2, <3>4
  <2>5. CASE a # r.from /\ a # r.to
    <3>1. Links(t, a) = Links(txs, a)
      BY <1>1, <1>2, <1>6, <2>5, OthersAgree, OthersAre DEF r
    <3>. HIDE DEF d, h
    <3>2. \A k \in Links(t, a) : h[k.id][k.side] = cols[k.id][k.side]
      BY <1>10, <2>5
    <3>. QED BY <2>1, <3>1, <3>2, ExactIs DEF RightIn
  <2>. QED BY <2>3, <2>4, <2>5
<1>. HIDE DEF h, wrong
<1>. QED BY <1>1, <1>2, <1>3, <1>6, <1>8, <1>9, <1>11 DEF ChainLeft

LEMMA RebuildIs ==
    ASSUME ChainInv, NEW a \in ChainAccounts, Rebuild(a)
    PROVE  ChainLeft
<1> DEFINE L == Links(txs, a)
           h == Written(cols, L, L, Opening)
<1>1. txs' = txs /\ cols' = h /\ stale' = stale \ {a} /\ slips' = slips
  BY DEF Rebuild, Rebuilt
<1>2. /\ ChainTable(txs) /\ DOMAIN txs \subseteq ChainIds /\ stale \subseteq ChainAccounts /\ slips \in 0..MaxSlips
      /\ cols \in [DOMAIN txs -> [Sides -> Columns]]
      /\ \A b \in ChainAccounts \ stale : Exact(txs, cols, b)
  BY ChainTypes DEF ChainInv, ChainKept
<1>3. IsChain(L) /\ \A l \in L : l.id \in DOMAIN txs /\ l.side \in Sides
  BY <1>2, LinksAre
<1>4. L \in SUBSET LinkSet /\ IsFiniteSet(L) /\ \A k, l \in L : k.id = l.id => k = l
  BY <1>3 DEF IsChain
<1>. HIDE DEF L
<1>5. h \in [DOMAIN txs -> [Sides -> Columns]]
  BY <1>2, <1>4, WrittenType, ChainAssumption
<1>6. \A l \in L : RightIn(h, L, l)
  <2> SUFFICES ASSUME NEW l \in L PROVE RightIn(h, L, l)
    OBVIOUS
  <2>1. l.id \in DOMAIN cols /\ l.side \in Sides
    BY <1>2, <1>3
  <2>2. h[l.id][l.side] = Pair(Running(L, Opening, l), l.delta)
    BY <1>4, <2>1, WrittenAt
  <2>. QED BY <2>2 DEF RightIn
<1>7. ASSUME NEW b \in ChainAccounts, b # a, NEW k \in Links(txs, b) PROVE h[k.id][k.side] = cols[k.id][k.side]
  <2>1. k.id \in DOMAIN cols /\ k.side \in Sides
    BY <1>2, LinksAre
  <2>2. OffChain(L, k.id, k.side)
    BY <1>2, <1>7, OtherLinks DEF L
  <2>3. \A l \in L : l.id # k.id \/ l.side # k.side
    BY <2>2 DEF OffChain
  <2>. QED BY <2>1, <2>3, WrittenElse
<1>. HIDE DEF h
<1>8. ASSUME NEW b \in ChainAccounts \ stale' PROVE Exact(txs, h, b)
  <2>1. CASE b = a
    BY <1>6, <2>1, ExactIs DEF L
  <2>2. CASE b # a
    <3>1. Exact(txs, cols, b)
      BY <1>1, <1>2, <2>2
    <3>. QED BY <1>7, <2>2, <3>1, ExactFrame
  <2>. QED BY <2>1, <2>2
<1>. QED BY <1>1, <1>2, <1>5, <1>8 DEF ChainLeft

LEMMA ChainLeftKeeps == ChainLeft => ChainInv'
<1>1. (DOMAIN txs)' = DOMAIN txs'
  OBVIOUS
<1>. QED BY <1>1 DEF ChainLeft, ChainInv, ChainTypeOK, ChainKept, ChainTable

LEMMA CreateTxLeaves ==
    ASSUME ChainInv, NEW i \in ChainIds, NEW r \in ChainRow, CreateTx(i, r)
    PROVE  ChainLeft
<1>1. stale \subseteq ChainAccounts /\ slips \in 0..MaxSlips
  BY ChainTypes DEF ChainInv
<1>. QED BY <1>1, CreateTxIs DEF ChainLeft

LEMMA ChainStarts == ChainInit => ChainInv
<1> SUFFICES ASSUME ChainInit PROVE ChainInv
  OBVIOUS
<1>1. txs = <<>> /\ cols = <<>> /\ stale = {} /\ slips = 0
  BY DEF ChainInit
<1>2. DOMAIN txs = {} /\ txs \in [{} -> ChainRow] /\ cols \in [{} -> [Sides -> Columns]]
  BY <1>1
<1>3. IsFiniteSet(DOMAIN txs)
  BY <1>2, FS_EmptySet
<1>4. ChainTypeOK
  BY <1>1, <1>2, <1>3, ChainAssumption DEF ChainTypeOK
<1>5. ASSUME NEW a \in ChainAccounts PROVE Exact(txs, cols, a)
  <2>1. Links(txs, a) = {}
    BY <1>4, <1>2, ChainTypes, LinksAre
  <2>. QED BY <2>1 DEF Exact
<1>. QED BY <1>4, <1>5 DEF ChainInv, ChainKept

LEMMA ChainSteps == ASSUME ChainInv, [ChainNext]_chainVars PROVE ChainInv'
<1>1. ASSUME NEW i \in ChainIds, NEW r \in ChainRow, CreateTx(i, r) PROVE ChainInv'
  BY <1>1, CreateTxLeaves, ChainLeftKeeps
<1>2. ASSUME NEW i \in ChainIds, NEW r \in ChainRow, CutCreate(i, r) PROVE ChainInv'
  BY <1>2, CutCreateIs, ChainLeftKeeps
<1>3. ASSUME NEW i \in ChainIds, DeleteTx(i) PROVE ChainInv'
  BY <1>3, DeleteTxIs, ChainLeftKeeps
<1>4. ASSUME NEW i \in ChainIds, NEW n \in ChainAmounts, EditAmount(i, n) PROVE ChainInv'
  BY <1>4, EditAmountIs, ChainLeftKeeps
<1>5. ASSUME NEW i \in ChainIds, NEW d \in ChainDates, MoveDate(i, d) PROVE ChainInv'
  BY <1>5, MoveDateIs, ChainLeftKeeps
<1>6. ASSUME NEW a \in ChainAccounts, Rebuild(a) PROVE ChainInv'
  BY <1>6, RebuildIs, ChainLeftKeeps
<1>7. CASE UNCHANGED chainVars
  BY <1>7 DEF chainVars, ChainInv, ChainTypeOK, ChainKept
<1>. QED BY <1>1, <1>2, <1>3, <1>4, <1>5, <1>6, <1>7 DEF ChainNext

LEMMA ChainInductive == ChainSpec => []ChainInv
BY ChainStarts, ChainSteps, PTL DEF ChainSpec

(* A row's two columns on a side are written together or not at all.        *)
THEOREM ChainTypesAreKept == ChainSpec => []ChainTypeOK
<1>1. ChainInv => ChainTypeOK
  BY DEF ChainInv
<1>. QED BY <1>1, ChainInductive, PTL

(* The hook keeps both sides of every row right, at whatever place of the   *)
(* two chains, but on the accounts it is known to leave wrong.              *)
THEOREM ChainIsKept == ChainSpec => []ChainKept
<1>1. ChainInv => ChainKept
  BY DEF ChainInv
<1>. QED BY <1>1, ChainInductive, PTL

(* The healing walk: what was written is right and comes before what was    *)
(* not, and the new row may have its place among either.                    *)
Mended(t, c, i, L, n, K, W) ==
    /\ IsChain(L) /\ n \in L /\ n.id = i /\ K = L \ {n} /\ \A l \in L : l.id \in DOMAIN t
    /\ \A k \in K : After(c, k) = After(cols, k) /\ k.id # i
    /\ \A k \in W : Before(k, n) => RightIn(c, L, k)
    /\ \A k \in W, l \in K \ W : Before(k, l)
    /\ \A k \in L : (k \in W => Before(n, k)) => GoesOn(c, L, k, TRUE)

LEMMA GapMends ==
    ASSUME ChainTypeOK, NEW i \in ChainIds, i \notin DOMAIN txs, NEW r \in ChainRow,
           NEW t, NEW c, Added(t, c, i, r), NEW a, a = r.from, GapOnly(txs, cols, a),
           NEW L, L = Links(t, a), NEW n, n = Link(t, i, "source"),
           NEW K, K = Links(txs, a), NEW W, W = {k \in K : After(cols, k) # Null}
    PROVE  Mended(t, c, i, L, n, K, W)
<1>1. /\ ChainTable(txs) /\ cols \in [DOMAIN txs -> [Sides -> Columns]]
      /\ ChainTable(t) /\ i \in DOMAIN t /\ t[i] = r /\ SameBut(t, txs, i)
      /\ c[i]["source"] = NoColumns
      /\ \A j \in DOMAIN txs, s \in Sides : c[j][s] = cols[j][s]
  BY ChainTypes DEF Added
<1>2. /\ a \in ChainAccounts /\ IsChain(L) /\ n \in L /\ n.id = i /\ n.side = "source" /\ n.delta # 0 /\ n.delta \in Int
      /\ \A l \in L : l.id \in DOMAIN t
  BY <1>1, SourceLink
<1>3. K = L \ {n} /\ n \notin K /\ K \cup {n} = L
  <2>1. K = L \ {n}
    BY <1>1, <1>2, OthersAgree, OthersAre
  <2>. QED BY <1>2, <2>1
<1>4. \A k \in K : /\ k.id \in DOMAIN txs /\ k.side \in Sides /\ k.id # i
                   /\ c[k.id][k.side] = cols[k.id][k.side]
  BY <1>1, <1>2, LinksAre
<1>5. \A k \in K : After(c, k) = After(cols, k)
  BY <1>4 DEF After
<1>6. \A k \in W : RightIn(cols, K, k) /\ \A l \in K \ W : Before(k, l)
  BY DEF GapOnly, Right, RightIn
<1>7. ASSUME NEW k \in W
      PROVE  /\ c[k.id][k.side] = Pair(Running(K, Opening, k), k.delta)
             /\ Running(L, Opening, k) = Running(K, Opening, k) + Gives(n, n.delta, k)
             /\ Running(K, Opening, k) \in Int
  <2>1. k \in K
    OBVIOUS
  <2>2. c[k.id][k.side] = Pair(Running(K, Opening, k), k.delta)
    BY <1>4, <1>6, <2>1 DEF RightIn
  <2>3. IsChain(K \cup {n}) /\ k \in K \cup {n}
    BY <1>2, <1>3, <2>1
  <2>4. K \in SUBSET LinkSet /\ IsFiniteSet(K) /\ n \in LinkSet /\ k \in LinkSet
    BY <1>2, <1>3, <2>3, FS_Subset DEF IsChain
  <2>5. /\ Running(K \cup {n}, Opening, k) = Running(K, Opening, k) + Gives(n, n.delta, k)
        /\ Running(K, Opening, k) \in Int
    BY <1>2, <1>3, <2>3, <2>4, RunningWith
  <2>. QED BY <1>3, <2>2, <2>5
<1>8. ASSUME NEW k \in W, Before(k, n) PROVE RightIn(c, L, k)
  <2>1. ~Before(n, k)
    BY <1>2, <1>3, <1>8, BeforeOrder
  <2>2. Running(L, Opening, k) = Running(K, Opening, k)
    BY <1>7, <2>1 DEF Gives
  <2>. QED BY <1>7, <2>2 DEF RightIn
<1>9. ASSUME NEW k \in L, k \in W => Before(n, k) PROVE GoesOn(c, L, k, TRUE)
  <2>1. CASE k = n
    BY <1>1, <1>2, <2>1 DEF GoesOn, NoColumns
  <2>2. CASE k \in K \ W
    <3>1. c[k.id][k.side] \in Columns /\ c[k.id][k.side].after = Null
      BY <1>1, <1>4, <1>5, <2>2 DEF After
    <3>2. c[k.id][k.side].before = Null
      BY <3>1, ColumnsAre
    <3>. QED BY <3>2 DEF GoesOn
  <2>3. CASE k \in W
    <3>1. c[k.id][k.side].before = Running(K, Opening, k)
      <4>1. c[k.id][k.side] = Pair(Running(K, Opening, k), k.delta)
        BY <1>7, <2>3
      <4>. QED BY <4>1 DEF Pair
    <3>2. Running(L, Opening, k) = Running(K, Opening, k) + n.delta /\ Running(K, Opening, k) \in Int
      BY <1>7, <1>9, <2>3 DEF Gives
    <3>3. c[k.id][k.side].before # Running(L, Opening, k) /\ c[k.id][k.side].before # Null
      BY <1>2, <3>1, <3>2, NullIsNoInt
    <3>. QED BY <3>3 DEF GoesOn
  <2>. QED BY <1>3, <2>1, <2>2, <2>3
<1>10. \A k \in W, l \in K \ W : Before(k, l)
  BY <1>6
<1>. QED BY <1>2, <1>3, <1>4, <1>5, <1>8, <1>9, <1>10 DEF Mended

LEMMA GapHealed ==
    ASSUME ChainTypeOK, NEW i \in ChainIds, i \notin DOMAIN txs, NEW r \in ChainRow,
           NEW t, NEW c, Added(t, c, i, r), NEW a, a = r.from, GapOnly(txs, cols, a),
           NEW n, n = Link(t, i, "source")
    PROVE  Exact(t, Heal(t, c, a, n), a)
<1> DEFINE L == Links(t, a)
           K == Links(txs, a)
           W == {k \in K : After(cols, k) # Null}
           anchors == {k \in L : Before(k, n) /\ k.id # n.id /\ After(c, k) # Null}
           m == Latest(anchors)
<1>1. Mended(t, c, i, L, n, K, W)
  <2>1. L = Links(t, a) /\ K = Links(txs, a) /\ W = {k \in K : After(cols, k) # Null}
    OBVIOUS
  <2>. HIDE DEF L, K, W
  <2>. QED BY <2>1, GapMends
<1>10. /\ IsChain(L) /\ n \in L /\ n.id = i /\ K = L \ {n} /\ \A l \in L : l.id \in DOMAIN t
       /\ \A k \in K : After(c, k) = After(cols, k) /\ k.id # i
       /\ \A k \in W : Before(k, n) => RightIn(c, L, k)
       /\ \A k \in W, l \in K \ W : Before(k, l)
       /\ \A k \in L : (k \in W => Before(n, k)) => GoesOn(c, L, k, TRUE)
  <2>. HIDE DEF L, K, W
  <2>. QED BY <1>1 DEF Mended
<1>2. /\ c \in [DOMAIN t -> [Sides -> Columns]] /\ ChainTable(t)
  BY DEF Added
<1>3. anchors = {k \in W : Before(k, n)}
  BY <1>10
<1>4. L = Links(t, a) /\ a \in ChainAccounts
  BY ChainRowFields
<1>5. \A l \in L : l.date \in Nat /\ l.date \in Int /\ l.id \in Int
  <2> SUFFICES ASSUME NEW l \in L PROVE l.date \in Nat /\ l.id \in Int
    OBVIOUS
  <2>1. l \in LinkSet /\ l.id \in DOMAIN t /\ l.date = t[l.id].date
    BY <1>10, <1>2, <1>4, LinksAre DEF IsChain, Link
  <2>2. t[l.id] \in ChainRow
    BY <1>2, <2>1 DEF ChainTable
  <2>. QED BY <2>1, <2>2, ChainRowFields, LinkFields
<1>6. CASE anchors = {}
  <2>1. Heal(t, c, a, n) = Walk(t, c, a, Start, Opening, TRUE)
    BY <1>6 DEF Heal
  <2>2. \A l \in L : Before(Start, l)
    BY <1>5 DEF Start, Before
  <2>3. Later(L, Start) = L /\ L \ Later(L, Start) = {}
    BY <2>2 DEF Later
  <2>4. \A k \in L : GoesOn(c, L, k, TRUE)
    <3>1. \A k \in W : Before(n, k)
      <4>1. \A k \in W : ~Before(k, n) /\ k \in L /\ k # n
        BY <1>10, <1>3, <1>6
      <4>. HIDE DEF W, L
      <4>. QED BY <1>10, <4>1, BeforeOrder
    <3>. HIDE DEF W, L
    <3>. QED BY <1>10, <3>1
  <2>5. Opening = Opening + SumOf(LinkDelta, L \ Later(L, Start))
    <3>1. SumOf(LinkDelta, {}) = 0
      BY SumEmpty
    <3>2. SumOf(LinkDelta, L \ Later(L, Start)) = SumOf(LinkDelta, {})
      BY <2>3
    <3>. QED BY <3>1, <3>2, ChainAssumption
  <2>6. Start.date \in Int /\ Start.id \in Int
    BY DEF Start
  <2>. HIDE DEF L
  <2>7. \A l \in L : RightIn(Walk(t, c, a, Start, Opening, TRUE), L, l)
    BY <1>10, <1>2, <1>4, <2>3, <2>4, <2>5, <2>6, WalkMakesExact
  <2>. QED BY <1>4, <2>1, <2>7, ExactIs
<1>7. CASE anchors # {}
  <2>1. Heal(t, c, a, n) = Walk(t, c, a, m, After(c, m), TRUE)
    BY <1>7 DEF Heal
  <2>2. m \in anchors /\ \A l \in anchors : l = m \/ Before(l, m)
    <3>1. anchors \in SUBSET L
      OBVIOUS
    <3>. HIDE DEF anchors, L
    <3>. QED BY <1>10, <1>7, <3>1, LatestIs
  <2>3. m \in W /\ m \in L /\ Before(m, n) /\ RightIn(c, L, m)
    BY <1>10, <1>3, <2>2
  <2>4. \A k \in W : Before(k, n) => k = m \/ Before(k, m)
    BY <1>3, <2>2
  <2>. HIDE DEF m, anchors, L, W, K
  <2>5. \A k \in L \ Later(L, m) : RightIn(c, L, k)
    <3> SUFFICES ASSUME NEW k \in L, ~Before(m, k) PROVE RightIn(c, L, k)
      BY DEF Later
    <3>1. k # n /\ k \in K
      BY <1>10, <2>3
    <3>2. k \in W
      BY <1>10, <2>3, <3>1
    <3>3. Before(k, n)
      BY <1>10, <1>5, <2>3 DEF Before
    <3>. QED BY <1>10, <3>2, <3>3
  <2>6. \A k \in Later(L, m) : GoesOn(c, L, k, TRUE)
    <3> SUFFICES ASSUME NEW k \in L, Before(m, k) PROVE GoesOn(c, L, k, TRUE)
      BY DEF Later
    <3>1. k \in W => Before(n, k)
      <4> SUFFICES ASSUME k \in W, ~Before(n, k) PROVE FALSE
        OBVIOUS
      <4>1. k \in K /\ k # n
        BY <1>10 DEF W
      <4>2. Before(k, n)
        BY <1>10, <4>1, BeforeOrder
      <4>3. k = m \/ Before(k, m)
        BY <2>4, <4>2
      <4>. QED BY <1>10, <2>3, <4>3, BeforeOrder
    <3>. QED BY <1>10, <3>1
  <2>7. After(c, m) = Opening + SumOf(LinkDelta, L \ Later(L, m))
    BY <1>10, <2>3, StartsAt
  <2>8. m.date \in Int /\ m.id \in Int
    BY <1>5, <2>3
  <2>9. \A l \in L : RightIn(Walk(t, c, a, m, After(c, m), TRUE), L, l)
    BY <1>10, <1>2, <1>4, <2>5, <2>6, <2>7, <2>8, WalkMakesExact
  <2>. QED BY <1>4, <2>1, <2>9, ExactIs
<1>. QED BY <1>6, <1>7

LEMMA CreateHeals ==
    ASSUME ChainTypeOK, NEW i \in ChainIds, NEW r \in ChainRow, CreateTx(i, r), GapOnly(txs, cols, r.from),
           Previous(txs', cols, r.from, [date |-> r.date, id |-> i]) = Null
    PROVE  Exact(txs', cols', r.from)
<1> DEFINE t == With(txs, i, r)
           c == With(cols, i, Blank)
           a == r.from
           n == Link(t, i, "source")
           place == [date |-> r.date, id |-> i]
<1>1. i \notin DOMAIN txs /\ txs' = t /\ cols' = Hooked(t, c, i)
  BY DEF CreateTx
<1>2. Added(t, c, i, r)
  BY <1>1, NewRow
<1>3. ChainTable(txs) /\ ChainTable(t) /\ i \in DOMAIN t /\ t[i] = r /\ c \in [DOMAIN t -> [Sides -> Columns]]
  BY <1>2, ChainTypes DEF Added
<1>. HIDE DEF t, c
<1>4. a \in ChainAccounts /\ IsChain(Links(t, a)) /\ n.id = i /\ n.date = r.date
  BY <1>3, SourceLink
<1>5. Previous(t, c, a, n) = Null
  <2> DEFINE E == {k \in Links(t, a) : Before(k, n) /\ k.id # n.id}
             m == Latest(E)
  <2>1. E = {k \in Links(t, a) : Before(k, place) /\ k.id # place.id}
    <3>1. \A k : Before(k, n) <=> Before(k, place)
      <4>. HIDE DEF n
      <4>. QED BY <1>4 DEF Before
    <3>. HIDE DEF n
    <3>. QED BY <1>4, <3>1
  <2>2. Previous(t, cols, a, place) = IF E = {} THEN Null ELSE After(cols, m)
    <3>. HIDE DEF n
    <3>. QED BY <2>1 DEF Previous
  <2>3. Previous(t, c, a, n) = IF E = {} THEN Null ELSE After(c, m)
    BY DEF Previous
  <2>4. CASE E # {}
    <3>1. m \in E
      <4>1. E \in SUBSET Links(t, a)
        OBVIOUS
      <4>. HIDE DEF E, n
      <4>. QED BY <1>4, <2>4, <4>1, LatestIs
    <3>2. m.id # i /\ m.id \in DOMAIN t /\ m.side \in Sides
      BY <1>3, <1>4, <3>1, LinksAre
    <3>. HIDE DEF m
    <3>3. m.id \in DOMAIN txs
      BY <1>2, <3>2 DEF Added
    <3>4. After(c, m) = After(cols, m)
      BY <1>2, <3>2, <3>3 DEF Added, After
    <3>. HIDE DEF E, n
    <3>. QED BY <1>1, <2>2, <2>3, <2>4, <3>4
  <2>. HIDE DEF m, n
  <2>. QED BY <2>3, <2>4
<1>6. SourceStep(t, c, i) = Heal(t, c, a, n)
  BY <1>3, <1>5 DEF SourceStep
<1>7. Exact(t, SourceStep(t, c, i), a)
  <2>. HIDE DEF n
  <2>. QED BY <1>1, <1>2, <1>6, GapHealed DEF n
<1>. QED BY <1>1, <1>3, <1>7, HookedSource

(* A row created behind a gap fills it: its own account is right after it,  *)
(* if all that was written of it was, and came before the gap.              *)
THEOREM TheNextCreateHeals == ChainSpec => NextCreateHeals
<1> DEFINE Healing ==
             \A i \in DOMAIN txs' \ DOMAIN txs, r \in ChainRow :
                CreateTx(i, r) /\ GapOnly(txs, cols, r.from)
                /\ Previous(txs', cols, r.from, [date |-> r.date, id |-> i]) = Null
                    => Exact(txs', cols', r.from)
<1>1. ChainInv /\ ChainInv' => [Healing]_chainVars
  <2> SUFFICES ASSUME ChainInv, ChainInv', NEW i \in DOMAIN txs' \ DOMAIN txs, NEW r \in ChainRow,
                      CreateTx(i, r), GapOnly(txs, cols, r.from),
                      Previous(txs', cols, r.from, [date |-> r.date, id |-> i]) = Null
               PROVE  Exact(txs', cols', r.from)
    OBVIOUS
  <2>1. i \in ChainIds
    BY DEF ChainInv, ChainTypeOK
  <2>. QED BY <2>1, CreateHeals DEF ChainInv
<1>. QED BY <1>1, ChainInductive, PTL DEF NextCreateHeals

-----------------------------------------------------------------------------
(* The four of them beside each other. *)

LEMMA HooksAreParts == HooksSpec => Spec /\ ChainSpec /\ HoldingsSpec /\ BudgetSpec
<1>1. HooksInit => Init /\ ChainInit /\ HoldingsInit /\ BudgetInit
  BY DEF HooksInit
<1>2. HooksNext => [Next]_vars
  BY DEF HooksNext, TotalsNext, RunningNext, UnitsNext, LinkedNext
<1>3. HooksNext => [HoldingsNext]_holdingsVars
  BY DEF HooksNext, TotalsNext, RunningNext, UnitsNext, LinkedNext
<1>4. HooksNext => [BudgetNext]_budgetVars
  BY DEF HooksNext, TotalsNext, RunningNext, UnitsNext, LinkedNext
<1>5. HooksNext => [ChainNext]_chainVars
  BY DEF HooksNext, TotalsNext, RunningNext, UnitsNext, LinkedNext
<1>6. UNCHANGED hooksVars =>
        UNCHANGED vars /\ UNCHANGED chainVars /\ UNCHANGED holdingsVars /\ UNCHANGED budgetVars
  BY DEF hooksVars
<1>. QED BY <1>1, <1>2, <1>3, <1>4, <1>5, <1>6, PTL
        DEF HooksSpec, Spec, ChainSpec, HoldingsSpec, BudgetSpec

(* What the backend keeps beside its rows is well typed together: totals,   *)
(* chain, holdings and linked budgets.                                      *)
THEOREM HooksTypesAreKept == ~Overlap => (HooksSpec => []HooksTypeOK)
<1>1. TypeOK /\ ChainTypeOK /\ HoldingsTypeOK /\ BudgetTypeOK => HooksTypeOK
  BY DEF HooksTypeOK
<1>. QED BY <1>1, HooksAreParts, GateTypesAreKept, ChainTypesAreKept, HoldingTypesAreKept,
        BudgetTypesAreKept, PTL

(* Whatever hook a request sets to work, all promises stand together.       *)
THEOREM HooksKeepTheirPromises ==
    ~Overlap => (HooksSpec => /\ ImplementsBook /\ []LinksAreCovered /\ OnlyTheUserLowers
                              /\ HoldingFollowsRows /\ TransfersMoveCost
                              /\ []ChainKept /\ NextCreateHeals)
BY HooksAreParts, GateImplementsBook, BudgetsCoverTheirLinks, OnlyTheUserLowersABudget,
   HoldingsFollowTheirRows, TransfersKeepTheCost, ChainIsKept, TheNextCreateHeals, PTL
=============================================================================
