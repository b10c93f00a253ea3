--------------------------- MODULE ScheduleProofs ---------------------------
(***************************************************************************)
(* The schedule of a recurring item, for any days, prices, rules and       *)
(* payments, any match window and any number of requests in flight: what   *)
(* is settled names its payment, shows it and is in its reach, history is  *)
(* not removed, and a month that was paid is not owed again.               *)
(***************************************************************************)
EXTENDS Schedule, FiniteSetTheorems, TLAPS

-----------------------------------------------------------------------------
(* The tables, as values, in a workload w. *)

RowOf(w) == [status : Statuses, tx : w.txIds \cup {None},
             expected : w.prices, actual : w.prices \cup {None}]
PaymentOf(w) == [link : {"item", "other", None}, day : w.days, amount : w.prices]
RequestOf(w) ==
    [kind : {"pay", "snooze", "skip", "edit", "archive"}, 
     step : {"create", "link", "attach", "write"}, due : w.days \cup {None}, valid : BOOLEAN, expected : w.prices \cup {None},
     amount : w.prices \cup {None}, tx : w.txIds \cup {None}, snoozed : BOOLEAN]

Settled(r) == r.status \in {"PAID", "PARTIAL"}
Steady(w) == w.serial \/ "put" \notin w.requests
Tidy(w) == w.serial /\ w.requests \cap {"deleteItem", "deleteAccount"} = {}

Table(w, s) == DOMAIN s \subseteq w.days /\ s \in [DOMAIN s -> RowOf(w)]
Log(w, t) == DOMAIN t \subseteq w.txIds /\ t \in [DOMAIN t -> PaymentOf(w)]

(* What the row r of the due date d has to do with the payments t. *)
Names(t, r) == r.tx # None => r.tx \in DOMAIN t
Reaches(w, t, r, d) ==
    Steady(w) /\ r.tx # None /\ t[r.tx].link # None => Apart(d, t[r.tx].day) <= MatchWindow
IsPaid(w, r) == Tidy(w) /\ Settled(r) => r.tx # None
Tells(w, t, r) ==
    Tidy(w) /\ Settled(r) /\ t[r.tx].link # None =>
        r.actual = t[r.tx].amount /\ r.status = StatusFor(r.actual, r.expected)
RowOK(w, t, r, d) == Names(t, r) /\ Reaches(w, t, r, d) /\ IsPaid(w, r) /\ Tells(w, t, r)

OneRowEach(s) == \A d, e \in DOMAIN s : s[d].tx # None /\ s[d].tx = s[e].tx => d = e

Sound(w, s, t) ==
    /\ Table(w, s) /\ Log(w, t)
    /\ \A d \in DOMAIN s : RowOK(w, t, s[d], d)
    /\ OneRowEach(s)

(* What a request in flight has read, and what of it is still true: that a  *)
(* payment is for the day that was asked for, that of an income is not      *)
(* linked yet and settles the row asked for or none, and, one request at a  *)
(* time, what the row expects and what the payment comes to.                *)
Paying(r) == r # None /\ r.kind = "pay"
Entered(r) == Paying(r) /\ r.step \in {"link", "attach"}

Asks(w, r) ==
    r # None =>
        /\ r \in RequestOf(w)
        /\ r.kind = "pay" => /\ r.step \in {"create", "link", "attach"} /\ r.due \in w.days
                             /\ r.expected \in w.prices /\ r.amount \in w.prices
                             /\ r.step \in {"link", "attach"} => r.tx \in w.txIds
                             /\ r.step = "attach" => w.income
        /\ r.kind \in {"snooze", "skip"} => r.due \in w.days
ForItsDay(w, t, r) ==
    Steady(w) /\ Entered(r) /\ r.tx \in DOMAIN t /\ (w.income \/ t[r.tx].link # None)
        => t[r.tx].day = r.due
Awaits(w, s, t, r) ==
    w.income /\ Steady(w) /\ Entered(r) =>
        /\ r.tx \in DOMAIN t => t[r.tx].link = None
        /\ \A d \in DOMAIN s : s[d].tx = r.tx => d = r.due /\ r.step = "attach"
AsRead(w, s, t, r) ==
    w.serial =>
        /\ Paying(r) => r.due \in DOMAIN s /\ s[r.due].expected = r.expected
        /\ Entered(r) => r.tx \in DOMAIN t /\ t[r.tx].amount = r.amount
        /\ Entered(r) /\ r.step = "attach" =>
              \A d \in DOMAIN s : s[d].tx = r.tx =>
                  s[d].actual = r.amount /\ s[d].status = StatusFor(r.amount, s[d].expected)
RequestOK(w, s, t, r) == Asks(w, r) /\ ForItsDay(w, t, r) /\ Awaits(w, s, t, r) /\ AsRead(w, s, t, r)

InTurn(w, q) == w.serial => \A h, k \in w.handlers : q[h] # None /\ q[k] # None => h = k
OwnPayments(w, q) ==
    \A h, k \in w.handlers : Entered(q[h]) /\ Entered(q[k]) /\ q[h].tx = q[k].tx => h = k

ScheduleInv ==
    /\ workload \in Workloads
    /\ rule \in Rules /\ price \in Prices /\ archived \in BOOLEAN
    /\ Sound(workload, sched, txs)
    /\ req \in [Handlers -> Request \cup {None}]
    /\ \A h \in Handlers : RequestOK(workload, sched, txs, req[h])
    /\ InTurn(workload, req) /\ OwnPayments(workload, req)

LEMMA WorkloadFacts ==
    ASSUME NEW w \in Workloads
    PROVE  /\ w.days \subseteq Nat \ {0} /\ w.prices \subseteq Nat \ {0}
           /\ w.rules \subseteq SUBSET w.days
           /\ None \notin w.txIds /\ None \notin w.days /\ None \notin w.prices
           /\ None # "item"
           /\ w.serial \in BOOLEAN /\ w.income \in BOOLEAN
           /\ MatchWindow \in Nat
BY ScheduleAssumption

LEMMA TypesOfWorkload == Row = RowOf(workload) /\ Payment = PaymentOf(workload) /\ Request = RequestOf(workload)
BY DEF Row, RowOf, Payment, PaymentOf, Request, RequestOf, Days, Prices, TxIds

-----------------------------------------------------------------------------
(* What becomes of the rows. *)

(* A payment that no row names may change or go. *)
Put(t, i, p) == [j \in DOMAIN t \cup {i} |-> IF j = i THEN p ELSE t[j]]
Unused(s, i) == \A d \in DOMAIN s : s[d].tx # i

LEMMA LogPut ==
    ASSUME NEW w, NEW t, Log(w, t), NEW i \in w.txIds, NEW p \in PaymentOf(w)
    PROVE  Log(w, Put(t, i, p))
BY DEF Log, Put

LEMMA RowKept ==
    ASSUME NEW w, NEW t, NEW u, NEW r, NEW d, RowOK(w, t, r, d),
           r.tx # None => r.tx \in DOMAIN u /\ u[r.tx] = t[r.tx]
    PROVE  RowOK(w, u, r, d)
<1>1. Names(u, r) /\ Reaches(w, u, r, d) /\ IsPaid(w, r)
  BY DEF RowOK, Names, Reaches, IsPaid
<1>2. Tells(w, u, r)
  BY DEF RowOK, IsPaid, Tells
<1>. QED BY <1>1, <1>2 DEF RowOK

LEMMA PutUnused ==
    ASSUME NEW w, NEW s, NEW t, Sound(w, s, t), NEW i \in w.txIds, NEW p \in PaymentOf(w), Unused(s, i)
    PROVE  Sound(w, s, Put(t, i, p))
<1>1. Log(w, Put(t, i, p))
  BY LogPut DEF Sound
<1>2. ASSUME NEW d \in DOMAIN s PROVE RowOK(w, Put(t, i, p), s[d], d)
  <2>1. s[d].tx # i /\ RowOK(w, t, s[d], d)
    BY DEF Unused, Sound
  <2>2. s[d].tx # None => s[d].tx \in DOMAIN t
    BY <2>1 DEF RowOK, Names
  <2>3. s[d].tx # None => s[d].tx \in DOMAIN Put(t, i, p) /\ Put(t, i, p)[s[d].tx] = t[s[d].tx]
    BY <2>1, <2>2 DEF Put
  <2>. QED BY <2>1, <2>3, RowKept
<1>. QED BY <1>1, <1>2 DEF Sound

LEMMA DropUnused ==
    ASSUME NEW w, NEW s, NEW t, Sound(w, s, t), NEW S, \A i \in S : Unused(s, i),
           NEW u, u = [j \in DOMAIN t \ S |-> t[j]]
    PROVE  Sound(w, s, u)
<1>1. Log(w, u)
  BY DEF Sound, Log
<1>2. ASSUME NEW d \in DOMAIN s PROVE RowOK(w, u, s[d], d)
  <2>1. s[d].tx \notin S /\ RowOK(w, t, s[d], d)
    BY DEF Unused, Sound
  <2>2. s[d].tx # None => s[d].tx \in DOMAIN t
    BY <2>1 DEF RowOK, Names
  <2>3. s[d].tx # None => s[d].tx \in DOMAIN u /\ u[s[d].tx] = t[s[d].tx]
    BY <2>1, <2>2
  <2>. QED BY <2>1, <2>3, RowKept
<1>. QED BY <1>1, <1>2 DEF Sound

(* One row is rewritten, and its payment is no other row's. *)
LEMMA RowWritten ==
    ASSUME NEW w, NEW s, NEW t, Sound(w, s, t), NEW d \in DOMAIN s, NEW r \in RowOf(w),
           RowOK(w, t, r, d), \A e \in DOMAIN s : r.tx # None /\ s[e].tx = r.tx => e = d,
           NEW v, v = [s EXCEPT ![d] = r]
    PROVE  Sound(w, v, t)
<1>1. DOMAIN v = DOMAIN s /\ v[d] = r /\ \A e \in DOMAIN s \ {d} : v[e] = s[e]
  BY DEF Sound, Table
<1>2. Table(w, v)
  BY <1>1 DEF Sound, Table
<1>3. \A e \in DOMAIN v : RowOK(w, t, v[e], e)
  BY <1>1 DEF Sound
<1>4. OneRowEach(v)
  BY <1>1 DEF Sound, OneRowEach
<1>. QED BY <1>2, <1>3, <1>4 DEF Sound

-----------------------------------------------------------------------------
(* The matcher. *)

AttachedRow(r, i, amount) ==
    [r EXCEPT !.tx = i, !.actual = amount, !.status = StatusFor(amount, r.expected)]

LEMMA AttachedIs ==
    ASSUME NEW w, NEW s, Table(w, s), NEW d \in DOMAIN s, NEW i, NEW amount
    PROVE  Attached(s, d, i, amount) = [s EXCEPT ![d] = AttachedRow(s[d], i, amount)]
<1> DEFINE v == Attached(s, d, i, amount)
           u == [s EXCEPT ![d] = AttachedRow(s[d], i, amount)]
<1>1. s = [e \in DOMAIN s |-> s[e]]
  BY DEF Table
<1>2. DOMAIN v = DOMAIN s /\ v = [e \in DOMAIN s |-> v[e]]
  BY <1>1 DEF Attached
<1>3. DOMAIN u = DOMAIN s /\ u = [e \in DOMAIN s |-> u[e]]
  BY <1>1
<1>4. \A e \in DOMAIN s : v[e] = u[e]
  BY <1>1 DEF Attached, AttachedRow
<1>. HIDE DEF v, u
<1>5. v = u
  BY <1>2, <1>3, <1>4
<1>. QED BY <1>5 DEF v, u

LEMMA AttachedFields ==
    ASSUME NEW w \in Workloads, NEW r \in RowOf(w), NEW i \in w.txIds, NEW amount \in w.prices
    PROVE  LET v == AttachedRow(r, i, amount)
           IN  /\ v \in RowOf(w) /\ v.tx = i /\ v.actual = amount /\ v.expected = r.expected
               /\ v.status = StatusFor(amount, r.expected)
               /\ i # None
<1>1. StatusFor(amount, r.expected) \in Statuses
  BY DEF StatusFor, Statuses
<1>2. i # None
  BY WorkloadFacts
<1>. QED BY <1>1, <1>2 DEF RowOf, AttachedRow

(* A row takes a payment that is within its reach and that no other has.    *)
LEMMA AttachedSound ==
    ASSUME NEW w \in Workloads, NEW s, NEW t, Sound(w, s, t), NEW d \in DOMAIN s,
           NEW i \in DOMAIN t, \A e \in DOMAIN s : s[e].tx = i => e = d,
           NEW amount \in w.prices, Tidy(w) => t[i].amount = amount,
           Steady(w) /\ t[i].link # None => Apart(d, t[i].day) <= MatchWindow
    PROVE  Sound(w, Attached(s, d, i, amount), t)
<1> DEFINE r == AttachedRow(s[d], i, amount)
<1>1. s[d] \in RowOf(w) /\ i \in w.txIds
  BY DEF Sound, Table, Log
<1>2. /\ r \in RowOf(w) /\ r.tx = i /\ r.actual = amount /\ r.expected = s[d].expected
      /\ r.status = StatusFor(amount, s[d].expected)
      /\ i # None
  BY <1>1, AttachedFields
<1>. HIDE DEF r
<1>3. RowOK(w, t, r, d)
  BY <1>2 DEF RowOK, Names, Reaches, IsPaid, Tells
<1>4. Attached(s, d, i, amount) = [s EXCEPT ![d] = r]
  BY AttachedIs DEF Sound, r
<1>. QED BY <1>2, <1>3, <1>4, RowWritten, ZenonT(40)

LEMMA CandidatesReach ==
    ASSUME NEW w \in Workloads, NEW s, Table(w, s), NEW day \in w.days, NEW d \in Closest(s, day)
    PROVE  d \in DOMAIN s /\ s[d].status = "PENDING" /\ Apart(d, day) <= MatchWindow
<1>1. d \in Pending(s) /\ day - MatchWindow <= d /\ d < day + MatchWindow
  BY DEF Closest, Candidates
<1>2. d \in DOMAIN s /\ s[d].status = "PENDING"
  BY <1>1 DEF Pending
<1>3. d \in Nat /\ day \in Nat /\ MatchWindow \in Nat
  BY <1>2, WorkloadFacts DEF Table
<1>. QED BY <1>1, <1>2, <1>3 DEF Apart

(* A payment linked to no row is entered or written, and matched.           *)
LEMMA MatchedSound ==
    ASSUME NEW w \in Workloads, NEW s, NEW t, Sound(w, s, t), NEW i \in w.txIds, Unused(s, i),
           NEW p \in PaymentOf(w), NEW v \in OnCreated(s, i, p.day, p.amount)
    PROVE  /\ Sound(w, v, Put(t, i, p))
           /\ DOMAIN v = DOMAIN s
           /\ \A d \in DOMAIN s : v[d].expected = s[d].expected /\ v[d].tx \in {s[d].tx, i}
<1>1. Sound(w, s, Put(t, i, p))
  BY PutUnused
<1>2. CASE v = s
  BY <1>1, <1>2
<1>3. CASE v # s
  <2>1. PICK d \in Closest(s, p.day) : v = Attached(s, d, i, p.amount)
    BY <1>3 DEF OnCreated
  <2>2. p.day \in w.days /\ p.amount \in w.prices
    BY DEF PaymentOf
  <2>3. d \in DOMAIN s /\ Apart(d, p.day) <= MatchWindow
    BY <2>2, CandidatesReach DEF Sound
  <2> DEFINE u == Put(t, i, p)
  <2>4. i \in DOMAIN u /\ u[i] = p
    BY DEF Put
  <2>. HIDE DEF u
  <2>5. Sound(w, s, u) /\ \A e \in DOMAIN s : s[e].tx = i => e = d
    BY <1>1 DEF Unused, u
  <2>6. Sound(w, v, u)
    BY <2>1, <2>2, <2>3, <2>4, <2>5, AttachedSound
  <2>7. v = [s EXCEPT ![d] = AttachedRow(s[d], i, p.amount)]
    BY <2>1, <2>3, AttachedIs DEF Sound
  <2>8. /\ AttachedRow(s[d], i, p.amount).expected = s[d].expected
        /\ AttachedRow(s[d], i, p.amount).tx = i
    <3>1. s[d] \in RowOf(w)
      BY <2>3 DEF Sound, Table
    <3>. QED BY <2>2, <3>1, AttachedFields
  <2>9. DOMAIN v = DOMAIN s /\ \A e \in DOMAIN s : v[e].expected = s[e].expected /\ v[e].tx \in {s[e].tx, i}
    BY <2>3, <2>7, <2>8
  <2>. QED BY <2>6, <2>9 DEF u
<1>. QED BY <1>2, <1>3

(* The rows of a payment are released. *)
LEMMA ReleasedSound ==
    ASSUME NEW w \in Workloads, NEW s, NEW t, Sound(w, s, t), NEW i \in w.txIds
    PROVE  /\ Sound(w, Released(s, i), t) /\ Unused(Released(s, i), i)
           /\ DOMAIN Released(s, i) = DOMAIN s
           /\ \A d \in DOMAIN s : Released(s, i)[d].tx \in {s[d].tx, None}
<1> DEFINE v == Released(s, i)
<1>1. DOMAIN v = DOMAIN s /\ v = [d \in DOMAIN s |-> v[d]]
  BY DEF Released
<1>2. i # None
  BY WorkloadFacts
<1>3. ASSUME NEW d \in DOMAIN s
      PROVE  /\ v[d] \in RowOf(w) /\ RowOK(w, t, v[d], d)
             /\ v[d].tx # i /\ (v[d].tx # None => v[d].tx = s[d].tx)
  <2>1. s[d] \in RowOf(w) /\ RowOK(w, t, s[d], d)
    BY DEF Sound, Table
  <2>2. CASE s[d].tx = i
    <3> DEFINE r == [s[d] EXCEPT !.status = "PENDING", !.tx = None, !.actual = None]
    <3>1. v[d] = r
      BY <2>2 DEF Released
    <3>2. r \in RowOf(w) /\ r.tx = None /\ r.status = "PENDING"
      BY <2>1 DEF RowOf, Statuses
    <3>. HIDE DEF r
    <3>3. RowOK(w, t, r, d)
      BY <3>2 DEF RowOK, Names, Reaches, IsPaid, Tells, Settled
    <3>. QED BY <1>2, <3>1, <3>2, <3>3
  <2>3. CASE s[d].tx # i
    <3>1. v[d] = s[d]
      BY <2>3 DEF Released
    <3>. QED BY <2>1, <2>3, <3>1
  <2>. QED BY <2>2, <2>3
<1>. HIDE DEF v
<1>4. Table(w, v) /\ OneRowEach(v)
  <2>1. Table(w, v)
    BY <1>1, <1>3 DEF Sound, Table
  <2>2. OneRowEach(v)
    BY <1>1, <1>3 DEF Sound, OneRowEach
  <2>. QED BY <2>1, <2>2
<1>5. Sound(w, v, t) /\ Unused(v, i) /\ \A d \in DOMAIN s : v[d].tx \in {s[d].tx, None}
  BY <1>1, <1>3, <1>4 DEF Sound, Unused
<1>. QED BY <1>1, <1>5 DEF v

(* The row of a payment is refreshed, when it is still in reach.            *)
LEMMA RefreshedSound ==
    ASSUME NEW w \in Workloads, NEW s, NEW t, Sound(w, s, t), NEW i \in w.txIds, NEW p \in PaymentOf(w),
           NEW d \in DOMAIN s, s[d].tx = i, Apart(d, p.day) <= MatchWindow,
           NEW v, v = Refreshed(s, i, p.amount)
    PROVE  Sound(w, v, Put(t, i, p)) /\ DOMAIN v = DOMAIN s
<1> DEFINE r == AttachedRow(s[d], i, p.amount)
           u == Put(t, i, p)
<1>1. i # None /\ \A e \in DOMAIN s : s[e].tx = i => e = d
  BY WorkloadFacts DEF Sound, OneRowEach
<1>2. p.amount \in w.prices /\ s[d] \in RowOf(w)
  BY DEF PaymentOf, Sound, Table
<1>3. /\ r \in RowOf(w) /\ r.tx = i /\ r.actual = p.amount /\ r.expected = s[d].expected
      /\ r.status = StatusFor(p.amount, s[d].expected)
  BY <1>2, AttachedFields
<1>4. Attached(s, d, i, p.amount)[d] = r
  BY AttachedIs DEF Sound, Table
<1>5. Log(w, u) /\ i \in DOMAIN u /\ u[i] = p /\ \A j \in DOMAIN t \ {i} : j \in DOMAIN u /\ u[j] = t[j]
  BY LogPut DEF Sound, Put
<1>. HIDE DEF r, u
<1>6. DOMAIN v = DOMAIN s /\ v[d] = r /\ \A e \in DOMAIN s \ {d} : v[e] = s[e]
  BY <1>1, <1>4 DEF Refreshed
<1>7. Table(w, v)
  <2>1. v = [e \in DOMAIN v |-> v[e]]
    BY DEF Refreshed
  <2>. QED BY <1>3, <1>6, <2>1 DEF Sound, Table
<1>8. ASSUME NEW e \in DOMAIN s PROVE RowOK(w, u, v[e], e)
  <2>1. CASE e = d
    <3>1. v[e] = r /\ u[r.tx] = p /\ r.tx \in DOMAIN u /\ r.tx # None
      BY <1>1, <1>3, <1>5, <1>6, <2>1
    <3>2. Tells(w, u, r)
      BY <1>3, <3>1 DEF Tells
    <3>3. Names(u, r) /\ Reaches(w, u, r, d) /\ IsPaid(w, r)
      BY <3>1 DEF Names, Reaches, IsPaid
    <3>. QED BY <2>1, <3>1, <3>2, <3>3 DEF RowOK
  <2>2. CASE e # d
    <3>1. v[e] = s[e] /\ s[e].tx # i /\ RowOK(w, t, s[e], e)
      BY <1>1, <1>6, <2>2 DEF Sound
    <3>2. s[e].tx # None => s[e].tx \in DOMAIN u /\ u[s[e].tx] = t[s[e].tx]
      BY <1>5, <3>1 DEF RowOK, Names
    <3>. QED BY <3>1, <3>2, RowKept
  <2>. QED BY <2>1, <2>2
<1>9. OneRowEach(v)
  BY <1>1, <1>3, <1>6 DEF Sound, OneRowEach
<1>. QED BY <1>5, <1>6, <1>7, <1>8, <1>9 DEF Sound, u

(* A row in reach is refreshed, one that has drifted is released.           *)
LEMMA KeptInReach ==
    ASSUME NEW w \in Workloads, NEW s, NEW t, Sound(w, s, t), NEW i \in w.txIds, NEW p \in PaymentOf(w),
           ~Drifted(s, i, p.day)
    PROVE  Sound(w, Refreshed(s, i, p.amount), Put(t, i, p)) /\ DOMAIN Refreshed(s, i, p.amount) = DOMAIN s
<1>1. CASE LinkedTo(s, i) = {}
  <2>1. Unused(s, i) /\ s = [d \in DOMAIN s |-> s[d]]
    BY <1>1 DEF LinkedTo, Unused, Sound, Table
  <2>2. Refreshed(s, i, p.amount) = s
    BY <2>1 DEF Refreshed, Unused
  <2>. QED BY <2>1, <2>2, PutUnused
<1>2. CASE LinkedTo(s, i) # {}
  <2>1. PICK d \in DOMAIN s : s[d].tx = i /\ ~(Apart(d, p.day) > MatchWindow)
    BY <1>2 DEF LinkedTo, Drifted
  <2>2. Apart(d, p.day) <= MatchWindow
    <3>1. d \in Nat /\ p.day \in Nat /\ MatchWindow \in Nat
      BY WorkloadFacts DEF Sound, Table, PaymentOf
    <3>2. Apart(d, p.day) \in Int
      BY <3>1 DEF Apart
    <3>. QED BY <2>1, <3>1, <3>2
  <2>. QED BY <2>1, <2>2, RefreshedSound
<1>. QED BY <1>1, <1>2

LEMMA UpdatedSound ==
    ASSUME NEW w \in Workloads, NEW s, NEW t, Sound(w, s, t), NEW i \in w.txIds,
           NEW p \in PaymentOf(w), NEW v \in OnUpdated(s, i, p.day, p.amount)
    PROVE  Sound(w, v, Put(t, i, p)) /\ DOMAIN v = DOMAIN s
<1>1. CASE LinkedTo(s, i) = {}
  <2>1. Unused(s, i) /\ v \in OnCreated(s, i, p.day, p.amount)
    BY <1>1 DEF OnUpdated, LinkedTo, Unused
  <2>. QED BY <2>1, MatchedSound
<1>2. CASE LinkedTo(s, i) # {} /\ Drifted(s, i, p.day)
  <2> DEFINE r == Released(s, i)
  <2>1. v \in OnCreated(r, i, p.day, p.amount)
    BY <1>2 DEF OnUpdated
  <2>2. Sound(w, r, t) /\ Unused(r, i) /\ DOMAIN r = DOMAIN s
    BY ReleasedSound
  <2>. HIDE DEF r
  <2>. QED BY <2>1, <2>2, MatchedSound
<1>3. CASE LinkedTo(s, i) # {} /\ ~Drifted(s, i, p.day)
  <2>1. v = Refreshed(s, i, p.amount)
    BY <1>3 DEF OnUpdated
  <2>. QED BY <1>3, <2>1, KeptInReach
<1>. QED BY <1>1, <1>2, <1>3

-----------------------------------------------------------------------------
(* The routes and the generator. *)

(* Each row is new and has no payment, or keeps the one it had.             *)
LEMMA RowsSound ==
    ASSUME NEW w, NEW s, NEW t, Sound(w, s, t), NEW v, v = [d \in DOMAIN v |-> v[d]],
           DOMAIN v \subseteq w.days,
           \A d \in DOMAIN v : /\ v[d] \in RowOf(w) /\ RowOK(w, t, v[d], d)
                               /\ v[d].tx = None \/ (d \in DOMAIN s /\ v[d].tx = s[d].tx)
    PROVE  Sound(w, v, t)
<1>1. Table(w, v)
  BY DEF Table
<1>2. OneRowEach(v)
  BY DEF Sound, OneRowEach
<1>. QED BY <1>1, <1>2 DEF Sound

(* A row without a payment that is not settled owes nothing to anyone.      *)
LEMMA BareRow ==
    ASSUME NEW w, NEW t, NEW r, NEW d, r.tx = None, ~Settled(r)
    PROVE  RowOK(w, t, r, d)
BY DEF RowOK, Names, Reaches, IsPaid, Tells

LEMMA UnlinkedSound ==
    ASSUME NEW w, NEW s, NEW t, Sound(w, s, t), NEW i \in DOMAIN t, NEW p \in PaymentOf(w),
           p.link = None
    PROVE  Sound(w, s, Put(t, i, p))
<1> DEFINE u == Put(t, i, p)
<1>1. Log(w, u)
  BY LogPut DEF Sound, Log
<1>2. DOMAIN u = DOMAIN t /\ u[i] = p /\ \A j \in DOMAIN t \ {i} : u[j] = t[j]
  BY DEF Put
<1>. HIDE DEF u
<1>3. ASSUME NEW d \in DOMAIN s PROVE RowOK(w, u, s[d], d)
  <2>1. RowOK(w, t, s[d], d)
    BY DEF Sound
  <2>2. Names(u, s[d]) /\ IsPaid(w, s[d])
    BY <1>2, <2>1 DEF RowOK, Names, IsPaid
  <2>3. Tells(w, u, s[d])
    BY <1>2, <2>1 DEF RowOK, IsPaid, Names, Tells
  <2>4. Reaches(w, u, s[d], d)
    BY <1>2, <2>1 DEF RowOK, Names, Reaches
  <2>. QED BY <2>2, <2>3, <2>4 DEF RowOK
<1>. QED BY <1>1, <1>3 DEF Sound, u

(* The rows of an account go, and the links to them.                        *)
LEMMA ClearedSound ==
    ASSUME NEW w \in Workloads, NEW s, NEW t, Sound(w, s, t), NEW ids, ~Tidy(w),
           NEW v, v = [d \in DOMAIN s |-> IF s[d].tx \in ids THEN [s[d] EXCEPT !.tx = None] ELSE s[d]],
           NEW u, u = [j \in DOMAIN t \ ids |-> t[j]]
    PROVE  Sound(w, v, u) /\ DOMAIN v = DOMAIN s /\ \A d \in DOMAIN s : v[d].tx \in {s[d].tx, None}
<1>1. Log(w, u)
  BY DEF Sound, Log
<1>2. ASSUME NEW d \in DOMAIN s
      PROVE  v[d] \in RowOf(w) /\ RowOK(w, u, v[d], d) /\ (v[d].tx # None => v[d].tx = s[d].tx)
  <2>1. s[d] \in RowOf(w) /\ RowOK(w, t, s[d], d)
    BY DEF Sound, Table
  <2>2. CASE s[d].tx \in ids
    <3> DEFINE r == [s[d] EXCEPT !.tx = None]
    <3>1. v[d] = r /\ r \in RowOf(w) /\ r.tx = None
      BY <2>1, <2>2 DEF RowOf
    <3>. HIDE DEF r
    <3>2. RowOK(w, u, r, d)
      BY <3>1 DEF RowOK, Names, Reaches, IsPaid, Tells
    <3>. QED BY <3>1, <3>2
  <2>3. CASE s[d].tx \notin ids
    <3>1. v[d] = s[d]
      BY <2>3
    <3>2. s[d].tx # None => s[d].tx \in DOMAIN u /\ u[s[d].tx] = t[s[d].tx]
      BY <2>1, <2>3 DEF RowOK, Names
    <3>. QED BY <2>1, <3>1, <3>2, RowKept
  <2>. QED BY <2>2, <2>3
<1>3. DOMAIN v = DOMAIN s /\ v = [d \in DOMAIN v |-> v[d]]
  OBVIOUS
<1>4. Table(w, v) /\ OneRowEach(v)
  BY <1>2, <1>3, ZenonT(40) DEF Sound, Table, OneRowEach
<1>. QED BY <1>1, <1>2, <1>3, <1>4 DEF Sound

(* Rows are deferred: snoozed or skipped, and nothing else of them changes. *)
Deferred(r, q) == r = q \/ \E st \in {"SNOOZED", "SKIPPED"} : r = [q EXCEPT !.status = st]

LEMMA DeferredSound ==
    ASSUME NEW w, NEW s, NEW t, Sound(w, s, t), NEW v, v = [d \in DOMAIN v |-> v[d]],
           DOMAIN v = DOMAIN s, \A d \in DOMAIN s : Deferred(v[d], s[d])
    PROVE  Sound(w, v, t) /\ \A d \in DOMAIN s : v[d].tx = s[d].tx
<1>1. ASSUME NEW d \in DOMAIN s
      PROVE  v[d] \in RowOf(w) /\ RowOK(w, t, v[d], d) /\ v[d].tx = s[d].tx
  <2>1. s[d] \in RowOf(w) /\ RowOK(w, t, s[d], d)
    BY DEF Sound, Table
  <2>2. CASE v[d] = s[d]
    BY <2>1, <2>2
  <2>3. CASE v[d] # s[d]
    <3>1. PICK st \in {"SNOOZED", "SKIPPED"} : v[d] = [s[d] EXCEPT !.status = st]
      BY <2>3 DEF Deferred
    <3> DEFINE r == [s[d] EXCEPT !.status = st]
    <3>2. r \in RowOf(w) /\ r.tx = s[d].tx /\ r.status = st
      BY <2>1 DEF RowOf, Statuses
    <3>. HIDE DEF r
    <3>3. ~Settled(r)
      BY <3>2 DEF Settled
    <3>4. RowOK(w, t, r, d)
      BY <2>1, <3>2, <3>3 DEF RowOK, Names, Reaches, IsPaid, Tells
    <3>. QED BY <3>1, <3>2, <3>4 DEF r
  <2>. QED BY <2>2, <2>3
<1>2. DOMAIN v \subseteq w.days
  BY DEF Sound, Table
<1>. QED BY <1>1, <1>2, RowsSound

(* The last statement of pay. *)
PaidRows(s, d, i, amount, expected) ==
    [s EXCEPT ![d].tx = i, ![d].actual = amount, ![d].status = StatusFor(amount, expected)]

MayPay(w, s, t, d, i, amount, expected) ==
    /\ i \in DOMAIN t /\ amount \in w.prices /\ expected \in w.prices
    /\ LinkedTo(s, i) \subseteq {d}
    /\ Tidy(w) => t[i].amount = amount /\ (d \in DOMAIN s => expected = s[d].expected)
    /\ Steady(w) /\ t[i].link # None => Apart(d, t[i].day) <= MatchWindow

LEMMA PaidSound ==
    ASSUME NEW w \in Workloads, NEW s, NEW t, Sound(w, s, t), NEW d, NEW i,
           NEW amount, NEW expected, MayPay(w, s, t, d, i, amount, expected),
           NEW v, v = PaidRows(s, d, i, amount, expected)
    PROVE  /\ Sound(w, v, t) /\ DOMAIN v = DOMAIN s
           /\ \A e \in DOMAIN s : e # d => v[e] = s[e]
           /\ d \in DOMAIN s => /\ v[d].tx = i /\ v[d].actual = amount /\ v[d].expected = s[d].expected
                                /\ v[d].status = StatusFor(amount, expected)
<1>0. /\ i \in DOMAIN t /\ amount \in w.prices /\ expected \in w.prices
      /\ LinkedTo(s, i) \subseteq {d}
      /\ Tidy(w) => t[i].amount = amount /\ (d \in DOMAIN s => expected = s[d].expected)
      /\ Steady(w) /\ t[i].link # None => Apart(d, t[i].day) <= MatchWindow
  BY DEF MayPay
<1>1. s = [e \in DOMAIN s |-> s[e]]
  BY DEF Sound, Table
<1>2. CASE d \notin DOMAIN s
  BY <1>1, <1>2 DEF PaidRows
<1>3. CASE d \in DOMAIN s
  <2> DEFINE r == [s[d] EXCEPT !.tx = i, !.actual = amount, !.status = StatusFor(amount, expected)]
             u == [s EXCEPT ![d] = r]
  <2>1. s[d] \in RowOf(w) /\ i \in w.txIds /\ i # None
    BY <1>0, <1>3, WorkloadFacts DEF Sound, Table, Log
  <2>2. StatusFor(amount, expected) \in Statuses
    BY DEF StatusFor, Statuses
  <2>3. /\ r \in RowOf(w) /\ r.tx = i /\ r.actual = amount /\ r.expected = s[d].expected
        /\ r.status = StatusFor(amount, expected)
    BY <1>0, <2>1, <2>2 DEF RowOf
  <2>4. DOMAIN v = DOMAIN s /\ DOMAIN u = DOMAIN s /\ v = [e \in DOMAIN s |-> v[e]]
        /\ u = [e \in DOMAIN s |-> u[e]]
    BY <1>1 DEF PaidRows
  <2>5. \A e \in DOMAIN s : v[e] = u[e]
    BY <1>1, <1>3 DEF PaidRows
  <2>6. v = u
    <3>. HIDE DEF u
    <3>. QED BY <2>4, <2>5
  <2>. HIDE DEF r
  <2>7. \A e \in DOMAIN s : s[e].tx = i => e = d
    BY <1>0 DEF LinkedTo
  <2>8. RowOK(w, t, r, d)
    <3>1. Tells(w, t, r)
      BY <1>0, <1>3, <2>3 DEF Tells
    <3>2. Names(t, r) /\ Reaches(w, t, r, d) /\ IsPaid(w, r)
      BY <1>0, <2>1, <2>3 DEF Names, Reaches, IsPaid
    <3>. QED BY <3>1, <3>2 DEF RowOK
  <2>9. Sound(w, u, t)
    BY <1>3, <2>3, <2>7, <2>8, RowWritten
  <2>10. u[d] = r /\ \A e \in DOMAIN s : e # d => u[e] = s[e]
    BY <1>1, <1>3
  <2>. QED BY <2>3, <2>4, <2>6, <2>9, <2>10
<1>. QED BY <1>2, <1>3

(* The generator: new rows are pending, and only pending rows change.       *)
LEMMA GeneratedSound ==
    ASSUME ScheduleInv, NEW from \in Days, NEW to \in Days, Generate(from, to)
    PROVE  /\ Sound(workload, sched', txs)
           /\ \A d \in DOMAIN sched' : sched'[d].tx = None \/ (d \in DOMAIN sched /\ sched'[d].tx = sched[d].tx)
<1> DEFINE w == workload
           wanted == Computed(from, to)
           fresh == [status |-> "PENDING", tx |-> None, expected |-> price, actual |-> None]
<1>1. /\ DOMAIN sched' \subseteq DOMAIN sched \cup wanted
      /\ sched' = [d \in DOMAIN sched' |->
                     IF d \notin DOMAIN sched THEN fresh
                     ELSE IF d \in wanted /\ sched[d].status = "PENDING"
                          THEN [sched[d] EXCEPT !.expected = price]
                          ELSE sched[d]]
  BY DEF Generate
<1>2. wanted \subseteq w.days /\ price \in w.prices /\ Sound(w, sched, txs)
  <2>1. rule \subseteq w.days
    BY WorkloadFacts DEF ScheduleInv, Rules
  <2>. QED BY <2>1 DEF ScheduleInv, Computed, Prices
<1>3. fresh \in RowOf(w) /\ fresh.tx = None /\ ~Settled(fresh)
  BY <1>2 DEF RowOf, Statuses, Settled
<1>. HIDE DEF fresh, wanted, w
<1>4. ASSUME NEW d \in DOMAIN sched'
      PROVE  /\ sched'[d] \in RowOf(w) /\ RowOK(w, txs, sched'[d], d)
             /\ sched'[d].tx = None \/ (d \in DOMAIN sched /\ sched'[d].tx = sched[d].tx)
  <2>1. CASE d \notin DOMAIN sched
    <3>1. sched'[d] = fresh
      BY <1>1, <2>1
    <3>. QED BY <1>3, <3>1, BareRow
  <2>2. CASE d \in DOMAIN sched /\ d \in wanted /\ sched[d].status = "PENDING"
    <3> DEFINE r == [sched[d] EXCEPT !.expected = price]
    <3>1. sched[d] \in RowOf(w) /\ RowOK(w, txs, sched[d], d)
      BY <1>2, <2>2 DEF Sound, Table
    <3>2. sched'[d] = r
      BY <1>1, <2>2
    <3>3. r \in RowOf(w) /\ r.tx = sched[d].tx /\ r.status = "PENDING"
      BY <1>2, <2>2, <3>1 DEF RowOf
    <3>. HIDE DEF r
    <3>4. RowOK(w, txs, r, d)
      BY <3>1, <3>3 DEF RowOK, Names, Reaches, IsPaid, Tells, Settled
    <3>. QED BY <2>2, <3>2, <3>3, <3>4
  <2>3. CASE d \in DOMAIN sched /\ ~(d \in wanted /\ sched[d].status = "PENDING")
    <3>1. sched'[d] = sched[d]
      BY <1>1, <2>3
    <3>. QED BY <1>2, <2>3, <3>1 DEF Sound, Table
  <2>. QED BY <2>1, <2>2, <2>3
<1>5. DOMAIN sched' \subseteq w.days
  BY <1>1, <1>2 DEF Sound, Table
<1>6. sched' = [d \in DOMAIN sched' |-> sched'[d]]
  BY <1>1
<1>7. Sound(w, sched', txs)
  BY <1>2, <1>4, <1>5, <1>6, RowsSound
<1>. QED BY <1>4, <1>7 DEF w

-----------------------------------------------------------------------------
(* The requests in flight. *)

LEMMA RequestsAre ==
    ASSUME ScheduleInv
    PROVE  /\ workload \in Workloads
           /\ req \in [Handlers -> RequestOf(workload) \cup {None}]
           /\ \A h \in Handlers : RequestOK(workload, sched, txs, req[h])
           /\ Serial => \A h, k \in Handlers : req[h] # None /\ req[k] # None => h = k
           /\ OwnPayments(workload, req)
           /\ Handlers = workload.handlers /\ Serial = workload.serial /\ Income = workload.income
BY TypesOfWorkload DEF ScheduleInv, InTurn, Handlers, Serial, Income

LEMMA Advance ==
    ASSUME ScheduleInv, workload' = workload,
           rule' \in Rules, price' \in Prices, archived' \in BOOLEAN,
           Sound(workload, sched', txs'),
           req' \in [Handlers -> RequestOf(workload) \cup {None}],
           \A h \in Handlers : RequestOK(workload, sched', txs', req'[h]),
           Serial => \A h, k \in Handlers : req'[h] # None /\ req'[k] # None => h = k,
           OwnPayments(workload, req')
    PROVE  ScheduleInv'
<1>1. workload' \in Workloads /\ rule' \in Rules' /\ price' \in Prices'
  BY DEF ScheduleInv, Rules, Prices
<1>2. Handlers' = Handlers /\ (Request = RequestOf(workload))' /\ InTurn(workload', req')
  BY TypesOfWorkload DEF Handlers, Serial, InTurn, Request, RequestOf, Days, Prices, TxIds
<1>. QED BY <1>1, <1>2 DEF ScheduleInv

(* What a step may do to the payments and to the rows beside the request r, *)
(* which is not its own.                                                    *)
PaymentsStay(w, t, u, r) ==
    \A i \in DOMAIN u : \/ i \in DOMAIN t /\ u[i] = t[i]
                        \/ Entered(r) => r.tx # i
                        \/ ~w.income /\ u[i].link = None
                        \/ ~Steady(w)
RowsStay(w, s, v, r) ==
    w.income /\ Steady(w) =>
        \A d \in DOMAIN v : \/ d \in DOMAIN s /\ v[d].tx = s[d].tx
                            \/ v[d].tx = None
                            \/ Entered(r) => v[d].tx # r.tx

(* Nothing a request relies on changes in a step of another.                *)
LEMMA RequestStays ==
    ASSUME NEW w \in Workloads, NEW s, NEW t, NEW r, RequestOK(w, s, t, r), NEW v, NEW u,
           ~w.serial \/ r = None, PaymentsStay(w, t, u, r), RowsStay(w, s, v, r)
    PROVE  RequestOK(w, v, u, r)
<1>1. ForItsDay(w, u, r)
  BY DEF RequestOK, ForItsDay, PaymentsStay
<1>2. AsRead(w, v, u, r)
  BY DEF AsRead, Entered, Paying
<1>3. Awaits(w, v, u, r)
  <2>. SUFFICES ASSUME w.income, Steady(w), Entered(r)
                PROVE  /\ r.tx \in DOMAIN u => u[r.tx].link = None
                       /\ \A d \in DOMAIN v : v[d].tx = r.tx => d = r.due /\ r.step = "attach"
    BY DEF Awaits
  <2>1. r.tx # None
    BY WorkloadFacts DEF RequestOK, Asks, Entered, Paying
  <2>2. r.tx \in DOMAIN u => u[r.tx].link = None
    BY DEF RequestOK, Awaits, PaymentsStay
  <2>3. \A d \in DOMAIN v : v[d].tx = r.tx => d = r.due /\ r.step = "attach"
    BY <2>1 DEF RequestOK, Awaits, RowsStay
  <2>. QED BY <2>2, <2>3
<1>. QED BY <1>1, <1>2, <1>3 DEF RequestOK

LEMMA ForgottenStays ==
    ASSUME NEW w, NEW s, NEW t, NEW r \in RequestOf(w), r # None,
           RequestOK(w, s, t, r), NEW q, q = [r EXCEPT !.valid = FALSE]
    PROVE  q \in RequestOf(w) /\ RequestOK(w, s, t, q)
<1>1. /\ q \in RequestOf(w)
      /\ q.kind = r.kind /\ q.step = r.step /\ q.due = r.due
      /\ q.expected = r.expected /\ q.amount = r.amount /\ q.tx = r.tx
  BY DEF RequestOf
<1>2. Asks(w, q)
  BY <1>1 DEF RequestOK, Asks
<1>3. (Paying(q) => Paying(r)) /\ (Entered(q) => Entered(r))
  BY <1>1 DEF Entered, Paying
<1>4. ForItsDay(w, t, q) /\ Awaits(w, s, t, q) /\ AsRead(w, s, t, q)
  BY <1>1, <1>3 DEF RequestOK, ForItsDay, Awaits, AsRead
<1>. QED BY <1>1, <1>2, <1>4 DEF RequestOK

LEMMA NoRequest ==
    ASSUME NEW w, NEW s, NEW t PROVE RequestOK(w, s, t, None)
BY DEF RequestOK, Asks, ForItsDay, Awaits, AsRead, Entered, Paying

(* Rows of the transactions change while no request is under way, or so     *)
(* that no payment under way is moved.                                      *)
LEMMA TransactKeeps ==
    ASSUME ScheduleInv, workload' = workload, UNCHANGED <<rule, price, archived, req>>, Quiet,
           Sound(workload, sched', txs'),
           workload.serial \/ \A h \in Handlers : /\ PaymentsStay(workload, txs, txs', req[h])
                                                  /\ RowsStay(workload, sched, sched', req[h])
    PROVE  ScheduleInv'
<1>1. ASSUME NEW h \in Handlers PROVE RequestOK(workload, sched', txs', req[h])
  <2>1. CASE workload.serial
    <3>1. req[h] = None
      BY <2>1, RequestsAre DEF Quiet
    <3>. QED BY <3>1, NoRequest
  <2>2. CASE ~workload.serial
    BY <2>2, RequestsAre, RequestStays
  <2>. QED BY <2>1, <2>2
<1>2. rule \in Rules /\ price \in Prices /\ archived \in BOOLEAN
  BY DEF ScheduleInv
<1>. QED BY <1>1, <1>2, RequestsAre, Advance

(* Requests end, or lose the row they were asked for.                       *)
LEMMA RequestsEnd ==
    ASSUME ScheduleInv, workload' = workload, UNCHANGED <<rule, price>>, archived' \in BOOLEAN,
           Sound(workload, sched', txs'),
           req' = [h \in Handlers |-> req'[h]],
           \A h \in Handlers : \/ req'[h] = None
                               \/ /\ \/ req[h] # None /\ req'[h] = [req[h] EXCEPT !.valid = FALSE]
                                     \/ req'[h] = req[h]
                                  /\ PaymentsStay(workload, txs, txs', req[h])
                                  /\ RowsStay(workload, sched, sched', req[h]),
           Serial => \A h \in Handlers : req'[h] = None
    PROVE  ScheduleInv'
<1>1. ASSUME NEW h \in Handlers
      PROVE  /\ req'[h] \in RequestOf(workload) \cup {None} /\ RequestOK(workload, sched', txs', req'[h])
             /\ Entered(req'[h]) => Entered(req[h]) /\ req'[h].tx = req[h].tx
  <2>1. CASE req'[h] = None
    BY <2>1, NoRequest DEF Entered, Paying
  <2>2. CASE req'[h] # None
    <3>1. /\ workload \in Workloads /\ req[h] \in RequestOf(workload) \cup {None}
          /\ RequestOK(workload, sched, txs, req[h]) /\ ~workload.serial
      BY <2>2, RequestsAre
    <3>2. RequestOK(workload, sched', txs', req[h])
      BY <2>2, <3>1, RequestStays
    <3>3. CASE req[h] # None /\ req'[h] = [req[h] EXCEPT !.valid = FALSE]
      <4>1. req[h] \in RequestOf(workload)
        BY <3>1, <3>3
      <4>2. req'[h] \in RequestOf(workload) /\ RequestOK(workload, sched', txs', req'[h])
        BY <3>2, <3>3, <4>1, ForgottenStays
      <4>3. Entered(req'[h]) => Entered(req[h]) /\ req'[h].tx = req[h].tx
        BY <3>3, <4>1 DEF Entered, Paying, RequestOf
      <4>. QED BY <4>2, <4>3
    <3>4. CASE req'[h] = req[h]
      BY <3>1, <3>2, <3>4
    <3>. QED BY <2>2, <3>3, <3>4
  <2>. QED BY <2>1, <2>2
<1>2. rule \in Rules /\ price \in Prices
  BY DEF ScheduleInv
<1>3. req' \in [Handlers -> RequestOf(workload) \cup {None}]
  BY <1>1
<1>4. OwnPayments(workload, req')
  BY <1>1, RequestsAre DEF OwnPayments
<1>. QED BY <1>1, <1>2, <1>3, <1>4, Advance

(* A request starts. *)
LEMMA RequestStarts ==
    ASSUME ScheduleInv, workload' = workload, UNCHANGED <<sched, txs>>,
           rule' \in Rules, price' \in Prices, archived' \in BOOLEAN,
           NEW h \in Handlers, Idle(h), NEW r \in RequestOf(workload),
           req' = [req EXCEPT ![h] = r], RequestOK(workload, sched, txs, r), ~Entered(r)
    PROVE  ScheduleInv'
<1>1. req \in [Handlers -> RequestOf(workload) \cup {None}]
  BY RequestsAre
<1>2. req'[h] = r /\ \A k \in Handlers \ {h} : req'[k] = req[k]
  BY <1>1
<1>3. req' \in [Handlers -> RequestOf(workload) \cup {None}]
  BY <1>1
<1>4. \A k \in Handlers : RequestOK(workload, sched', txs', req'[k])
  BY <1>2, RequestsAre
<1>5. Serial => \A k, l \in Handlers : req'[k] # None /\ req'[l] # None => k = l
  BY <1>2 DEF Idle, Quiet
<1>6. OwnPayments(workload, req')
  BY <1>2, RequestsAre DEF OwnPayments
<1>. QED BY <1>3, <1>4, <1>5, <1>6, Advance DEF ScheduleInv

-----------------------------------------------------------------------------
(* Every step keeps the invariant. *)

LEMMA GenerateKeeps ==
    ASSUME ScheduleInv, workload' = workload, NEW from \in Days, NEW to \in Days, Generate(from, to)
    PROVE  ScheduleInv'
<1>1. Sound(workload, sched', txs) /\ \A r : RowsStay(workload, sched, sched', r)
  BY GeneratedSound DEF RowsStay
<1>2. /\ UNCHANGED <<rule, price, txs>> /\ archived' \in BOOLEAN
      /\ req' = Forgetting(Pruned(from, to))
      /\ Quiet
  BY DEF Generate, ScheduleInv
<1>3. /\ req' = [h \in Handlers |-> req'[h]]
      /\ \A h \in Handlers : \/ req[h] # None /\ req'[h] = [req[h] EXCEPT !.valid = FALSE]
                             \/ req'[h] = req[h]
      /\ \A h \in Handlers : req[h] = None => req'[h] = None
  BY <1>2 DEF Forgetting
<1>4. Serial => \A h \in Handlers : req'[h] = None
  BY <1>2, <1>3 DEF Quiet
<1>5. \A r : PaymentsStay(workload, txs, txs', r)
  BY <1>2 DEF PaymentsStay
<1>. QED BY <1>1, <1>2, <1>3, <1>4, <1>5, RequestsEnd

(* A step that only takes payments and links away. *)
LEMMA OnlyLoses ==
    ASSUME ScheduleInv, \A j \in DOMAIN txs' : j \in DOMAIN txs /\ txs'[j] = txs[j],
           DOMAIN sched' = DOMAIN sched, \A d \in DOMAIN sched : sched'[d].tx \in {sched[d].tx, None}
    PROVE  \A h \in Handlers : PaymentsStay(workload, txs, txs', req[h]) /\ RowsStay(workload, sched, sched', req[h])
BY DEF PaymentsStay, RowsStay

LEMMA UngatedKeeps ==
    ASSUME ScheduleInv, workload' = workload, NEW ids, DeleteUngated(ids), ~Tidy(workload)
    PROVE  ScheduleInv'
<1>1. /\ txs' = [j \in DOMAIN txs \ ids |-> txs[j]]
      /\ sched' = [d \in DOMAIN sched |-> IF sched[d].tx \in ids
                                          THEN [sched[d] EXCEPT !.tx = None] ELSE sched[d]]
      /\ Quiet /\ UNCHANGED <<rule, price, archived, req>>
  BY DEF DeleteUngated, Without
<1>2. /\ Sound(workload, sched', txs') /\ DOMAIN sched' = DOMAIN sched
      /\ \A d \in DOMAIN sched : sched'[d].tx \in {sched[d].tx, None}
  <2>1. workload \in Workloads /\ Sound(workload, sched, txs)
    BY DEF ScheduleInv
  <2>2. PICK v, u : v = sched' /\ u = txs'
    OBVIOUS
  <2>3. /\ u = [j \in DOMAIN txs \ ids |-> txs[j]]
        /\ v = [d \in DOMAIN sched |-> IF sched[d].tx \in ids
                                       THEN [sched[d] EXCEPT !.tx = None] ELSE sched[d]]
    BY <1>1, <2>2
  <2>4. /\ Sound(workload, v, u) /\ DOMAIN v = DOMAIN sched
        /\ \A d \in DOMAIN sched : v[d].tx \in {sched[d].tx, None}
    BY <2>1, <2>3, ClearedSound
  <2>. QED BY <2>2, <2>4
<1>3. \A j \in DOMAIN txs' : j \in DOMAIN txs /\ txs'[j] = txs[j]
  BY <1>1
<1>. QED BY <1>1, <1>2, <1>3, OnlyLoses, TransactKeeps

LEMMA TransactStep ==
    ASSUME ScheduleInv, workload' = workload, Transact
    PROVE  ScheduleInv'
<1> DEFINE w == workload
<1>0. w \in Workloads /\ Sound(w, sched, txs) /\ TxIds = w.txIds /\ Requests = w.requests
      /\ Payment = PaymentOf(w) /\ Serial = w.serial
  BY TypesOfWorkload DEF ScheduleInv, TxIds, Requests, Serial
<1>1. ASSUME NEW i \in TxIds, NEW p \in Payment, Enter(i, p) PROVE ScheduleInv'
  <2>1. /\ txs' = Put(txs, i, p) /\ New(i)
        /\ sched' \in IF p.link = "item" THEN OnCreated(sched, i, p.day, p.amount) ELSE {sched}
        /\ Quiet /\ UNCHANGED <<rule, price, archived, req>>
    BY <1>1 DEF Enter, With, Put
  <2>2. Unused(sched, i)
    <3>. SUFFICES ASSUME NEW d \in DOMAIN sched, sched[d].tx = i PROVE FALSE
      BY DEF Unused
    <3>1. i # None /\ Names(txs, sched[d])
      BY <1>0, WorkloadFacts DEF Sound, RowOK
    <3>. QED BY <2>1, <3>1 DEF Names, New
  <2>3. /\ Sound(w, sched', txs') /\ DOMAIN sched' = DOMAIN sched
        /\ \A d \in DOMAIN sched : sched'[d].tx \in {sched[d].tx, i}
    <3>1. CASE p.link = "item"
      BY <1>0, <2>1, <2>2, <3>1, MatchedSound
    <3>2. CASE p.link # "item"
      BY <1>0, <2>1, <2>2, <3>2, PutUnused
    <3>. QED BY <3>1, <3>2
  <2>4. ASSUME NEW h \in Handlers PROVE PaymentsStay(w, txs, txs', req[h]) /\ RowsStay(w, sched, sched', req[h])
    <3>1. Entered(req[h]) => req[h].tx # i
      BY <2>1 DEF New, Entered, Paying
    <3>2. \A j \in DOMAIN txs' : j = i \/ (j \in DOMAIN txs /\ txs'[j] = txs[j])
      BY <2>1 DEF Put
    <3>3. PaymentsStay(w, txs, txs', req[h])
      BY <3>1, <3>2 DEF PaymentsStay
    <3>4. RowsStay(w, sched, sched', req[h])
      BY <2>3, <3>1 DEF RowsStay
    <3>. QED BY <3>3, <3>4
  <2>. QED BY <2>1, <2>3, <2>4, TransactKeeps
<1>2. ASSUME NEW i \in TxIds, NEW p \in Payment, PutTx(i, p) PROVE ScheduleInv'
  <2>1. /\ txs' = Put(txs, i, p) /\ i \in DOMAIN txs
        /\ sched' \in IF p.link = "item" THEN OnUpdated(sched, i, p.day, p.amount) ELSE {sched}
        /\ p.link \in {"item", None}
        /\ "put" \in Requests \/ (p.link = None /\ txs[i].link # None)
        /\ Quiet /\ UNCHANGED <<rule, price, archived, req>>
    BY <1>2 DEF PutTx, With, Put
  <2>2. Sound(w, sched', txs')
    <3>1. CASE p.link = "item"
      BY <1>0, <2>1, <3>1, UpdatedSound
    <3>2. CASE p.link # "item"
      BY <1>0, <2>1, <3>2, UnlinkedSound
    <3>. QED BY <3>1, <3>2
  <2>3. ASSUME ~w.serial, Steady(w), NEW h \in Handlers
        PROVE  PaymentsStay(w, txs, txs', req[h]) /\ RowsStay(w, sched, sched', req[h])
    <3>1. p.link = None /\ txs[i].link # None
      BY <1>0, <2>1, <2>3 DEF Steady
    <3>2. sched' = sched /\ txs'[i].link = None
      BY <1>0, <2>1, <3>1, WorkloadFacts DEF Put
    <3>3. \A j \in DOMAIN txs' : j \in DOMAIN txs /\ (j = i \/ txs'[j] = txs[j])
      BY <2>1 DEF Put
    <3>4. w.income /\ Entered(req[h]) => req[h].tx # i
      BY <2>1, <2>3, <3>1, RequestsAre DEF RequestOK, Awaits
    <3>. QED BY <3>2, <3>3, <3>4 DEF PaymentsStay, RowsStay
  <2>4. ~Steady(w) => \A r : PaymentsStay(w, txs, txs', r) /\ RowsStay(w, sched, sched', r)
    BY DEF PaymentsStay, RowsStay
  <2>. QED BY <2>1, <2>2, <2>3, <2>4, TransactKeeps
<1>3. ASSUME NEW i \in TxIds, DeleteTx(i) PROVE ScheduleInv'
  <2>1. /\ txs' = [j \in DOMAIN txs \ {i} |-> txs[j]] /\ sched' = Released(sched, i)
        /\ Quiet /\ UNCHANGED <<rule, price, archived, req>>
    BY <1>3 DEF DeleteTx, Without
  <2>2. /\ Sound(w, sched', txs) /\ Unused(sched', i) /\ DOMAIN sched' = DOMAIN sched
        /\ \A d \in DOMAIN sched : sched'[d].tx \in {sched[d].tx, None}
    BY <1>0, <2>1, ReleasedSound
  <2>3. Sound(w, sched', txs')
    <3>1. \A j \in {i} : Unused(sched', j)
      BY <2>2
    <3>. QED BY <2>1, <2>2, <3>1, DropUnused
  <2>4. \A j \in DOMAIN txs' : j \in DOMAIN txs /\ txs'[j] = txs[j]
    BY <2>1
  <2>. QED BY <2>1, <2>2, <2>3, <2>4, OnlyLoses, TransactKeeps
<1>4. ASSUME NEW ids \in SUBSET DOMAIN txs, DeleteAccount(ids) PROVE ScheduleInv'
  BY <1>0, <1>4, UngatedKeeps DEF DeleteAccount, Tidy
<1>5. ASSUME NEW i \in TxIds, DeleteItem(i) PROVE ScheduleInv'
  BY <1>0, <1>5, UngatedKeeps DEF DeleteItem, Tidy
<1>6. ASSUME NEW i \in TxIds, NEW p \in Payment, RelinkTx(i, p) PROVE ScheduleInv'
  <2>1. /\ txs' = Put(txs, i, p) /\ Serial
        /\ sched' = IF Drifted(sched, i, p.day) THEN Released(sched, i) ELSE Refreshed(sched, i, p.amount)
        /\ Quiet /\ UNCHANGED <<rule, price, archived, req>>
    BY <1>6 DEF RelinkTx, With, Put
  <2>2. CASE Drifted(sched, i, p.day)
    <3>1. Sound(w, sched', txs) /\ Unused(sched', i)
      BY <1>0, <2>1, <2>2, ReleasedSound
    <3>2. Sound(w, sched', txs')
      BY <1>0, <2>1, <3>1, PutUnused
    <3>. QED BY <1>0, <2>1, <3>2, TransactKeeps
  <2>3. CASE ~Drifted(sched, i, p.day)
    <3>1. Sound(w, sched', txs')
      BY <1>0, <2>1, <2>3, KeptInReach
    <3>. QED BY <1>0, <2>1, <3>1, TransactKeeps
  <2>. QED BY <2>2, <2>3
<1>. QED BY <1>1, <1>2, <1>3, <1>4, <1>5, <1>6 DEF Transact

(* The first statement of a handler admits a request. *)
LEMMA StartKeeps ==
    ASSUME ScheduleInv, workload' = workload, NEW h \in Handlers,
           \/ \E d \in Days, amount \in Prices : StartPay(h, d, amount)
           \/ \E kind \in {"snooze", "skip"}, d \in Days : StartDefer(h, kind, d)
           \/ \E newRule \in Rules, newPrice \in Prices, snoozed \in BOOLEAN :
                 StartEdit(h, newRule, newPrice, snoozed)
           \/ StartArchive(h)
    PROVE  ScheduleInv'
<1> DEFINE w == workload
<1>0. /\ w \in Workloads /\ Sound(w, sched, txs) /\ Days = w.days /\ Prices = w.prices
      /\ rule \in Rules /\ price \in Prices /\ archived \in BOOLEAN
  BY DEF ScheduleInv, Days, Prices
<1>1. ASSUME NEW d \in Days, NEW amount \in Prices, StartPay(h, d, amount) PROVE ScheduleInv'
  <2> DEFINE r == [Blank EXCEPT !.kind = "pay", !.step = "create", !.due = d,
                     !.expected = sched[d].expected, !.amount = amount]
  <2>1. /\ Idle(h) /\ req' = [req EXCEPT ![h] = r] /\ d \in DOMAIN sched
        /\ UNCHANGED <<rule, price, archived, sched, txs>>
    BY <1>1 DEF StartPay, MayAct
  <2>2. sched[d].expected \in w.prices
    BY <1>0, <2>1 DEF Sound, Table, RowOf
  <2>3. /\ r \in RequestOf(w) /\ r.kind = "pay" /\ r.step = "create" /\ r.due = d
        /\ r.expected = sched[d].expected /\ r.amount = amount
    BY <1>0, <2>2 DEF Blank, RequestOf
  <2>. HIDE DEF r
  <2>4. RequestOK(w, sched, txs, r)
    <3>1. Asks(w, r)
      BY <1>0, <2>2, <2>3 DEF Asks
    <3>2. ForItsDay(w, txs, r) /\ Awaits(w, sched, txs, r) /\ AsRead(w, sched, txs, r)
      BY <2>1, <2>3 DEF ForItsDay, Awaits, AsRead, Entered, Paying
    <3>. QED BY <3>1, <3>2 DEF RequestOK
  <2>5. ~Entered(r)
    BY <2>3 DEF Entered
  <2>. QED BY <1>0, <2>1, <2>3, <2>4, <2>5, RequestStarts
<1>2. ASSUME NEW r, r \in RequestOf(w), r.kind # "pay",
             r.kind \in {"snooze", "skip"} => r.due \in w.days
      PROVE  RequestOK(w, sched, txs, r) /\ ~Entered(r)
  BY <1>2 DEF RequestOK, Asks, ForItsDay, Awaits, AsRead, Entered, Paying
<1>3. ASSUME NEW kind \in {"snooze", "skip"}, NEW d \in Days, StartDefer(h, kind, d) PROVE ScheduleInv'
  <2> DEFINE r == [Blank EXCEPT !.kind = kind, !.due = d]
  <2>1. Idle(h) /\ req' = [req EXCEPT ![h] = r] /\ UNCHANGED <<rule, price, archived, sched, txs>>
    BY <1>3 DEF StartDefer
  <2>2. r \in RequestOf(w) /\ r.kind = kind /\ r.due = d
    BY <1>0 DEF Blank, RequestOf
  <2>. HIDE DEF r
  <2>3. RequestOK(w, sched, txs, r) /\ ~Entered(r)
    BY <1>0, <1>2, <2>2
  <2>. QED BY <1>0, <2>1, <2>2, <2>3, RequestStarts
<1>4. ASSUME NEW newRule \in Rules, NEW newPrice \in Prices, NEW snoozed \in BOOLEAN,
             StartEdit(h, newRule, newPrice, snoozed)
      PROVE  ScheduleInv'
  <2> DEFINE r == [Blank EXCEPT !.kind = "edit", !.snoozed = snoozed]
  <2>1. /\ Idle(h) /\ req' = [req EXCEPT ![h] = r] /\ UNCHANGED <<archived, sched, txs>>
        /\ rule' = newRule /\ price' = newPrice
    BY <1>4 DEF StartEdit
  <2>2. r \in RequestOf(w) /\ r.kind = "edit"
    BY DEF Blank, RequestOf
  <2>. HIDE DEF r
  <2>3. RequestOK(w, sched, txs, r) /\ ~Entered(r)
    BY <1>2, <2>2
  <2>. QED BY <1>0, <2>1, <2>2, <2>3, RequestStarts
<1>5. CASE StartArchive(h)
  <2> DEFINE r == [Blank EXCEPT !.kind = "archive"]
  <2>1. /\ Idle(h) /\ req' = [req EXCEPT ![h] = r] /\ UNCHANGED <<rule, price, sched, txs>>
        /\ archived' = TRUE
    BY <1>5 DEF StartArchive
  <2>2. r \in RequestOf(w) /\ r.kind = "archive"
    BY DEF Blank, RequestOf
  <2>. HIDE DEF r
  <2>3. RequestOK(w, sched, txs, r) /\ ~Entered(r)
    BY <1>2, <2>2
  <2>. QED BY <1>0, <2>1, <2>2, <2>3, RequestStarts
<1>. QED BY <1>1, <1>3, <1>4, <1>5

(* The payment is entered: for the day of the row it was asked for.         *)
LEMMA PayCreateKeeps ==
    ASSUME ScheduleInv, workload' = workload, NEW h \in Handlers, NEW i \in TxIds, PayCreate(h, i)
    PROVE  ScheduleInv'
<1> DEFINE w == workload
           r == req[h]
           p == [link |-> IF Income THEN None ELSE "item", day |-> r.due, amount |-> r.amount]
           q == [r EXCEPT !.step = "link", !.tx = i]
<1>0. w \in Workloads /\ Sound(w, sched, txs) /\ i \in w.txIds
  BY DEF ScheduleInv, TxIds
<1>1. /\ txs' = Put(txs, i, p) /\ New(i)
      /\ sched' \in IF Income THEN {sched} ELSE OnCreated(sched, i, p.day, p.amount)
      /\ req' = [req EXCEPT ![h].step = "link", ![h].tx = i]
      /\ UNCHANGED <<rule, price, archived>>
      /\ Paying(r) /\ r.step = "create"
  BY DEF PayCreate, At, With, Put, Paying
<1>2. /\ r \in RequestOf(w) /\ r.due \in w.days /\ r.expected \in w.prices /\ r.amount \in w.prices
      /\ w.serial => r.due \in DOMAIN sched /\ sched[r.due].expected = r.expected
  <2>1. RequestOK(w, sched, txs, r) /\ r \in RequestOf(w) \cup {None}
    BY RequestsAre
  <2>. QED BY <1>1, <2>1 DEF RequestOK, Asks, AsRead, Paying
<1>3. p \in PaymentOf(w) /\ p.day = r.due /\ p.amount = r.amount
      /\ (Income => p.link = None)
  BY <1>2 DEF PaymentOf
<1>4. /\ q \in RequestOf(w) /\ q.kind = "pay" /\ q.step = "link" /\ q.tx = i
      /\ q.due = r.due /\ q.expected = r.expected /\ q.amount = r.amount
  BY <1>0, <1>1, <1>2 DEF RequestOf, Paying
<1>5. req'[h] = q /\ (\A k \in Handlers \ {h} : req'[k] = req[k])
      /\ req' \in [Handlers -> RequestOf(w) \cup {None}]
  <2>1. req \in [Handlers -> RequestOf(w) \cup {None}]
    BY RequestsAre
  <2>2. req'[h] = q /\ \A k \in Handlers \ {h} : req'[k] = req[k]
    BY <1>1, <2>1
  <2>3. req' = [k \in Handlers |-> req'[k]]
    BY <1>1, <2>1
  <2>. QED BY <1>4, <2>1, <2>2, <2>3
<1>. HIDE DEF p, q
<1>6. Unused(sched, i)
  <2>. SUFFICES ASSUME NEW d \in DOMAIN sched, sched[d].tx = i PROVE FALSE
    BY DEF Unused
  <2>1. i # None /\ Names(txs, sched[d])
    BY <1>0, WorkloadFacts DEF Sound, RowOK
  <2>. QED BY <1>1, <2>1 DEF Names, New
<1>7. /\ Sound(w, sched', txs') /\ DOMAIN sched' = DOMAIN sched
      /\ \A d \in DOMAIN sched : sched'[d].expected = sched[d].expected /\ sched'[d].tx \in {sched[d].tx, i}
      /\ Income => sched' = sched
  <2>1. CASE Income
    BY <1>0, <1>1, <1>3, <1>6, <2>1, PutUnused
  <2>2. CASE ~Income
    BY <1>0, <1>1, <1>3, <1>6, <2>2, MatchedSound
  <2>. QED BY <2>1, <2>2
<1>8. i \in DOMAIN txs' /\ txs'[i] = p /\ \A j \in DOMAIN txs' : j = i \/ (j \in DOMAIN txs /\ txs'[j] = txs[j])
  BY <1>1 DEF Put
<1>9. RequestOK(w, sched', txs', q)
  <2>1. Asks(w, q)
    BY <1>0, <1>2, <1>4 DEF Asks
  <2>2. ForItsDay(w, txs', q)
    BY <1>3, <1>4, <1>8 DEF ForItsDay
  <2>3. AsRead(w, sched', txs', q)
    BY <1>2, <1>3, <1>4, <1>7, <1>8 DEF AsRead
  <2>4. Awaits(w, sched', txs', q)
    <3>1. w.income => sched' = sched /\ p.link = None
      BY <1>3, <1>7, RequestsAre
    <3>. QED BY <1>4, <1>6, <1>8, <3>1 DEF Awaits, Unused
  <2>. QED BY <2>1, <2>2, <2>3, <2>4 DEF RequestOK
<1>10. ASSUME NEW k \in Handlers PROVE RequestOK(w, sched', txs', req'[k])
  <2>1. CASE k = h
    BY <1>5, <1>9, <2>1
  <2>2. CASE k # h
    <3>1. req'[k] = req[k] /\ RequestOK(w, sched, txs, req[k])
      BY <1>5, <2>2, RequestsAre
    <3>2. ~w.serial \/ req[k] = None
      BY <1>1, <2>2, RequestsAre DEF Paying
    <3>3. Entered(req[k]) => req[k].tx # i
      BY <1>1 DEF New, Entered, Paying
    <3>4. PaymentsStay(w, txs, txs', req[k]) /\ RowsStay(w, sched, sched', req[k])
      BY <1>7, <1>8, <3>3 DEF PaymentsStay, RowsStay
    <3>. QED BY <1>0, <3>1, <3>2, <3>4, RequestStays
  <2>. QED BY <2>1, <2>2
<1>11. Serial => \A k, l \in Handlers : req'[k] # None /\ req'[l] # None => k = l
  BY <1>1, <1>5, RequestsAre DEF Paying
<1>12. OwnPayments(w, req')
  <2>1. \A k \in Handlers \ {h} : Entered(req[k]) => req[k].tx # i
    BY <1>1 DEF New, Entered, Paying
  <2>. QED BY <1>4, <1>5, <2>1, RequestsAre DEF OwnPayments
<1>. QED BY <1>1, <1>5, <1>7, <1>10, <1>11, <1>12, Advance DEF ScheduleInv

(* The last statement of a handler, or the end of it. *)
LEMMA EndKeeps ==
    ASSUME ScheduleInv, workload' = workload, NEW h \in Handlers, req[h] # None,
           UNCHANGED <<rule, price, archived>>, Sound(workload, sched', txs'),
           \A k \in Handlers \ {h} : /\ PaymentsStay(workload, txs, txs', req[k])
                                     /\ RowsStay(workload, sched, sched', req[k]),
           req' = Done(h)
    PROVE  ScheduleInv'
<1>1. req = [k \in Handlers |-> req[k]]
  BY RequestsAre
<1>2. /\ req' = [k \in Handlers |-> req'[k]]
      /\ \A k \in Handlers : req'[k] = IF k = h THEN None ELSE req[k]
  BY <1>1 DEF Done
<1>3. Serial => \A k \in Handlers : req'[k] = None
  BY <1>2, RequestsAre
<1>4. archived' \in BOOLEAN
  BY DEF ScheduleInv
<1>. QED BY <1>2, <1>3, <1>4, RequestsEnd

(* The last statement of snooze, skip and archive, or a request dropped:    *)
(* payments stay, and so do the links to them.                              *)
LEMMA EndApart ==
    ASSUME ScheduleInv, workload' = workload, NEW h \in Handlers, req[h] # None,
           UNCHANGED <<rule, price, archived, txs>>, Sound(workload, sched', txs),
           \A d \in DOMAIN sched' : d \in DOMAIN sched /\ sched'[d].tx = sched[d].tx,
           req' = Done(h)
    PROVE  ScheduleInv'
<1>1. \A r : PaymentsStay(workload, txs, txs', r) /\ RowsStay(workload, sched, sched', r)
  BY DEF PaymentsStay, RowsStay
<1>. QED BY <1>1, EndKeeps

(* The row asked for is linked, if it is there and the payment is free.     *)
LEMMA PayLinkSound ==
    ASSUME ScheduleInv, NEW h \in Handlers, PayLink(h)
    PROVE  /\ Sound(workload, sched', txs) /\ DOMAIN sched' = DOMAIN sched
           /\ \A d \in DOMAIN sched :
                 \/ sched'[d] = sched[d]
                 \/ /\ d = req[h].due /\ sched'[d].tx = req[h].tx /\ sched'[d].actual = req[h].amount
                    /\ sched'[d].expected = sched[d].expected
                    /\ sched'[d].status = StatusFor(req[h].amount, req[h].expected)
<1> DEFINE w == workload
           r == req[h]
           may == r.valid /\ Linkable(h)
<1>1. /\ Entered(r)
      /\ sched' = IF may THEN PaidRows(sched, r.due, r.tx, r.amount, r.expected) ELSE sched
      /\ txs' = txs
  BY DEF PayLink, At, Entered, Paying, PaidRows
<1>2. w \in Workloads /\ Sound(w, sched, txs) /\ RequestOK(w, sched, txs, r)
  BY RequestsAre DEF ScheduleInv
<1>3. /\ r # None /\ r.due \in w.days /\ r.expected \in w.prices /\ r.amount \in w.prices
      /\ ForItsDay(w, txs, r) /\ AsRead(w, sched, txs, r)
  BY <1>1, <1>2 DEF RequestOK, Asks, Entered, Paying
<1>4. may => r.tx \in DOMAIN txs /\ LinkedTo(sched, r.tx) \subseteq {r.due}
  BY DEF Linkable
<1>. HIDE DEF r, may, w
<1>5. CASE ~may
  BY <1>1, <1>2, <1>5 DEF w
<1>6. CASE may
  <2>1. r.tx \in DOMAIN txs /\ LinkedTo(sched, r.tx) \subseteq {r.due}
    BY <1>4, <1>6
  <2>2. Tidy(w) => txs[r.tx].amount = r.amount
                   /\ (r.due \in DOMAIN sched => r.expected = sched[r.due].expected)
    BY <1>1, <1>3 DEF Tidy, AsRead, Entered
  <2>3. Steady(w) /\ txs[r.tx].link # None => Apart(r.due, txs[r.tx].day) <= MatchWindow
    <3>1. Steady(w) /\ txs[r.tx].link # None => txs[r.tx].day = r.due
      BY <1>1, <1>3, <2>1 DEF ForItsDay
    <3>2. Apart(r.due, r.due) = 0 /\ MatchWindow \in Nat
      BY <1>2, <1>3, WorkloadFacts DEF Apart
    <3>. QED BY <3>1, <3>2
  <2>5. PICK d, i, amount, expected : d = r.due /\ i = r.tx /\ amount = r.amount /\ expected = r.expected
    OBVIOUS
  <2>6. sched' = PaidRows(sched, d, i, amount, expected)
    BY <1>1, <1>6, <2>5
  <2>7. MayPay(w, sched, txs, d, i, amount, expected)
    BY <1>3, <2>1, <2>2, <2>3, <2>5 DEF MayPay
  <2>8. /\ Sound(w, sched', txs) /\ DOMAIN sched' = DOMAIN sched
        /\ \A e \in DOMAIN sched : e # d => sched'[e] = sched[e]
        /\ d \in DOMAIN sched => /\ sched'[d].tx = i /\ sched'[d].actual = amount
                                 /\ sched'[d].expected = sched[d].expected
                                 /\ sched'[d].status = StatusFor(amount, expected)
    BY <1>2, <2>6, <2>7, PaidSound
  <2>. QED BY <2>5, <2>8 DEF r, w
<1>. QED BY <1>5, <1>6

LEMMA PayLinkKeeps ==
    ASSUME ScheduleInv, workload' = workload, NEW h \in Handlers, PayLink(h)
    PROVE  ScheduleInv'
<1> DEFINE w == workload
           r == req[h]
           q == [r EXCEPT !.step = "attach"]
<1>1. /\ Entered(r) /\ r.step = "link" /\ UNCHANGED <<rule, price, archived, txs>>
      /\ req' = Done(h) \/ (Income /\ req' = [req EXCEPT ![h].step = "attach"])
  BY DEF PayLink, At, Entered, Paying
<1>2. /\ w \in Workloads /\ r \in RequestOf(w) \cup {None} /\ RequestOK(w, sched, txs, r)
      /\ rule \in Rules /\ price \in Prices /\ archived \in BOOLEAN
      /\ Income = w.income /\ Serial = w.serial
  BY RequestsAre DEF ScheduleInv
<1>3. /\ r # None /\ r.due \in w.days /\ r.expected \in w.prices /\ r.amount \in w.prices
      /\ r.tx \in w.txIds /\ r \in RequestOf(w)
  BY <1>1, <1>2 DEF RequestOK, Asks, Entered, Paying
<1>4. /\ Sound(w, sched', txs') /\ DOMAIN sched' = DOMAIN sched
      /\ \A d \in DOMAIN sched :
            \/ sched'[d] = sched[d]
            \/ /\ d = r.due /\ sched'[d].tx = r.tx /\ sched'[d].actual = r.amount
               /\ sched'[d].expected = sched[d].expected
               /\ sched'[d].status = StatusFor(r.amount, r.expected)
  BY <1>1, PayLinkSound
<1>5. ASSUME NEW k \in Handlers \ {h}
      PROVE  PaymentsStay(w, txs, txs', req[k]) /\ RowsStay(w, sched, sched', req[k])
  <2>1. Entered(req[k]) => req[k].tx # r.tx
    BY <1>1, RequestsAre DEF OwnPayments
  <2>. QED BY <1>1, <1>4, <2>1 DEF PaymentsStay, RowsStay
<1>6. CASE req' = Done(h)
  BY <1>1, <1>3, <1>4, <1>5, <1>6, EndKeeps
<1>7. CASE Income /\ req' = [req EXCEPT ![h].step = "attach"]
  <2>1. /\ q \in RequestOf(w) /\ q.kind = "pay" /\ q.step = "attach" /\ q.tx = r.tx
        /\ q.due = r.due /\ q.expected = r.expected /\ q.amount = r.amount
    BY <1>1, <1>3 DEF RequestOf, Entered, Paying
  <2>2. /\ req'[h] = q /\ \A k \in Handlers \ {h} : req'[k] = req[k]
        /\ req' \in [Handlers -> RequestOf(w) \cup {None}]
    <3>1. req \in [Handlers -> RequestOf(w) \cup {None}]
      BY RequestsAre
    <3>2. req'[h] = q /\ \A k \in Handlers \ {h} : req'[k] = req[k]
      BY <1>7, <3>1
    <3>3. req' = [k \in Handlers |-> req'[k]]
      BY <1>7, <3>1
    <3>. QED BY <2>1, <3>1, <3>2, <3>3
  <2>. HIDE DEF q, r, w
  <2>3. RequestOK(w, sched', txs', q)
    <3>1. Asks(w, q)
      BY <1>2, <1>3, <1>7, <2>1 DEF Asks
    <3>2. ForItsDay(w, txs', q)
      BY <1>1, <1>2, <2>1 DEF RequestOK, ForItsDay
    <3>3. Awaits(w, sched', txs', q)
      BY <1>1, <1>2, <1>4, <2>1 DEF RequestOK, Awaits
    <3>4. AsRead(w, sched', txs', q)
      <4>. SUFFICES ASSUME w.serial PROVE AsRead(w, sched', txs', q)
        BY DEF AsRead
      <4>1. /\ r.due \in DOMAIN sched /\ sched[r.due].expected = r.expected
            /\ r.tx \in DOMAIN txs /\ txs[r.tx].amount = r.amount
        BY <1>1, <1>2 DEF RequestOK, AsRead, Entered
      <4>2. \A d \in DOMAIN sched : sched[d].tx # r.tx
        BY <1>1, <1>2, <1>7 DEF RequestOK, Awaits, Steady
      <4>3. \A d \in DOMAIN sched' : sched'[d].tx = r.tx =>
               sched'[d].actual = r.amount /\ sched'[d].status = StatusFor(r.amount, sched'[d].expected)
        BY <1>4, <4>1, <4>2
      <4>. QED BY <1>1, <1>4, <2>1, <4>1, <4>3 DEF AsRead
    <3>. QED BY <3>1, <3>2, <3>3, <3>4 DEF RequestOK
  <2>4. ASSUME NEW k \in Handlers PROVE RequestOK(w, sched', txs', req'[k])
    <3>1. CASE k = h
      BY <2>2, <2>3, <3>1
    <3>2. CASE k # h
      <4>1. req'[k] = req[k] /\ RequestOK(w, sched, txs, req[k])
        BY <2>2, <3>2, RequestsAre DEF w
      <4>2. ~w.serial \/ req[k] = None
        BY <1>2, <1>3, <3>2, RequestsAre DEF r
      <4>. QED BY <1>2, <1>5, <3>2, <4>1, <4>2, RequestStays
    <3>. QED BY <3>1, <3>2
  <2>5. Serial => \A k, l \in Handlers : req'[k] # None /\ req'[l] # None => k = l
    BY <1>3, <2>2, RequestsAre DEF r
  <2>6. OwnPayments(w, req')
    BY <1>1, <2>1, <2>2, RequestsAre DEF OwnPayments, r, w
  <2>. QED BY <1>1, <1>2, <1>4, <2>2, <2>4, <2>5, <2>6, Advance DEF w
<1>. QED BY <1>1, <1>6, <1>7

(* The payment of an income is linked, past the matcher: the row it settles *)
(* is the one it was entered for.                                           *)
LEMMA PayAttachKeeps ==
    ASSUME ScheduleInv, workload' = workload, NEW h \in Handlers, PayAttach(h)
    PROVE  ScheduleInv'
<1> DEFINE w == workload
           r == req[h]
           i == r.tx
<1>1. /\ Entered(r) /\ r.step = "attach" /\ UNCHANGED <<rule, price, archived, sched>>
      /\ txs' = IF i \in DOMAIN txs THEN [txs EXCEPT ![i].link = "item"] ELSE txs
      /\ req' = Done(h)
  BY DEF PayAttach, At, Entered, Paying
<1>2. w \in Workloads /\ Sound(w, sched, txs) /\ RequestOK(w, sched, txs, r)
  BY RequestsAre DEF ScheduleInv
<1>3. r # None /\ r.due \in w.days /\ w.income /\ i \in w.txIds
  BY <1>1, <1>2 DEF RequestOK, Asks, Entered, Paying
<1>4. \A k \in Handlers \ {h} : Entered(req[k]) => req[k].tx # i
  BY <1>1, RequestsAre DEF OwnPayments
<1>5. CASE i \notin DOMAIN txs
  <2>1. \A k \in Handlers : PaymentsStay(w, txs, txs', req[k]) /\ RowsStay(w, sched, sched', req[k])
    BY <1>1, <1>5 DEF PaymentsStay, RowsStay
  <2>. QED BY <1>1, <1>2, <1>3, <1>5, <2>1, EndKeeps
<1>6. CASE i \in DOMAIN txs
  <2> DEFINE u == txs'
  <2>1. /\ Log(w, txs) /\ txs[i] \in PaymentOf(w) /\ txs = [j \in DOMAIN txs |-> txs[j]]
    BY <1>2, <1>6 DEF Sound, Log
  <2>2. /\ DOMAIN u = DOMAIN txs /\ u = [j \in DOMAIN txs |-> u[j]]
        /\ u[i] \in PaymentOf(w) /\ u[i].amount = txs[i].amount /\ u[i].day = txs[i].day
        /\ \A j \in DOMAIN txs \ {i} : u[j] = txs[j]
    BY <1>1, <1>6, <2>1 DEF PaymentOf
  <2>. HIDE DEF u, r, w
  <2>3. Log(w, u)
    BY <2>1, <2>2 DEF Log
  <2>4. ASSUME NEW d \in DOMAIN sched PROVE RowOK(w, u, sched[d], d)
    <3>1. RowOK(w, txs, sched[d], d)
      BY <1>2 DEF Sound
    <3>2. CASE sched[d].tx # i
      <4>1. sched[d].tx # None => sched[d].tx \in DOMAIN u /\ u[sched[d].tx] = txs[sched[d].tx]
        BY <2>2, <3>1, <3>2 DEF RowOK, Names
      <4>. QED BY <3>1, <4>1, RowKept
    <3>3. CASE sched[d].tx = i
      <4>1. Names(u, sched[d]) /\ IsPaid(w, sched[d])
        BY <1>6, <2>2, <3>1, <3>3 DEF RowOK, Names, IsPaid
      <4>2. Tells(w, u, sched[d])
        BY <1>1, <1>2, <2>2, <3>3 DEF RequestOK, AsRead, Tells, Tidy
      <4>3. Steady(w) => d = r.due /\ txs[i].day = r.due
        BY <1>1, <1>2, <1>3, <1>6, <3>3 DEF RequestOK, Awaits, ForItsDay
      <4>4. Apart(r.due, r.due) = 0 /\ MatchWindow \in Nat
        BY <1>2, <1>3, WorkloadFacts DEF Apart
      <4>5. Reaches(w, u, sched[d], d)
        BY <2>2, <3>3, <4>3, <4>4 DEF Reaches
      <4>. QED BY <4>1, <4>2, <4>5 DEF RowOK
    <3>. QED BY <3>2, <3>3
  <2>5. Sound(w, sched', u)
    BY <1>1, <1>2, <2>3, <2>4 DEF Sound
  <2>6. \A k \in Handlers \ {h} : PaymentsStay(w, txs, u, req[k]) /\ RowsStay(w, sched, sched', req[k])
    BY <1>1, <1>4, <2>2 DEF PaymentsStay, RowsStay
  <2>. QED BY <1>1, <1>3, <2>5, <2>6, EndKeeps DEF u, r, w
<1>. QED BY <1>5, <1>6

LEMMA DeferKeeps ==
    ASSUME ScheduleInv, workload' = workload, NEW h \in Handlers,
           NEW kind, NEW status \in {"SNOOZED", "SKIPPED"}, Defer(h, kind, status)
    PROVE  ScheduleInv'
<1>1. /\ req[h] # None /\ req' = Done(h) /\ UNCHANGED <<rule, price, archived, txs>>
      /\ sched' = IF req[h].valid THEN [sched EXCEPT ![req[h].due].status = status] ELSE sched
  BY DEF Defer, At
<1>2. Sound(workload, sched, txs) /\ sched = [d \in DOMAIN sched |-> sched[d]]
  BY DEF ScheduleInv, Sound, Table
<1>3. DOMAIN sched' = DOMAIN sched /\ sched' = [d \in DOMAIN sched' |-> sched'[d]]
  BY <1>1, <1>2
<1>4. \A d \in DOMAIN sched : sched'[d] = sched[d] \/ sched'[d] = [sched[d] EXCEPT !.status = status]
  BY <1>1, <1>2
<1>5. Sound(workload, sched', txs) /\ \A d \in DOMAIN sched : sched'[d].tx = sched[d].tx
  <2>1. \A d \in DOMAIN sched : Deferred(sched'[d], sched[d])
    BY <1>4 DEF Deferred
  <2>. QED BY <1>2, <1>3, <2>1, DeferredSound
<1>. QED BY <1>1, <1>3, <1>5, EndApart

LEMMA SkipPendingKeeps ==
    ASSUME ScheduleInv, workload' = workload, NEW h \in Handlers, SkipPending(h)
    PROVE  ScheduleInv'
<1>1. /\ req[h] # None /\ req' = Done(h) /\ UNCHANGED <<rule, price, archived, txs>>
      /\ sched' = [d \in DOMAIN sched |-> IF sched[d].status = "PENDING"
                                          THEN [sched[d] EXCEPT !.status = "SKIPPED"]
                                          ELSE sched[d]]
  BY DEF SkipPending, At
<1>2. \A d \in DOMAIN sched : Deferred(sched'[d], sched[d])
  BY <1>1 DEF Deferred
<1>3. DOMAIN sched' = DOMAIN sched /\ sched' = [d \in DOMAIN sched' |-> sched'[d]]
  BY <1>1
<1>4. Sound(workload, sched', txs) /\ \A d \in DOMAIN sched : sched'[d].tx = sched[d].tx
  BY <1>2, <1>3, DeferredSound DEF ScheduleInv
<1>. QED BY <1>1, <1>3, <1>4, EndApart

LEMMA InvalidateKeeps ==
    ASSUME ScheduleInv, workload' = workload, NEW h \in Handlers, Invalidate(h)
    PROVE  ScheduleInv'
<1> DEFINE gone == Invalidated(req[h].snoozed)
<1>1. /\ req[h] # None /\ UNCHANGED <<rule, price, archived, txs>>
      /\ sched' = [d \in DOMAIN sched \ gone |-> sched[d]]
      /\ req' = [Forgetting(gone) EXCEPT ![h] = None]
  BY DEF Invalidate, At
<1>. HIDE DEF gone
<1>2. Sound(workload, sched', txs)
  <2>1. Sound(workload, sched, txs)
    BY DEF ScheduleInv
  <2>2. DOMAIN sched' \subseteq DOMAIN sched /\ sched' = [d \in DOMAIN sched' |-> sched'[d]]
        /\ \A d \in DOMAIN sched' : sched'[d] = sched[d]
    BY <1>1
  <2>3. \A d \in DOMAIN sched' : /\ sched'[d] \in RowOf(workload) /\ RowOK(workload, txs, sched'[d], d)
                                 /\ d \in DOMAIN sched /\ sched'[d].tx = sched[d].tx
    BY <2>1, <2>2 DEF Sound, Table
  <2>4. DOMAIN sched' \subseteq workload.days
    BY <2>1, <2>2 DEF Sound, Table
  <2>. QED BY <2>1, <2>2, <2>3, <2>4, RowsSound
<1>3. /\ req' = [k \in Handlers |-> req'[k]]
      /\ req'[h] = None
      /\ \A k \in Handlers : \/ req'[k] = None
                             \/ req[k] # None /\ req'[k] = [req[k] EXCEPT !.valid = FALSE]
                             \/ req'[k] = req[k]
      /\ \A k \in Handlers : req[k] = None => req'[k] = None
  BY <1>1 DEF Forgetting
<1>4. Serial => \A k \in Handlers : req'[k] = None
  BY <1>1, <1>3, RequestsAre
<1>5. archived' \in BOOLEAN
  BY <1>1 DEF ScheduleInv
<1>6. \A r : PaymentsStay(workload, txs, txs', r) /\ RowsStay(workload, sched, sched', r)
  BY <1>1 DEF PaymentsStay, RowsStay
<1>. QED BY <1>1, <1>2, <1>3, <1>4, <1>5, <1>6, RequestsEnd

LEMMA HandleStep ==
    ASSUME ScheduleInv, workload' = workload, NEW h \in Handlers, Handle(h)
    PROVE  ScheduleInv'
<1>1. CASE Abandon(h)
  BY <1>1, EndApart DEF Abandon, ScheduleInv
<1>2. CASE Defer(h, "snooze", "SNOOZED") \/ Defer(h, "skip", "SKIPPED")
  BY <1>2, DeferKeeps
<1>. QED BY <1>1, <1>2, StartKeeps, PayCreateKeeps, PayLinkKeeps, PayAttachKeeps,
           InvalidateKeeps, SkipPendingKeeps DEF Handle

LEMMA ScheduleStep == ScheduleInv /\ [Next]_vars => ScheduleInv'
<1>. SUFFICES ASSUME ScheduleInv, [Next]_vars PROVE ScheduleInv'
  OBVIOUS
<1>1. CASE UNCHANGED vars
  <2>1. Sound(workload, sched', txs') /\ workload' = workload /\ UNCHANGED <<rule, price, archived, req>>
    BY <1>1 DEF vars, ScheduleInv
  <2>2. \A h \in Handlers : RequestOK(workload, sched', txs', req'[h])
    BY <1>1, RequestsAre DEF vars
  <2>. QED BY <2>1, <2>2, RequestsAre, Advance DEF ScheduleInv
<1>2. CASE Next
  <2>1. workload' = workload
    BY <1>2 DEF Next
  <2>2. CASE Restore
    <3>1. UNCHANGED <<rule, price, txs, sched, req>> /\ archived' \in BOOLEAN /\ Quiet
      BY <2>2 DEF Restore
    <3>2. \A h \in Handlers : RequestOK(workload, sched', txs', req'[h])
      BY <3>1, RequestsAre
    <3>. QED BY <2>1, <3>1, <3>2, RequestsAre, Advance DEF ScheduleInv
  <2>. QED BY <1>2, <2>1, <2>2, GenerateKeeps, TransactStep, HandleStep DEF Next
<1>. QED BY <1>1, <1>2

LEMMA ScheduleStart == Init => ScheduleInv
<1>. SUFFICES ASSUME Init PROVE ScheduleInv
  OBVIOUS
<1>1. Sound(workload, sched, txs)
  BY DEF Init, Sound, Table, Log, OneRowEach
<1>2. \A h \in Handlers : req[h] = None
  BY DEF Init
<1>3. \A h \in Handlers : RequestOK(workload, sched, txs, req[h])
  BY <1>2, NoRequest
<1>4. InTurn(workload, req) /\ OwnPayments(workload, req)
  BY <1>2 DEF InTurn, OwnPayments, Entered, Paying, Handlers
<1>. QED BY <1>1, <1>3, <1>4 DEF Init, ScheduleInv

LEMMA ScheduleInductive == Spec => []ScheduleInv
BY ScheduleStart, ScheduleStep, PTL DEF Spec

(* Every state of the schedule is well formed, and a payment settles one    *)
(* row at most, whatever overlaps: the generator, the matcher and the       *)
(* routes of scheduled.rs and recurring.rs.                                 *)
THEOREM ScheduleTypesAreKept == Spec => []TypeOK
<1>1. ScheduleInv => TypeOK
  <2>. SUFFICES ASSUME ScheduleInv PROVE TypeOK
    OBVIOUS
  <2>1. /\ DOMAIN sched \subseteq Days /\ sched \in [DOMAIN sched -> Row]
        /\ DOMAIN txs \subseteq TxIds /\ txs \in [DOMAIN txs -> Payment]
    BY TypesOfWorkload DEF ScheduleInv, Sound, Table, Log, Days, TxIds
  <2>2. ASSUME NEW i \in TxIds PROVE Cardinality(LinkedTo(sched, i)) <= 1
    <3>1. i # None
      BY WorkloadFacts DEF ScheduleInv, TxIds
    <3>2. \A d, e \in LinkedTo(sched, i) : d = e
      BY <3>1 DEF ScheduleInv, Sound, OneRowEach, LinkedTo
    <3>3. CASE LinkedTo(sched, i) = {}
      BY <3>3, FS_EmptySet
    <3>4. CASE LinkedTo(sched, i) # {}
      <4>1. PICK d : LinkedTo(sched, i) = {d}
        BY <3>2, <3>4
      <4>. QED BY <4>1, FS_Singleton
    <3>. QED BY <3>3, <3>4
  <2>. QED BY <2>1, <2>2 DEF ScheduleInv, TypeOK
<1>. QED BY <1>1, ScheduleInductive, PTL

LEMMA InvGivesRows ==
    ASSUME ScheduleInv
    PROVE  /\ \A d \in DOMAIN sched : RowOK(workload, txs, sched[d], d)
           /\ Fulfilled = {d \in DOMAIN sched : Settled(sched[d])}
           /\ Orderly => Tidy(workload)
           /\ (Serial \/ "put" \notin Requests) => Steady(workload)
BY DEF ScheduleInv, Sound, Fulfilled, Settled, Orderly, Tidy, Steady, Serial, Requests

(* A row that says it was paid names a payment that is there: on_deleted    *)
(* releases what on_created and pay have linked.                            *)
THEOREM PaidRowsHaveTheirPayment == Spec => []PaidHasPayment
<1>1. ScheduleInv => PaidHasPayment
  BY InvGivesRows DEF PaidHasPayment, RowOK, IsPaid, Names
<1>. QED BY <1>1, ScheduleInductive, PTL

(* A settled row shows what its payment comes to now, and says PAID or      *)
(* PARTIAL by it: status_for, in whatever order payment, price and row have *)
(* changed, the payment was unlinked and linked again, or the request that  *)
(* paid an income was dropped, as long as the payment has its link.         *)
THEOREM RowsAlwaysTellThePayment == Spec => []RowsTellThePayment
<1>1. ScheduleInv => RowsTellThePayment
  BY InvGivesRows DEF RowsTellThePayment, RowOK, Tells
<1>. QED BY <1>1, ScheduleInductive, PTL

(* A row is settled by a payment within MATCH_WINDOW_DAYS of it, for any    *)
(* window, also while requests overlap that do not edit payments.           *)
THEOREM PaymentsStayInReach == Spec => []SettledWithinWindow
<1>1. ScheduleInv => SettledWithinWindow
  BY InvGivesRows DEF SettledWithinWindow, RowOK, Reaches
<1>. QED BY <1>1, ScheduleInductive, PTL

-----------------------------------------------------------------------------
(* What a step adds to the rows, and what it removes. *)

LEMMA RowsRemain ==
    ASSUME ScheduleInv, Next
    PROVE  \/ DOMAIN sched' = DOMAIN sched
           \/ \E from, to \in Days : Generate(from, to)
           \/ \E h \in Handlers : Invalidate(h)
<1> DEFINE Same == DOMAIN sched' = DOMAIN sched
<1>0. /\ workload \in Workloads /\ Sound(workload, sched, txs) /\ TxIds = workload.txIds
      /\ Payment = PaymentOf(workload)
      /\ sched = [d \in DOMAIN sched |-> sched[d]]
  BY TypesOfWorkload DEF ScheduleInv, TxIds, Sound, Table
<1>1. ASSUME NEW i, NEW day, NEW amount, NEW v \in OnCreated(sched, i, day, amount) PROVE DOMAIN v = DOMAIN sched
  BY <1>0 DEF OnCreated, Attached
<1>2. CASE Transact
  <2>1. ASSUME NEW i \in TxIds, NEW p \in Payment, Enter(i, p) PROVE Same
    BY <1>1, <2>1 DEF Enter
  <2>2. ASSUME NEW i \in TxIds, NEW p \in Payment, PutTx(i, p) PROVE Same
    <3>1. CASE p.link = "item"
      <4>1. sched' \in OnUpdated(sched, i, p.day, p.amount)
        BY <2>2, <3>1 DEF PutTx
      <4>. QED BY <1>0, <4>1, UpdatedSound
    <3>2. CASE p.link # "item"
      BY <2>2, <3>2 DEF PutTx
    <3>. QED BY <3>1, <3>2
  <2>3. ASSUME NEW i \in TxIds, DeleteTx(i) PROVE Same
    BY <2>3 DEF DeleteTx, Released
  <2>4. ASSUME NEW ids \in SUBSET DOMAIN txs, DeleteAccount(ids) PROVE Same
    BY <2>4 DEF DeleteAccount, DeleteUngated
  <2>5. ASSUME NEW i \in TxIds, DeleteItem(i) PROVE Same
    BY <2>5 DEF DeleteItem, DeleteUngated
  <2>6. ASSUME NEW i \in TxIds, NEW p \in Payment, RelinkTx(i, p) PROVE Same
    BY <2>6 DEF RelinkTx, Released, Refreshed
  <2>. QED BY <1>2, <2>1, <2>2, <2>3, <2>4, <2>5, <2>6 DEF Transact
<1>3. CASE Restore
  BY <1>3 DEF Restore
<1>4. ASSUME NEW h \in Handlers, Handle(h) PROVE Same \/ Invalidate(h)
  <2>1. ASSUME NEW i \in TxIds, PayCreate(h, i) PROVE Same
    BY <1>1, <2>1 DEF PayCreate
  <2>2. ASSUME PayLink(h) PROVE Same
    BY <1>0, <2>2 DEF PayLink
  <2>3. ASSUME NEW kind, NEW status, Defer(h, kind, status) PROVE Same
    BY <1>0, <2>3 DEF Defer
  <2>4. ASSUME SkipPending(h) PROVE Same
    BY <2>4 DEF SkipPending
  <2>5. ASSUME UNCHANGED sched PROVE Same
    BY <2>5
  <2>. QED BY <1>4, <2>1, <2>2, <2>3, <2>4, <2>5
           DEF Handle, StartPay, PayAttach, StartDefer, StartEdit, StartArchive, Abandon
<1>. QED BY <1>2, <1>3, <1>4 DEF Next

(* PAID, PARTIAL and SKIPPED rows stay: Pruned and Invalidated take pending *)
(* rows, and the second snoozed ones, and nothing else takes any.           *)
THEOREM HistoryIsAlwaysKept == Spec => HistoryIsKept
<1>1. ScheduleInv /\ [Next]_vars =>
        [\A d \in DOMAIN sched :
           sched[d].status \in {"PAID", "PARTIAL", "SKIPPED"} => d \in DOMAIN sched']_vars
  <2>. SUFFICES ASSUME ScheduleInv, Next, NEW d \in DOMAIN sched,
                       sched[d].status \in {"PAID", "PARTIAL", "SKIPPED"}
                PROVE  d \in DOMAIN sched'
    OBVIOUS
  <2>1. ASSUME NEW from \in Days, NEW to \in Days, Generate(from, to) PROVE d \in DOMAIN sched'
    BY <2>1 DEF Generate, Pruned, Pending
  <2>2. ASSUME NEW h \in Handlers, Invalidate(h) PROVE d \in DOMAIN sched'
    BY <2>2 DEF Invalidate, Invalidated, Pending
  <2>. QED BY <2>1, <2>2, RowsRemain
<1>. QED BY <1>1, ScheduleInductive, PTL DEF Spec, HistoryIsKept

(* A month of whole days: two days of one month are in one window of months. *)
LEMMA WindowOfMonths ==
    ASSUME NEW from \in Nat \ {0}, NEW to \in Nat \ {0}, NEW d \in Nat \ {0}, NEW e \in Nat \ {0},
           (from - 1) % MonthLength = 0, to % MonthLength = 0,
           from <= d, d <= to, Month(d) = Month(e)
    PROVE  from <= e /\ e <= to
<1> DEFINE m == MonthLength
<1>1. m \in Nat \ {0}
  BY ScheduleAssumption
<1>. HIDE DEF m
<1>2. ASSUME NEW x \in Nat
      PROVE  /\ x \div m \in Nat /\ x % m \in 0 .. m - 1
             /\ x = m * (x \div m) + (x % m)
  BY <1>1
<1> DEFINE a == (from - 1) \div m
           b == to \div m
           k == (d - 1) \div m
           x == (d - 1) % m
           y == (e - 1) % m
<1>3. k = (e - 1) \div m
  BY DEF Month, m
<1>4. /\ a \in Nat /\ b \in Nat /\ k \in Nat /\ x \in 0 .. m - 1 /\ y \in 0 .. m - 1
      /\ from - 1 = m * a /\ to = m * b /\ d - 1 = m * k + x /\ e - 1 = m * k + y
  <2>1. from - 1 \in Nat /\ to \in Nat /\ d - 1 \in Nat /\ e - 1 \in Nat
    OBVIOUS
  <2>2. (from - 1) % m = 0 /\ to % m = 0
    BY DEF m
  <2>3. a \in Nat /\ from - 1 = m * a + 0
    BY <1>2, <2>1, <2>2
  <2>4. b \in Nat /\ to = m * b + 0
    BY <1>2, <2>1, <2>2
  <2>5. k \in Nat /\ x \in 0 .. m - 1 /\ d - 1 = m * k + x
    BY <1>2, <2>1
  <2>6. y \in 0 .. m - 1 /\ e - 1 = m * k + y
    BY <1>2, <1>3, <2>1
  <2>7. m * a \in Nat /\ m * b \in Nat
    BY <1>1, <2>3, <2>4
  <2>. HIDE DEF a, b, k, x, y
  <2>. QED BY <2>3, <2>4, <2>5, <2>6, <2>7
<1>. HIDE DEF a, b, k, x, y
<1>5. a <= k
  <2>. SUFFICES ASSUME k + 1 <= a PROVE FALSE
    BY <1>4
  <2>1. PICK c \in Nat : a = k + 1 + c
    <3>1. a - k - 1 \in Nat /\ a = k + 1 + (a - k - 1)
      BY <1>4
    <3>. QED BY <3>1
  <2>2. m * a = m * k + m + m * c /\ m * c \in Nat /\ m * k \in Nat
    BY <1>1, <1>4, <2>1
  <2>. QED BY <1>1, <1>4, <2>2
<1>6. k + 1 <= b
  <2>. SUFFICES ASSUME b <= k PROVE FALSE
    BY <1>4
  <2>1. PICK c \in Nat : k = b + c
    <3>1. k - b \in Nat /\ k = b + (k - b)
      BY <1>4
    <3>. QED BY <3>1
  <2>2. m * k = m * b + m * c /\ m * c \in Nat /\ m * b \in Nat
    BY <1>1, <1>4, <2>1
  <2>. QED BY <1>1, <1>4, <2>2
<1>7. from <= e
  <2>1. PICK c \in Nat : k = a + c
    <3>1. k - a \in Nat /\ k = a + (k - a)
      BY <1>4, <1>5
    <3>. QED BY <3>1
  <2>2. m * k = m * a + m * c /\ m * c \in Nat /\ m * a \in Nat
    BY <1>1, <1>4, <2>1
  <2>. QED BY <1>1, <1>4, <2>2
<1>8. e <= to
  <2>1. PICK c \in Nat : b = k + 1 + c
    <3>1. b - k - 1 \in Nat /\ b = k + 1 + (b - k - 1)
      BY <1>4, <1>6
    <3>. QED BY <3>1
  <2>2. m * b = m * k + m + m * c /\ m * c \in Nat /\ m * k \in Nat
    BY <1>1, <1>4, <2>1
  <2>. QED BY <1>1, <1>4, <2>2
<1>. QED BY <1>7, <1>8

(* A month that was paid is not owed again: fulfilled_months looks at the   *)
(* rows of the window, which has all of the month.                          *)
THEOREM PaidBillsStayPaid == Spec => PaidBillStaysPaid
<1>1. ScheduleInv /\ [Next]_vars =>
        [WholeMonths /\ ~Weekly =>
           \A d \in DOMAIN sched' \ DOMAIN sched, e \in Fulfilled : Month(d) # Month(e)]_vars
  <2>. SUFFICES ASSUME ScheduleInv, Next, WholeMonths, ~Weekly,
                       NEW d \in DOMAIN sched' \ DOMAIN sched, NEW e \in Fulfilled, Month(d) = Month(e)
                PROVE  FALSE
    OBVIOUS
  <2>1. PICK from \in Days, to \in Days : Generate(from, to)
    <3>1. ASSUME NEW h \in Handlers, Invalidate(h) PROVE FALSE
      BY <3>1 DEF Invalidate
    <3>. QED BY <3>1, RowsRemain
  <2>2. /\ d \in rule /\ from <= d /\ d <= to /\ ~Suppressed(d, from, to)
        /\ (from - 1) % MonthLength = 0 /\ to % MonthLength = 0
    BY <2>1 DEF Generate, Computed, Asked
  <2>3. Days \subseteq Nat \ {0} /\ rule \subseteq Days /\ Fulfilled \subseteq Days
    BY WorkloadFacts DEF ScheduleInv, Rules, Days, Sound, Table, Fulfilled
  <2>4. from <= e /\ e <= to
    BY <2>2, <2>3, WindowOfMonths
  <2>. QED BY <2>2, <2>4 DEF Suppressed
<1>. QED BY <1>1, ScheduleInductive, PTL DEF Spec, PaidBillStaysPaid
=============================================================================
