-------------------------- MODULE LineItemsProofs --------------------------
(***************************************************************************)
(* Line items and links, for any set of rows, amounts and sources and any  *)
(* number of requests in flight: an item always has a receipt, whatever    *)
(* was deleted meanwhile; while requests are served one after the other a  *)
(* deletion spares items, an occurrence has one row and the items fit      *)
(* their receipt; and when requests overlap, the items come to the receipt *)
(* once for every request in flight at most.                               *)
(***************************************************************************)
EXTENDS LineItems, SumsProofs

-----------------------------------------------------------------------------
(* The table, as a value. *)

ItemsOf(t, p) == {i \in DOMAIN t : t[i].parent = p}
LinkedOf(t, s) == {i \in DOMAIN t : t[i].source = s}
Table(t, g) == DOMAIN t \subseteq g /\ t \in [DOMAIN t -> Row]

(* Ids that were given stay with their rows, or go for good. *)
Keeps(t, u, g) == \A i \in DOMAIN u : i \in g => i \in DOMAIN t /\ u[i].parent = t[i].parent

(* The table u is t and one row more, or t and some rows fewer. *)
OneMore(u, t, i, r) == DOMAIN u = DOMAIN t \cup {i} /\ u[i] = r /\ \A j \in DOMAIN t : u[j] = t[j]
Fewer(u, t, S) == DOMAIN u = DOMAIN t \ S /\ \A j \in DOMAIN t \ S : u[j] = t[j]

HaveReceipts(t) ==
    \A i \in DOMAIN t : t[i].parent # None =>
        t[i].parent \in DOMAIN t /\ t[t[i].parent].parent = None

(* What a request in flight relies on. *)
CreateOK(r, t, g) ==
    r.kind = "create" =>
        /\ r.step \in {"sum", "write"} /\ r.amount \in Amounts /\ r.row = None
        /\ r.parent \in g /\ (r.parent \in DOMAIN t => t[r.parent].parent = None)
UpdateOK(r, t, g) ==
    r.kind = "update" =>
        /\ r.step \in {"owner", "existing", "sum", "write"} /\ r.row \in g /\ r.parent \in g
        /\ r.step \in {"sum", "write"} => r.amount \in Amounts
        /\ r.step # "owner" /\ r.row \in DOMAIN t => t[r.row].parent = r.parent
DeleteItemOK(r, t, g) ==
    r.kind = "deleteItem" =>
        /\ r.step \in {"owner", "write"} /\ r.row \in g /\ r.parent \in g
        /\ r.step = "write" /\ r.row \in DOMAIN t => t[r.row].parent = r.parent
DeleteOK(r, g) == r.kind = "delete" => r.step \in {"count", "write"} /\ r.row \in g
LinkOK(r, g) == r.kind = "link" => r.step \in {"clash", "write"} /\ r.row \in g /\ r.source \in Sources

RequestOK(r, t, g) ==
    r # None =>
        /\ r \in Request
        /\ CreateOK(r, t, g) /\ UpdateOK(r, t, g) /\ DeleteItemOK(r, t, g) /\ DeleteOK(r, g) /\ LinkOK(r, g)

ItemsInv ==
    /\ given \subseteq Ids /\ IsFiniteSet(given)
    /\ Table(txs, given)
    /\ HaveReceipts(txs)
    /\ req \in [Handlers -> Request \cup {None}]
    /\ \A h \in Handlers : RequestOK(req[h], txs, given)
    /\ past \subseteq PastKinds

LEMMA RequestStays ==
    ASSUME NEW r, NEW t, NEW u, NEW g, NEW g2, RequestOK(r, t, g), Keeps(t, u, g), g \subseteq g2
    PROVE  RequestOK(r, u, g2)
<1>. SUFFICES ASSUME r # None PROVE RequestOK(r, u, g2)
  BY DEF RequestOK
<1>1. CreateOK(r, u, g2)
  BY DEF RequestOK, CreateOK, Keeps
<1>2. UpdateOK(r, u, g2)
  BY DEF RequestOK, UpdateOK, Keeps
<1>3. DeleteItemOK(r, u, g2)
  BY DEF RequestOK, DeleteItemOK, Keeps
<1>4. DeleteOK(r, g2) /\ LinkOK(r, g2)
  BY DEF RequestOK, DeleteOK, LinkOK
<1>. QED BY <1>1, <1>2, <1>3, <1>4 DEF RequestOK

(* A row more, rows fewer, a row changed in place. *)
LEMMA WithIs ==
    ASSUME Table(txs, given), NEW i, i \notin given, NEW r \in Row
    PROVE  /\ OneMore(With(i, r), txs, i, r)
           /\ Table(With(i, r), given \cup {i})
           /\ Keeps(txs, With(i, r), given)
BY DEF With, Table, Keeps, OneMore

LEMMA WithoutIs ==
    ASSUME Table(txs, given), NEW S
    PROVE  /\ Fewer(Without(S), txs, S)
           /\ Table(Without(S), given)
           /\ Keeps(txs, Without(S), given)
BY DEF Without, Table, Keeps, Fewer

(* A row in place, with its parent as it was. *)
SameRow(r, s) == r \in Row /\ r.parent = s.parent

LEMMA InPlace ==
    ASSUME NEW g, NEW t, Table(t, g), NEW i \in DOMAIN t, NEW r, SameRow(r, t[i]), NEW u,
           u = [t EXCEPT ![i] = r]
    PROVE  /\ DOMAIN u = DOMAIN t
           /\ \A j \in DOMAIN t : u[j] = IF j = i THEN r ELSE t[j]
           /\ \A j \in DOMAIN t : u[j].parent = t[j].parent
           /\ Table(u, g) /\ Keeps(t, u, g)
           /\ HaveReceipts(t) => HaveReceipts(u)
<1>1. DOMAIN u = DOMAIN t /\ \A j \in DOMAIN t : u[j] = IF j = i THEN r ELSE t[j]
  OBVIOUS
<1>2. \A j \in DOMAIN t : u[j].parent = t[j].parent
  BY <1>1 DEF SameRow
<1>3. Table(u, g)
  BY <1>1 DEF Table, SameRow
<1>. QED BY <1>1, <1>2, <1>3 DEF Keeps, HaveReceipts

LEMMA RowEdits ==
    ASSUME NEW s \in Row, NEW b \in BOOLEAN, NEW n \in Amounts, NEW e \in Sources \cup {None}
    PROVE  /\ SameRow([s EXCEPT !.amount = n], s) /\ SameRow([s EXCEPT !.source = e], s)
           /\ SameRow([s EXCEPT !.splittable = b, !.amount = n, !.source = e], s)
BY DEF Row, SameRow

-----------------------------------------------------------------------------
(* The steps keep the invariant. *)

Refitted(f, g, h, r) == f = [g EXCEPT ![h] = r]

LEMMA TableStep ==
    ASSUME ItemsInv, given \subseteq given', given' \subseteq Ids, IsFiniteSet(given'),
           Table(txs', given'), Keeps(txs, txs', given), HaveReceipts(txs'), past' \subseteq PastKinds,
           NEW h, NEW r, r \in Request \cup {None}, RequestOK(r, txs', given'),
           req' = req \/ Refitted(req', req, h, r)
    PROVE  ItemsInv'
<1>1. req \in [Handlers -> Request \cup {None}] /\ \A k \in Handlers : RequestOK(req[k], txs, given)
  BY DEF ItemsInv
<1>2. \A k \in Handlers : RequestOK(req[k], txs', given')
  BY <1>1, RequestStays
<1>3. req' \in [Handlers -> Request \cup {None}] /\ \A k \in Handlers : req'[k] \in {req[k], r}
  BY <1>1 DEF Refitted
<1>4. \A k \in Handlers : RequestOK(req'[k], txs', given')
  BY <1>2, <1>3
<1>. QED BY <1>3, <1>4 DEF ItemsInv

LEMMA NoneOK == ASSUME NEW t, NEW g PROVE RequestOK(None, t, g)
BY DEF RequestOK

LEMMA SameTable ==
    ASSUME ItemsInv
    PROVE  /\ Table(txs, given) /\ Keeps(txs, txs, given) /\ HaveReceipts(txs) /\ given \subseteq Ids
           /\ IsFiniteSet(given) /\ past \subseteq PastKinds
           /\ \A h \in Handlers : req[h] \in Request \cup {None} /\ RequestOK(req[h], txs, given)
BY DEF ItemsInv, Keeps

(* A step that only moves a request on. *)
LEMMA RequestStep ==
    ASSUME ItemsInv, UNCHANGED <<txs, given>>, past' \subseteq PastKinds,
           NEW h, NEW r, r \in Request \cup {None}, RequestOK(r, txs, given), Refitted(req', req, h, r)
    PROVE  ItemsInv'
BY SameTable, TableStep

(* A step that ends a request and changes rows in place or takes some out. *)
LEMMA LastStep ==
    ASSUME ItemsInv, NEW u, Table(u, given), Keeps(txs, u, given), HaveReceipts(u), txs' = u,
           UNCHANGED <<given, past>>, NEW h, Done(h)
    PROVE  ItemsInv'
<1>1. Refitted(req', req, h, None)
  BY DEF Done, Refitted
<1>. QED BY <1>1, SameTable, NoneOK, TableStep

LEMMA PostStep ==
    ASSUME ItemsInv, NEW i \in Ids, NEW s \in BOOLEAN, NEW a \in Amounts, NEW e \in Sources \cup {None},
           Post(i, s, a, e)
    PROVE  ItemsInv'
<1> DEFINE r == [parent |-> None, splittable |-> s, amount |-> a, source |-> e]
           u == With(i, r)
<1>1. i \notin given /\ given' = given \cup {i} /\ txs' = u /\ req' = req /\ past' \subseteq PastKinds
  BY SameTable DEF Post, PastKinds
<1>2. r \in Row /\ r.parent = None
  BY DEF Row
<1>. HIDE DEF r
<1>3. OneMore(u, txs, i, r) /\ Table(u, given \cup {i}) /\ Keeps(txs, u, given)
  BY <1>1, <1>2, SameTable, WithIs
<1>. HIDE DEF u
<1>4. HaveReceipts(u)
  BY <1>2, <1>3, SameTable DEF HaveReceipts, OneMore
<1>5. IsFiniteSet(given')
  BY <1>1, SameTable, FS_AddElement
<1>. QED BY <1>1, <1>3, <1>4, <1>5, SameTable, NoneOK, TableStep

LEMMA PutStep ==
    ASSUME ItemsInv, NEW i \in Ids, NEW s \in BOOLEAN, NEW a \in Amounts, NEW e \in Sources \cup {None},
           Put(i, s, a, e)
    PROVE  ItemsInv'
<1>1. i \in DOMAIN txs /\ txs[i] \in Row
  BY SameTable DEF Put, Table
<1> DEFINE r == [txs[i] EXCEPT !.splittable = s, !.amount = a, !.source = e]
           u == [txs EXCEPT ![i] = r]
<1>2. SameRow(r, txs[i])
  BY <1>1, RowEdits
<1>3. txs' = u /\ past' \subseteq PastKinds /\ UNCHANGED <<given, req>>
  BY SameTable DEF Put, PastKinds
<1>. HIDE DEF r
<1>4. Table(u, given) /\ Keeps(txs, u, given) /\ HaveReceipts(u)
  BY <1>1, <1>2, SameTable, InPlace
<1>. HIDE DEF u
<1>. QED BY <1>3, <1>4, SameTable, NoneOK, TableStep

LEMMA UnlinkStep ==
    ASSUME ItemsInv, NEW i \in Ids, Unlink(i)
    PROVE  ItemsInv'
<1>1. i \in DOMAIN txs /\ txs[i] \in Row
  BY SameTable DEF Unlink, Table
<1> DEFINE r == [txs[i] EXCEPT !.source = None]
           u == [txs EXCEPT ![i] = r]
<1>2. SameRow(r, txs[i])
  BY <1>1 DEF SameRow, Row
<1>3. txs' = u /\ UNCHANGED <<given, req, past>>
  BY DEF Unlink
<1>. HIDE DEF r
<1>4. Table(u, given) /\ Keeps(txs, u, given) /\ HaveReceipts(u)
  BY <1>1, <1>2, SameTable, InPlace
<1>. HIDE DEF u
<1>. QED BY <1>3, <1>4, SameTable, NoneOK, TableStep

(* A request as it is taken. *)
LEMMA BeginStep ==
    ASSUME ItemsInv, NEW h \in Handlers, NEW r, r \in Request, RequestOK(r, txs, given), Begin(h, r),
           UNCHANGED <<txs, given>>
    PROVE  ItemsInv'
<1>1. Refitted(req', req, h, r) /\ past' \subseteq PastKinds
  BY SameTable DEF Begin, Refitted, PastKinds
<1>. QED BY <1>1, RequestStep

LEMMA StartStep ==
    ASSUME ItemsInv, NEW h \in Handlers,
           \/ \E p \in Ids, a \in Amounts : StartCreate(h, p, a)
           \/ \E p, i \in Ids, a \in Amounts \cup {None} : StartUpdate(h, p, i, a)
           \/ \E p, i \in Ids : StartDeleteItem(h, p, i)
           \/ \E i \in Ids : StartDelete(h, i)
           \/ \E i \in Ids, source \in Sources : StartLink(h, i, source)
    PROVE  ItemsInv'
<1>0. DOMAIN txs \subseteq given /\ given \subseteq Ids /\ \A p \in DOMAIN txs : txs[p].amount \in Amounts
  BY SameTable DEF Table, Row
<1>1. CASE \E p \in Ids, a \in Amounts : StartCreate(h, p, a)
  <2>1. PICK p \in Ids, a \in Amounts : StartCreate(h, p, a)
    BY <1>1
  <2> DEFINE r == [Blank EXCEPT !.kind = "create", !.step = "sum", !.parent = p, !.amount = a, !.limit = txs[p].amount]
  <2>2. p \in DOMAIN txs /\ txs[p].parent = None /\ Begin(h, r) /\ UNCHANGED <<txs, given>>
    BY <2>1 DEF StartCreate
  <2>3. r \in Request /\ r.kind = "create" /\ r.step = "sum" /\ r.parent = p /\ r.amount = a /\ r.row = None
    BY <1>0, <2>2 DEF Request, RequestKinds, Blank
  <2>. HIDE DEF r
  <2>4. RequestOK(r, txs, given)
    BY <1>0, <2>2, <2>3 DEF RequestOK, CreateOK, UpdateOK, DeleteItemOK, DeleteOK, LinkOK
  <2>. QED BY <2>2, <2>3, <2>4, BeginStep
<1>2. CASE \E p, i \in Ids, a \in Amounts \cup {None} : StartUpdate(h, p, i, a)
  <2>1. PICK p \in Ids, i \in Ids, a \in Amounts \cup {None} : StartUpdate(h, p, i, a)
    BY <1>2
  <2> DEFINE r == [Blank EXCEPT !.kind = "update", !.step = "owner", !.parent = p, !.row = i,
                                !.amount = a, !.limit = txs[p].amount]
  <2>2. p \in DOMAIN txs /\ i \in given /\ Begin(h, r) /\ UNCHANGED <<txs, given>>
    BY <2>1 DEF StartUpdate
  <2>3. r \in Request /\ r.kind = "update" /\ r.step = "owner" /\ r.parent = p /\ r.row = i
    BY <1>0, <2>2 DEF Request, RequestKinds, Blank
  <2>. HIDE DEF r
  <2>4. RequestOK(r, txs, given)
    BY <1>0, <2>2, <2>3 DEF RequestOK, CreateOK, UpdateOK, DeleteItemOK, DeleteOK, LinkOK
  <2>. QED BY <2>2, <2>3, <2>4, BeginStep
<1>3. CASE \E p, i \in Ids : StartDeleteItem(h, p, i)
  <2>1. PICK p \in Ids, i \in Ids : StartDeleteItem(h, p, i)
    BY <1>3
  <2> DEFINE r == [Blank EXCEPT !.kind = "deleteItem", !.step = "owner", !.parent = p, !.row = i]
  <2>2. p \in DOMAIN txs /\ i \in given /\ Begin(h, r) /\ UNCHANGED <<txs, given>>
    BY <2>1 DEF StartDeleteItem
  <2>3. r \in Request /\ r.kind = "deleteItem" /\ r.step = "owner" /\ r.parent = p /\ r.row = i
    BY <1>0, <2>2 DEF Request, RequestKinds, Blank
  <2>. HIDE DEF r
  <2>4. RequestOK(r, txs, given)
    BY <1>0, <2>2, <2>3 DEF RequestOK, CreateOK, UpdateOK, DeleteItemOK, DeleteOK, LinkOK
  <2>. QED BY <2>2, <2>3, <2>4, BeginStep
<1>4. CASE \E i \in Ids : StartDelete(h, i)
  <2>1. PICK i \in Ids : StartDelete(h, i)
    BY <1>4
  <2> DEFINE r == [Blank EXCEPT !.kind = "delete", !.step = "count", !.row = i]
  <2>2. i \in DOMAIN txs /\ Begin(h, r) /\ UNCHANGED <<txs, given>>
    BY <2>1 DEF StartDelete
  <2>3. r \in Request /\ r.kind = "delete" /\ r.step = "count" /\ r.row = i
    BY <1>0, <2>2 DEF Request, RequestKinds, Blank
  <2>. HIDE DEF r
  <2>4. RequestOK(r, txs, given)
    BY <1>0, <2>2, <2>3 DEF RequestOK, CreateOK, UpdateOK, DeleteItemOK, DeleteOK, LinkOK
  <2>. QED BY <2>2, <2>3, <2>4, BeginStep
<1>5. CASE \E i \in Ids, source \in Sources : StartLink(h, i, source)
  <2>1. PICK i \in Ids, s \in Sources : StartLink(h, i, s)
    BY <1>5
  <2> DEFINE r == [Blank EXCEPT !.kind = "link", !.step = "clash", !.row = i, !.source = s]
  <2>2. i \in DOMAIN txs /\ Begin(h, r) /\ UNCHANGED <<txs, given>>
    BY <2>1 DEF StartLink
  <2>3. r \in Request /\ r.kind = "link" /\ r.step = "clash" /\ r.row = i /\ r.source = s
    BY <1>0, <2>2 DEF Request, RequestKinds, Blank
  <2>. HIDE DEF r
  <2>4. RequestOK(r, txs, given)
    BY <1>0, <2>2, <2>3 DEF RequestOK, CreateOK, UpdateOK, DeleteItemOK, DeleteOK, LinkOK
  <2>. QED BY <2>2, <2>3, <2>4, BeginStep
<1>. QED BY <1>1, <1>2, <1>3, <1>4, <1>5

(* A request that goes to its next step, or is refused. *)
LEMMA StepTo ==
    ASSUME NEW r \in Request, NEW s \in {"owner", "existing", "sum", "count", "clash", "write"}
    PROVE  /\ [r EXCEPT !.step = s] \in Request /\ [r EXCEPT !.step = s].step = s
           /\ [r EXCEPT !.step = s].kind = r.kind /\ [r EXCEPT !.step = s].row = r.row
           /\ [r EXCEPT !.step = s].parent = r.parent /\ [r EXCEPT !.step = s].amount = r.amount
           /\ [r EXCEPT !.step = s].source = r.source /\ [r EXCEPT !.step = s].limit = r.limit
BY DEF Request

LEMMA GotoStep ==
    ASSUME ItemsInv, NEW h \in Handlers, req[h] # None, UNCHANGED <<txs, given, past>>,
           NEW s \in {"owner", "existing", "sum", "count", "clash", "write"}, Goto(h, s),
           RequestOK([req[h] EXCEPT !.step = s], txs, given)
    PROVE  ItemsInv'
<1>1. req[h] \in Request
  BY SameTable
<1> DEFINE r == [req[h] EXCEPT !.step = s]
<1>2. r \in Request
  BY <1>1, StepTo
<1>3. Refitted(req', req, h, r)
  BY DEF Goto, Refitted
<1>. HIDE DEF r
<1>. QED BY <1>2, <1>3, SameTable, RequestStep DEF r

LEMMA RefuseStep ==
    ASSUME ItemsInv, NEW h, Done(h), UNCHANGED <<txs, given, past>>
    PROVE  ItemsInv'
<1>1. Refitted(req', req, h, None)
  BY DEF Done, Refitted
<1>. QED BY <1>1, SameTable, NoneOK, RequestStep

LEMMA InFlight ==
    ASSUME ItemsInv, NEW h \in Handlers, NEW s, At(h, s)
    PROVE  /\ req[h] # None /\ req[h].step = s /\ req[h] \in Request /\ RequestOK(req[h], txs, given)
           /\ req[h].kind \in RequestKinds
           /\ s = "owner" => req[h].kind \in {"update", "deleteItem"}
           /\ s = "existing" => req[h].kind = "update"
           /\ s = "sum" => req[h].kind \in {"create", "update"}
           /\ s = "count" => req[h].kind = "delete"
           /\ s = "clash" => req[h].kind = "link"
<1>1. req[h] # None /\ req[h].step = s /\ req[h] \in Request /\ RequestOK(req[h], txs, given)
  BY SameTable DEF At
<1>2. req[h].kind \in RequestKinds
  BY <1>1 DEF Request
<1>. QED BY <1>1, <1>2 DEF RequestOK, CreateOK, UpdateOK, DeleteItemOK, DeleteOK, LinkOK, RequestKinds

LEMMA SumSiblingsStep == ASSUME ItemsInv, NEW h \in Handlers, SumSiblings(h) PROVE ItemsInv'
<1>1. At(h, "sum") /\ (Done(h) \/ Goto(h, "write")) /\ UNCHANGED <<txs, given, past>>
  BY DEF SumSiblings
<1>2. PICK r \in Request : r = req[h]
  BY <1>1, InFlight
<1>3. r # None /\ r.step = "sum" /\ RequestOK(r, txs, given) /\ r.kind \in {"create", "update"}
  BY <1>1, <1>2, InFlight
<1> DEFINE n == [r EXCEPT !.step = "write"]
<1>4. /\ n \in Request /\ n.step = "write" /\ n.kind = r.kind /\ n.row = r.row /\ n.parent = r.parent
      /\ n.amount = r.amount /\ n.source = r.source
  BY StepTo
<1>. HIDE DEF n
<1>5. CreateOK(n, txs, given) /\ UpdateOK(n, txs, given)
  BY <1>3, <1>4 DEF RequestOK, CreateOK, UpdateOK
<1>6. RequestOK(n, txs, given)
  BY <1>3, <1>4, <1>5 DEF RequestOK, DeleteItemOK, DeleteOK, LinkOK
<1>. QED BY <1>1, <1>2, <1>3, <1>6, GotoStep, RefuseStep DEF n

LEMMA InsertItemStep == ASSUME ItemsInv, NEW h \in Handlers, NEW i \in Ids, InsertItem(h, i) PROVE ItemsInv'
<1>1. At(h, "write") /\ req[h].kind = "create" /\ i \notin given /\ given' = given \cup {i} /\ Done(h) /\ past' = past
  BY DEF InsertItem
<1>2. PICK q \in Request : q = req[h]
  BY <1>1, InFlight
<1>3. /\ q.amount \in Amounts /\ q.parent \in given
      /\ q.parent \in DOMAIN txs => txs[q.parent].parent = None
  BY <1>1, <1>2, InFlight DEF RequestOK, CreateOK
<1>4. IsFiniteSet(given') /\ given' \subseteq Ids /\ given \subseteq given'
  BY <1>1, SameTable, FS_AddElement
<1>5. Refitted(req', req, h, None)
  BY <1>1 DEF Done, Refitted
<1>6. CASE q.parent \notin DOMAIN txs
  <2>1. txs' = txs
    BY <1>2, <1>6 DEF InsertItem
  <2>2. Table(txs, given')
    BY <1>4, SameTable DEF Table
  <2>. QED BY <1>1, <1>4, <1>5, <2>1, <2>2, SameTable, NoneOK, TableStep
<1>7. CASE q.parent \in DOMAIN txs
  <2> DEFINE r == [parent |-> q.parent, splittable |-> TRUE, amount |-> q.amount, source |-> None]
             u == With(i, r)
  <2>1. txs' = u
    BY <1>2, <1>7 DEF InsertItem
  <2>2. r \in Row /\ r.parent = q.parent
    BY <1>3, SameTable DEF Row
  <2>. HIDE DEF r
  <2>3. OneMore(u, txs, i, r) /\ Table(u, given \cup {i}) /\ Keeps(txs, u, given)
    BY <1>1, <2>2, SameTable, WithIs
  <2>. HIDE DEF u
  <2>4. HaveReceipts(u)
    <3>1. i \notin DOMAIN txs
      BY <1>1, SameTable DEF Table
    <3>. QED BY <1>3, <1>7, <2>2, <2>3, <3>1, SameTable DEF HaveReceipts, OneMore
  <2>. QED BY <1>1, <1>4, <1>5, <2>1, <2>3, <2>4, SameTable, NoneOK, TableStep
<1>. QED BY <1>6, <1>7

LEMMA CheckOwnerStep == ASSUME ItemsInv, NEW h \in Handlers, CheckOwner(h) PROVE ItemsInv'
<1>1. At(h, "owner") /\ UNCHANGED <<txs, given, past>>
  BY DEF CheckOwner
<1>2. PICK r \in Request : r = req[h]
  BY <1>1, InFlight
<1>3. r # None /\ r.step = "owner" /\ RequestOK(r, txs, given) /\ r.kind \in {"update", "deleteItem"}
  BY <1>1, <1>2, InFlight
<1>4. CASE r.row \notin Items(r.parent)
  BY <1>1, <1>2, <1>4, RefuseStep DEF CheckOwner
<1>5. CASE r.row \in Items(r.parent)
  <2> DEFINE s == IF r.kind = "update" THEN "existing" ELSE "write"
             n == [r EXCEPT !.step = s]
  <2>1. Goto(h, s)
    BY <1>2, <1>5 DEF CheckOwner
  <2>2. s \in {"owner", "existing", "sum", "count", "clash", "write"}
    OBVIOUS
  <2>3. /\ n \in Request /\ n.step = s /\ n.kind = r.kind /\ n.row = r.row /\ n.parent = r.parent
        /\ n.amount = r.amount /\ n.source = r.source
    BY <2>2, StepTo, ZenonT(40)
  <2>4. txs[r.row].parent = r.parent
    BY <1>5 DEF Items
  <2>5. (r.kind = "update" => s = "existing") /\ (r.kind = "deleteItem" => s = "write")
    OBVIOUS
  <2>. HIDE DEF n, s
  <2>6. UpdateOK(n, txs, given)
    BY <1>3, <2>3, <2>4, <2>5 DEF RequestOK, UpdateOK
  <2>7. DeleteItemOK(n, txs, given)
    BY <1>3, <2>3, <2>4, <2>5 DEF RequestOK, DeleteItemOK
  <2>8. RequestOK(n, txs, given)
    BY <1>3, <2>3, <2>6, <2>7 DEF RequestOK, CreateOK, DeleteOK, LinkOK
  <2>. QED BY <1>1, <1>2, <1>3, <2>1, <2>2, <2>8, GotoStep DEF n
<1>. QED BY <1>4, <1>5

LEMMA ReadExistingStep == ASSUME ItemsInv, NEW h \in Handlers, ReadExisting(h) PROVE ItemsInv'
<1>1. At(h, "existing") /\ UNCHANGED <<txs, given, past>>
  BY DEF ReadExisting
<1>2. PICK r \in Request : r = req[h]
  BY <1>1, InFlight
<1>3. r # None /\ r.step = "existing" /\ RequestOK(r, txs, given) /\ r.kind = "update"
  BY <1>1, <1>2, InFlight
<1>4. CASE r.row \notin DOMAIN txs
  BY <1>1, <1>2, <1>4, RefuseStep DEF ReadExisting
<1>5. CASE r.row \in DOMAIN txs
  <2> DEFINE a == IF r.amount = None THEN txs[r.row].amount ELSE r.amount
             n == [r EXCEPT !.step = "sum", !.amount = a]
  <2>1. req' = [req EXCEPT ![h] = n]
    BY <1>2, <1>5, SameTable DEF ReadExisting, ItemsInv
  <2>2. a \in Amounts
    BY <1>5, SameTable DEF Table, Row, Request
  <2>3. /\ n \in Request /\ n.step = "sum" /\ n.kind = r.kind /\ n.row = r.row /\ n.parent = r.parent
        /\ n.amount = a
    BY <2>2 DEF Request
  <2>. HIDE DEF n, a
  <2>4. UpdateOK(n, txs, given)
    BY <1>3, <2>2, <2>3 DEF RequestOK, UpdateOK
  <2>5. RequestOK(n, txs, given)
    BY <1>3, <2>3, <2>4 DEF RequestOK, CreateOK, DeleteItemOK, DeleteOK, LinkOK
  <2>6. Refitted(req', req, h, n)
    BY <2>1 DEF Refitted
  <2>. QED BY <1>1, <2>3, <2>5, <2>6, SameTable, RequestStep
<1>. QED BY <1>4, <1>5

LEMMA WriteItemStep == ASSUME ItemsInv, NEW h \in Handlers, WriteItem(h) PROVE ItemsInv'
<1>1. At(h, "write") /\ req[h].kind = "update" /\ Done(h) /\ UNCHANGED <<given, past>>
  BY DEF WriteItem
<1>2. PICK q \in Request : q = req[h]
  BY <1>1, InFlight
<1>3. q.amount \in Amounts
  BY <1>1, <1>2, InFlight DEF RequestOK, UpdateOK
<1>4. CASE q.row \notin DOMAIN txs
  BY <1>1, <1>2, <1>4, RefuseStep DEF WriteItem
<1>5. CASE q.row \in DOMAIN txs
  <2> DEFINE i == q.row
             r == [txs[i] EXCEPT !.amount = q.amount]
             u == [txs EXCEPT ![i] = r]
  <2>1. txs' = u
    BY <1>2, <1>5 DEF WriteItem
  <2>2. txs[i] \in Row /\ i \in DOMAIN txs
    BY <1>5, SameTable DEF Table
  <2>3. SameRow(r, txs[i])
    BY <1>3, <2>2, RowEdits
  <2>. HIDE DEF r, i
  <2>4. Table(u, given) /\ Keeps(txs, u, given) /\ HaveReceipts(u)
    BY <2>2, <2>3, SameTable, InPlace
  <2>. HIDE DEF u
  <2>. QED BY <1>1, <2>1, <2>4, LastStep
<1>. QED BY <1>4, <1>5

LEMMA WriteLinkStep == ASSUME ItemsInv, NEW h \in Handlers, WriteLink(h) PROVE ItemsInv'
<1>1. At(h, "write") /\ req[h].kind = "link" /\ Done(h) /\ UNCHANGED <<given, past>>
  BY DEF WriteLink
<1>2. PICK q \in Request : q = req[h]
  BY <1>1, InFlight
<1>3. q.source \in Sources
  BY <1>1, <1>2, InFlight DEF RequestOK, LinkOK
<1>4. CASE q.row \notin DOMAIN txs
  BY <1>1, <1>2, <1>4, RefuseStep DEF WriteLink
<1>5. CASE q.row \in DOMAIN txs
  <2> DEFINE i == q.row
             r == [txs[i] EXCEPT !.source = q.source]
             u == [txs EXCEPT ![i] = r]
  <2>1. txs' = u
    BY <1>2, <1>5 DEF WriteLink
  <2>2. txs[i] \in Row /\ i \in DOMAIN txs
    BY <1>5, SameTable DEF Table
  <2>3. SameRow(r, txs[i])
    BY <1>3, <2>2 DEF SameRow, Row
  <2>. HIDE DEF r, i
  <2>4. Table(u, given) /\ Keeps(txs, u, given) /\ HaveReceipts(u)
    BY <2>2, <2>3, SameTable, InPlace
  <2>. HIDE DEF u
  <2>. QED BY <1>1, <2>1, <2>4, LastStep
<1>. QED BY <1>4, <1>5

(* An item has no items, so it may go alone. *)
LEMMA DeleteItemStep == ASSUME ItemsInv, NEW h \in Handlers, DeleteItem(h) PROVE ItemsInv'
<1>1. At(h, "write") /\ req[h].kind = "deleteItem" /\ Done(h) /\ UNCHANGED <<given, past>>
  BY DEF DeleteItem
<1>2. PICK q \in Request : q = req[h]
  BY <1>1, InFlight
<1>3. q.row \in DOMAIN txs => txs[q.row].parent = q.parent /\ q.parent # None
  BY <1>1, <1>2, SameTable, InFlight, LineItemsAssumption DEF RequestOK, DeleteItemOK
<1> DEFINE u == Without({q.row})
<1>4. txs' = u
  BY <1>2 DEF DeleteItem
<1>5. Fewer(u, txs, {q.row}) /\ Table(u, given) /\ Keeps(txs, u, given)
  BY SameTable, WithoutIs
<1>. HIDE DEF u
<1>6. HaveReceipts(u)
  <2>. SUFFICES ASSUME NEW i \in DOMAIN u, u[i].parent # None
                PROVE  u[i].parent \in DOMAIN u /\ u[u[i].parent].parent = None
    BY DEF HaveReceipts
  <2>1. i \in DOMAIN txs /\ u[i] = txs[i]
    BY <1>5 DEF Fewer
  <2>2. txs[i].parent \in DOMAIN txs /\ txs[txs[i].parent].parent = None
    BY <2>1, SameTable DEF HaveReceipts
  <2>3. txs[i].parent # q.row
    BY <1>3, <2>2
  <2>. QED BY <1>5, <2>1, <2>2, <2>3 DEF Fewer
<1>. QED BY <1>1, <1>4, <1>5, <1>6, LastStep

LEMMA DeleteRowStep == ASSUME ItemsInv, NEW h \in Handlers, DeleteRow(h) PROVE ItemsInv'
<1>1. Done(h) /\ UNCHANGED <<given, past>>
  BY DEF DeleteRow
<1>2. CASE req[h].row \notin DOMAIN txs
  BY <1>1, <1>2, RefuseStep DEF DeleteRow
<1>3. CASE req[h].row \in DOMAIN txs
  <2>1. PICK p : p = req[h].row
    OBVIOUS
  <2> DEFINE S == {p} \cup Items(p)
             u == Without(S)
  <2>2. txs' = u
    BY <1>3, <2>1 DEF DeleteRow
  <2>3. Fewer(u, txs, S) /\ Table(u, given) /\ Keeps(txs, u, given)
    BY SameTable, WithoutIs
  <2>. HIDE DEF u
  <2>4. HaveReceipts(u)
    <3>. SUFFICES ASSUME NEW i \in DOMAIN u, u[i].parent # None
                  PROVE  u[i].parent \in DOMAIN u /\ u[u[i].parent].parent = None
      BY DEF HaveReceipts
    <3>1. i \in DOMAIN txs /\ i \notin S /\ u[i] = txs[i]
      BY <2>3 DEF Fewer
    <3>2. txs[i].parent \in DOMAIN txs /\ txs[txs[i].parent].parent = None
      BY <3>1, SameTable DEF HaveReceipts
    <3>3. txs[i].parent # p
      BY <3>1 DEF Items
    <3>4. txs[i].parent \notin Items(p)
      <4>1. p # None
        BY <1>3, <2>1, SameTable, LineItemsAssumption DEF Table
      <4>. QED BY <3>2, <4>1 DEF Items
    <3>. QED BY <2>3, <3>1, <3>2, <3>3, <3>4 DEF Fewer
  <2>. QED BY <1>1, <2>2, <2>3, <2>4, LastStep
<1>. QED BY <1>2, <1>3

LEMMA CountItemsStep == ASSUME ItemsInv, NEW h \in Handlers, CountItems(h) PROVE ItemsInv'
<1>1. At(h, "count") /\ (Done(h) \/ Goto(h, "write")) /\ UNCHANGED <<txs, given, past>>
  BY DEF CountItems
<1>2. PICK r \in Request : r = req[h]
  BY <1>1, InFlight
<1>3. r # None /\ r.step = "count" /\ RequestOK(r, txs, given) /\ r.kind = "delete"
  BY <1>1, <1>2, InFlight
<1> DEFINE n == [r EXCEPT !.step = "write"]
<1>4. n \in Request /\ n.step = "write" /\ n.kind = r.kind /\ n.row = r.row
  BY StepTo
<1>. HIDE DEF n
<1>5. RequestOK(n, txs, given)
  BY <1>3, <1>4 DEF RequestOK, CreateOK, UpdateOK, DeleteItemOK, DeleteOK, LinkOK
<1>. QED BY <1>1, <1>2, <1>3, <1>5, GotoStep, RefuseStep DEF n

LEMMA CheckClashStep == ASSUME ItemsInv, NEW h \in Handlers, CheckClash(h) PROVE ItemsInv'
<1>1. At(h, "clash") /\ (Done(h) \/ Goto(h, "write")) /\ UNCHANGED <<txs, given, past>>
  BY DEF CheckClash
<1>2. PICK r \in Request : r = req[h]
  BY <1>1, InFlight
<1>3. r # None /\ r.step = "clash" /\ RequestOK(r, txs, given) /\ r.kind = "link"
  BY <1>1, <1>2, InFlight
<1> DEFINE n == [r EXCEPT !.step = "write"]
<1>4. n \in Request /\ n.step = "write" /\ n.kind = r.kind /\ n.row = r.row /\ n.source = r.source
  BY StepTo
<1>. HIDE DEF n
<1>5. RequestOK(n, txs, given)
  BY <1>3, <1>4 DEF RequestOK, CreateOK, UpdateOK, DeleteItemOK, DeleteOK, LinkOK
<1>. QED BY <1>1, <1>2, <1>3, <1>5, GotoStep, RefuseStep DEF n

LEMMA ItemsStart == Init => ItemsInv
<1>. SUFFICES ASSUME Init PROVE ItemsInv
  OBVIOUS
<1>1. txs = << >> /\ given = {} /\ req = [h \in Handlers |-> None] /\ past = {}
  BY DEF Init
<1>2. DOMAIN txs = {}
  BY <1>1
<1>3. Table(txs, given) /\ HaveReceipts(txs)
  BY <1>1, <1>2 DEF Table, HaveReceipts
<1>4. \A h \in Handlers : RequestOK(req[h], txs, given)
  BY <1>1, NoneOK
<1>5. IsFiniteSet(given)
  BY <1>1, FS_EmptySet
<1>. QED BY <1>1, <1>3, <1>4, <1>5 DEF ItemsInv

LEMMA ItemsNext == ItemsInv /\ [Next]_vars => ItemsInv'
<1>. SUFFICES ASSUME ItemsInv, [Next]_vars PROVE ItemsInv'
  OBVIOUS
<1>1. CASE UNCHANGED vars
  BY <1>1 DEF vars, ItemsInv
<1>2. CASE \E i \in Ids, s \in BOOLEAN, a \in Amounts, e \in Sources \cup {None} : Post(i, s, a, e)
  BY <1>2, PostStep
<1>3. CASE \E i \in Ids, s \in BOOLEAN, a \in Amounts, e \in Sources \cup {None} : Put(i, s, a, e)
  BY <1>3, PutStep
<1>4. CASE \E i \in Ids : Unlink(i)
  BY <1>4, UnlinkStep
<1>5. CASE \E h \in Handlers :
             \/ \E p \in Ids, a \in Amounts : StartCreate(h, p, a)
             \/ \E p, i \in Ids, a \in Amounts \cup {None} : StartUpdate(h, p, i, a)
             \/ \E p, i \in Ids : StartDeleteItem(h, p, i)
             \/ \E i \in Ids : StartDelete(h, i)
             \/ \E i \in Ids, source \in Sources : StartLink(h, i, source)
  BY <1>5, StartStep
<1>6. CASE \E h \in Handlers : SumSiblings(h) \/ CheckOwner(h) \/ ReadExisting(h) \/ CountItems(h) \/ CheckClash(h)
  BY <1>6, SumSiblingsStep, CheckOwnerStep, ReadExistingStep, CountItemsStep, CheckClashStep
<1>7. CASE \E h \in Handlers : WriteItem(h) \/ DeleteItem(h) \/ DeleteRow(h) \/ WriteLink(h)
  BY <1>7, WriteItemStep, DeleteItemStep, DeleteRowStep, WriteLinkStep
<1>8. CASE \E h \in Handlers, i \in Ids : InsertItem(h, i)
  BY <1>8, InsertItemStep
<1>9. CASE \E h \in Handlers : Abandon(h)
  BY <1>9, RefuseStep DEF Abandon
<1>. QED BY <1>1, <1>2, <1>3, <1>4, <1>5, <1>6, <1>7, <1>8, <1>9 DEF Next, Handle

LEMMA ItemsInductive == Spec => []ItemsInv
BY ItemsStart, ItemsNext, PTL DEF Spec

(* Rows, line items and the requests about them keep their types            *)
(* (transactions_children.rs).                                              *)
THEOREM ItemTypesAreKept == Spec => []TypeOK
<1>1. ItemsInv => TypeOK
  BY DEF ItemsInv, TypeOK, Table
<1>. QED BY <1>1, ItemsInductive, PTL

(* transactions_children.rs, create, and the foreign key on parentId: an    *)
(* item belongs to a receipt that is there and is no item itself, whatever  *)
(* is deleted between the check of one request and its insert.              *)
THEOREM ItemsAlwaysHaveReceipts == Spec => []ItemsHaveReceipts
<1>1. ItemsInv => ItemsHaveReceipts
  BY DEF ItemsInv, HaveReceipts, ItemsHaveReceipts
<1>. QED BY <1>1, ItemsInductive, PTL

-----------------------------------------------------------------------------
(* While requests are served one after the other, what one has read still   *)
(* holds when it writes.                                                    *)

Alone == \A h, k \in Handlers : req[h] # None /\ req[k] # None => h = k

OneRow(t) == \A s \in Sources : \A i, j \in DOMAIN t : t[i].source = s /\ t[j].source = s => i = j

(* A deletion that counted no items, a link that found no other row. *)
DeleteReady(r, t) ==
    r # None /\ r.kind = "delete" /\ r.step = "write" => \A i \in DOMAIN t : t[i].parent # r.row
LinkReady(r, t) ==
    r # None /\ r.kind = "link" /\ r.step = "write" =>
        \A i \in DOMAIN t : t[i].source = r.source => i = r.row

ServedInTurn ==
    "overlap" \notin past =>
        /\ Alone
        /\ \A h \in Handlers : DeleteReady(req[h], txs)
        /\ "relink" \notin past => OneRow(txs) /\ \A h \in Handlers : LinkReady(req[h], txs)

(* No row gains a parent, and none a source. *)
NoNewParents(t, u) ==
    \A i \in DOMAIN u : u[i].parent # None => i \in DOMAIN t /\ u[i].parent = t[i].parent
NoNewLinks(t, u) ==
    \A i \in DOMAIN u : u[i].source # None => i \in DOMAIN t /\ u[i].source = t[i].source

LEMMA ReadyStays ==
    ASSUME NEW r, NEW t, NEW u, NEW g, g \subseteq Ids, RequestOK(r, t, g)
    PROVE  /\ DeleteReady(r, t) /\ NoNewParents(t, u) => DeleteReady(r, u)
           /\ LinkReady(r, t) /\ NoNewLinks(t, u) => LinkReady(r, u)
<1>1. ASSUME DeleteReady(r, t), NoNewParents(t, u) PROVE DeleteReady(r, u)
  BY <1>1, LineItemsAssumption DEF DeleteReady, RequestOK, DeleteOK, NoNewParents
<1>2. ASSUME LinkReady(r, t), NoNewLinks(t, u) PROVE LinkReady(r, u)
  BY <1>2, LineItemsAssumption DEF LinkReady, RequestOK, LinkOK, NoNewLinks
<1>. QED BY <1>1, <1>2

LEMMA OneRowStays ==
    ASSUME NEW t, NEW u, OneRow(t), NoNewLinks(t, u) PROVE OneRow(u)
BY LineItemsAssumption DEF OneRow, NoNewLinks

(* A step of no request. *)
LEMMA TurnTable ==
    ASSUME ItemsInv, ServedInTurn, UNCHANGED req, past \subseteq past', NoNewParents(txs, txs'),
           "relink" \in past' \/ NoNewLinks(txs, txs')
    PROVE  ServedInTurn'
<1>1. SUFFICES ASSUME "overlap" \notin past'
              PROVE  /\ Alone' /\ \A h \in Handlers : DeleteReady(req'[h], txs')
                     /\ "relink" \notin past' => OneRow(txs') /\ \A h \in Handlers : LinkReady(req'[h], txs')
  BY DEF ServedInTurn
<1>2. Alone' /\ \A h \in Handlers : DeleteReady(req'[h], txs')
  BY <1>1, SameTable, ReadyStays DEF ServedInTurn, Alone
<1>3. ASSUME "relink" \notin past' PROVE OneRow(txs') /\ \A h \in Handlers : LinkReady(req'[h], txs')
  BY <1>1, <1>3, SameTable, ReadyStays, OneRowStays DEF ServedInTurn
<1>. QED BY <1>2, <1>3

(* The end of a request. *)
LEMMA TurnEnds ==
    ASSUME ItemsInv, ServedInTurn, NEW h \in Handlers, req[h] # None, Done(h), UNCHANGED past,
           "overlap" \notin past /\ "relink" \notin past => OneRow(txs')
    PROVE  ServedInTurn'
<1>. SUFFICES ASSUME "overlap" \notin past
              PROVE  /\ Alone' /\ \A k \in Handlers : DeleteReady(req'[k], txs')
                     /\ "relink" \notin past => OneRow(txs') /\ \A k \in Handlers : LinkReady(req'[k], txs')
  BY DEF ServedInTurn
<1>1. \A k \in Handlers : req'[k] = None
  BY DEF ServedInTurn, Alone, ItemsInv, Done
<1>. QED BY <1>1 DEF Alone, DeleteReady, LinkReady

(* A request that goes on. *)
LEMMA TurnGoesOn ==
    ASSUME ItemsInv, ServedInTurn, NEW h \in Handlers, req[h] # None, UNCHANGED <<txs, past>>,
           NEW r, Refitted(req', req, h, r), DeleteReady(r, txs), LinkReady(r, txs)
    PROVE  ServedInTurn'
<1>. SUFFICES ASSUME "overlap" \notin past
              PROVE  /\ Alone' /\ \A k \in Handlers : DeleteReady(req'[k], txs')
                     /\ "relink" \notin past => OneRow(txs') /\ \A k \in Handlers : LinkReady(req'[k], txs')
  BY DEF ServedInTurn
<1>1. \A k \in Handlers : req'[k] = IF k = h THEN r ELSE req[k]
  BY DEF Refitted, ItemsInv
<1>2. Alone'
  BY <1>1 DEF ServedInTurn, Alone
<1>3. \A k \in Handlers : DeleteReady(req'[k], txs)
  BY <1>1 DEF ServedInTurn
<1>4. "relink" \notin past => \A k \in Handlers : LinkReady(req'[k], txs)
  BY <1>1 DEF ServedInTurn
<1>. QED BY <1>2, <1>3, <1>4 DEF ServedInTurn

(* A request that is taken, not at its write yet. *)
LEMMA TurnBegins ==
    ASSUME ItemsInv, ServedInTurn, NEW h \in Handlers, NEW r, Begin(h, r), UNCHANGED txs, r.step # "write"
    PROVE  ServedInTurn'
<1>1. SUFFICES ASSUME "overlap" \notin past'
              PROVE  /\ Alone' /\ \A k \in Handlers : DeleteReady(req'[k], txs')
                     /\ "relink" \notin past' => OneRow(txs') /\ \A k \in Handlers : LinkReady(req'[k], txs')
  BY DEF ServedInTurn
<1>2. past' = past /\ \A k \in Handlers : req[k] = None
  BY <1>1 DEF Begin
<1>3. \A k \in Handlers : req'[k] = IF k = h THEN r ELSE None
  BY <1>2 DEF Begin, ItemsInv
<1>4. Alone'
  BY <1>3 DEF Alone
<1>5. \A k \in Handlers : DeleteReady(req'[k], txs) /\ LinkReady(req'[k], txs)
  BY <1>3 DEF DeleteReady, LinkReady
<1>. QED BY <1>1, <1>2, <1>4, <1>5 DEF ServedInTurn

LEMMA TurnStart ==
    ASSUME ItemsInv, ServedInTurn, NEW h \in Handlers,
           \/ \E p \in Ids, a \in Amounts : StartCreate(h, p, a)
           \/ \E p, i \in Ids, a \in Amounts \cup {None} : StartUpdate(h, p, i, a)
           \/ \E p, i \in Ids : StartDeleteItem(h, p, i)
           \/ \E i \in Ids : StartDelete(h, i)
           \/ \E i \in Ids, source \in Sources : StartLink(h, i, source)
    PROVE  ServedInTurn'
<1>1. CASE \E p \in Ids, a \in Amounts : StartCreate(h, p, a)
  <2>1. PICK p \in Ids, a \in Amounts : StartCreate(h, p, a)
    BY <1>1
  <2> DEFINE r == [Blank EXCEPT !.kind = "create", !.step = "sum", !.parent = p, !.amount = a, !.limit = txs[p].amount]
  <2>2. Begin(h, r) /\ UNCHANGED txs /\ r.step # "write"
    BY <2>1 DEF StartCreate, Blank
  <2>. HIDE DEF r
  <2>. QED BY <2>2, TurnBegins
<1>2. CASE \E p, i \in Ids, a \in Amounts \cup {None} : StartUpdate(h, p, i, a)
  <2>1. PICK p \in Ids, i \in Ids, a \in Amounts \cup {None} : StartUpdate(h, p, i, a)
    BY <1>2
  <2> DEFINE r == [Blank EXCEPT !.kind = "update", !.step = "owner", !.parent = p, !.row = i,
                                !.amount = a, !.limit = txs[p].amount]
  <2>2. Begin(h, r) /\ UNCHANGED txs /\ r.step # "write"
    BY <2>1 DEF StartUpdate, Blank
  <2>. HIDE DEF r
  <2>. QED BY <2>2, TurnBegins
<1>3. CASE \E p, i \in Ids : StartDeleteItem(h, p, i)
  <2>1. PICK p \in Ids, i \in Ids : StartDeleteItem(h, p, i)
    BY <1>3
  <2> DEFINE r == [Blank EXCEPT !.kind = "deleteItem", !.step = "owner", !.parent = p, !.row = i]
  <2>2. Begin(h, r) /\ UNCHANGED txs /\ r.step # "write"
    BY <2>1 DEF StartDeleteItem, Blank
  <2>. HIDE DEF r
  <2>. QED BY <2>2, TurnBegins
<1>4. CASE \E i \in Ids : StartDelete(h, i)
  <2>1. PICK i \in Ids : StartDelete(h, i)
    BY <1>4
  <2> DEFINE r == [Blank EXCEPT !.kind = "delete", !.step = "count", !.row = i]
  <2>2. Begin(h, r) /\ UNCHANGED txs /\ r.step # "write"
    BY <2>1 DEF StartDelete, Blank
  <2>. HIDE DEF r
  <2>. QED BY <2>2, TurnBegins
<1>5. CASE \E i \in Ids, source \in Sources : StartLink(h, i, source)
  <2>1. PICK i \in Ids, s \in Sources : StartLink(h, i, s)
    BY <1>5
  <2> DEFINE r == [Blank EXCEPT !.kind = "link", !.step = "clash", !.row = i, !.source = s]
  <2>2. Begin(h, r) /\ UNCHANGED txs /\ r.step # "write"
    BY <2>1 DEF StartLink, Blank
  <2>. HIDE DEF r
  <2>. QED BY <2>2, TurnBegins
<1>. QED BY <1>1, <1>2, <1>3, <1>4, <1>5

(* The steps of a request before its last. *)
LEMMA TurnGoto ==
    ASSUME ItemsInv, ServedInTurn, NEW h \in Handlers, NEW s, At(h, s), NEW n, Goto(h, n), UNCHANGED <<txs, past>>,
           n = "write" =>
               /\ req[h].kind = "delete" => Items(req[h].row) = {}
               /\ req[h].kind = "link" => Linked(req[h].source) \ {req[h].row} = {}
    PROVE  ServedInTurn'
<1>1. PICK q \in Request : q = req[h]
  BY InFlight
<1> DEFINE r == [q EXCEPT !.step = n]
<1>2. Refitted(req', req, h, r)
  BY <1>1 DEF Goto, Refitted
<1>3. r.step = n /\ r.kind = q.kind /\ r.row = q.row /\ r.source = q.source
  BY DEF Request
<1>. HIDE DEF r
<1>4. DeleteReady(r, txs)
  BY <1>1, <1>3 DEF DeleteReady, Items
<1>5. LinkReady(r, txs)
  BY <1>1, <1>3 DEF LinkReady, Linked
<1>. QED BY <1>2, <1>4, <1>5, TurnGoesOn DEF At

LEMMA TurnRefused ==
    ASSUME ItemsInv, ServedInTurn, NEW h \in Handlers, req[h] # None, Done(h), UNCHANGED <<txs, past>>
    PROVE  ServedInTurn'
BY TurnEnds DEF ServedInTurn

LEMMA TurnChecks ==
    ASSUME ItemsInv, ServedInTurn, NEW h \in Handlers,
           SumSiblings(h) \/ CheckOwner(h) \/ ReadExisting(h) \/ CountItems(h) \/ CheckClash(h) \/ Abandon(h)
    PROVE  ServedInTurn'
<1>1. CASE SumSiblings(h)
  <2>1. At(h, "sum") /\ (Done(h) \/ Goto(h, "write")) /\ UNCHANGED <<txs, past>>
    BY <1>1 DEF SumSiblings
  <2>2. req[h].kind \in {"create", "update"} /\ req[h] # None
    BY <2>1, InFlight
  <2>. QED BY <2>1, <2>2, TurnGoto, TurnRefused
<1>2. CASE CheckOwner(h)
  <2>1. /\ At(h, "owner") /\ UNCHANGED <<txs, past>>
        /\ Done(h) \/ Goto(h, "existing") \/ Goto(h, "write")
    BY <1>2 DEF CheckOwner
  <2>2. req[h].kind \in {"update", "deleteItem"} /\ req[h] # None
    BY <2>1, InFlight
  <2>. QED BY <2>1, <2>2, TurnGoto, TurnRefused
<1>3. CASE ReadExisting(h)
  <2>1. At(h, "existing") /\ UNCHANGED <<txs, past>>
    BY <1>3 DEF ReadExisting
  <2>2. PICK r \in Request : r = req[h]
    BY <2>1, InFlight
  <2>3. r # None
    BY <2>1, <2>2, InFlight
  <2>4. CASE r.row \notin DOMAIN txs
    BY <1>3, <2>1, <2>2, <2>3, <2>4, TurnRefused DEF ReadExisting
  <2>5. CASE r.row \in DOMAIN txs
    <3> DEFINE a == IF r.amount = None THEN txs[r.row].amount ELSE r.amount
               n == [r EXCEPT !.step = "sum", !.amount = a]
    <3>1. req' = [req EXCEPT ![h] = n]
      BY <1>3, <2>2, <2>5, SameTable DEF ReadExisting, ItemsInv
    <3>2. n.step = "sum"
      BY DEF Request
    <3>. HIDE DEF n
    <3>3. Refitted(req', req, h, n)
      BY <3>1 DEF Refitted
    <3>4. DeleteReady(n, txs) /\ LinkReady(n, txs)
      BY <3>2 DEF DeleteReady, LinkReady
    <3>. QED BY <2>1, <2>2, <2>3, <3>3, <3>4, TurnGoesOn
  <2>. QED BY <2>4, <2>5
<1>4. CASE CountItems(h)
  <2>1. /\ At(h, "count") /\ UNCHANGED <<txs, past>>
        /\ Done(h) \/ (Goto(h, "write") /\ Items(req[h].row) = {})
    BY <1>4 DEF CountItems
  <2>2. req[h].kind = "delete" /\ req[h] # None
    BY <2>1, InFlight
  <2>. QED BY <2>1, <2>2, TurnGoto, TurnRefused
<1>5. CASE CheckClash(h)
  <2>1. /\ At(h, "clash") /\ UNCHANGED <<txs, past>>
        /\ Done(h) \/ (Goto(h, "write") /\ Linked(req[h].source) \ {req[h].row} = {})
    BY <1>5 DEF CheckClash
  <2>2. req[h].kind = "link" /\ req[h] # None
    BY <2>1, InFlight
  <2>. QED BY <2>1, <2>2, TurnGoto, TurnRefused
<1>6. CASE Abandon(h)
  BY <1>6, TurnRefused DEF Abandon
<1>. QED BY <1>1, <1>2, <1>3, <1>4, <1>5, <1>6

(* What a step does to the table. *)
InPlaceBut(u, t, i, r) == DOMAIN u = DOMAIN t /\ \A j \in DOMAIN t : u[j] = IF j = i THEN r ELSE t[j]

LEMMA PostTable ==
    ASSUME ItemsInv, NEW i \in Ids, NEW s \in BOOLEAN, NEW a \in Amounts, NEW e \in Sources \cup {None},
           Post(i, s, a, e)
    PROVE  \E r \in Row : /\ OneMore(txs', txs, i, r) /\ r.parent = None /\ r.source = e
                          /\ i \notin given
<1> DEFINE r == [parent |-> None, splittable |-> s, amount |-> a, source |-> e]
<1>1. r \in Row /\ r.parent = None /\ r.source = e
  BY DEF Row
<1>2. i \notin given /\ txs' = With(i, r)
  BY DEF Post
<1>. HIDE DEF r
<1>3. OneMore(With(i, r), txs, i, r)
  BY <1>1, <1>2, SameTable, WithIs
<1>. QED BY <1>1, <1>2, <1>3

LEMMA InsertTable ==
    ASSUME ItemsInv, NEW h \in Handlers, NEW i \in Ids, InsertItem(h, i)
    PROVE  /\ req[h].parent \notin DOMAIN txs => txs' = txs
           /\ req[h].parent \in DOMAIN txs =>
                 \E r \in Row : /\ OneMore(txs', txs, i, r) /\ i \notin given
                                /\ r.parent = req[h].parent /\ r.amount = req[h].amount /\ r.source = None
<1>1. At(h, "write") /\ req[h].kind = "create" /\ i \notin given
  BY DEF InsertItem
<1>2. PICK q \in Request : q = req[h]
  BY <1>1, InFlight
<1>3. q.amount \in Amounts
  BY <1>1, <1>2, InFlight DEF RequestOK, CreateOK
<1>4. q.parent \notin DOMAIN txs => txs' = txs
  BY <1>2 DEF InsertItem
<1>5. ASSUME q.parent \in DOMAIN txs
      PROVE  \E r \in Row : /\ OneMore(txs', txs, i, r) /\ i \notin given
                            /\ r.parent = q.parent /\ r.amount = q.amount /\ r.source = None
  <2> DEFINE r == [parent |-> q.parent, splittable |-> TRUE, amount |-> q.amount, source |-> None]
  <2>1. txs' = With(i, r)
    BY <1>2, <1>5 DEF InsertItem
  <2>2. r \in Row /\ r.parent = q.parent /\ r.amount = q.amount /\ r.source = None
    BY <1>3, <1>5, SameTable DEF Row, Table
  <2>. HIDE DEF r
  <2>3. OneMore(With(i, r), txs, i, r)
    BY <1>1, <2>2, SameTable, WithIs
  <2>. QED BY <1>1, <2>1, <2>2, <2>3
<1>. QED BY <1>2, <1>4, <1>5

LEMMA DeleteTable ==
    ASSUME ItemsInv, NEW h \in Handlers, DeleteItem(h) \/ DeleteRow(h)
    PROVE  \E S : Fewer(txs', txs, S)
<1>1. CASE DeleteItem(h)
  <2>1. PICK S : S = {req[h].row}
    OBVIOUS
  <2>2. txs' = Without(S)
    BY <1>1, <2>1 DEF DeleteItem
  <2>. QED BY <2>2, SameTable, WithoutIs
<1>2. CASE DeleteRow(h) /\ req[h].row \notin DOMAIN txs
  <2>1. txs' = txs
    BY <1>2 DEF DeleteRow
  <2>2. Fewer(txs', txs, {})
    BY <2>1 DEF Fewer
  <2>. QED BY <2>2
<1>3. CASE DeleteRow(h) /\ req[h].row \in DOMAIN txs
  <2>1. PICK S : S = {req[h].row} \cup Items(req[h].row)
    OBVIOUS
  <2>2. txs' = Without(S)
    BY <1>3, <2>1 DEF DeleteRow
  <2>. QED BY <2>2, SameTable, WithoutIs
<1>. QED BY <1>1, <1>2, <1>3

LEMMA TurnWrites ==
    ASSUME ItemsInv, ServedInTurn, NEW h \in Handlers,
           WriteItem(h) \/ DeleteItem(h) \/ DeleteRow(h) \/ WriteLink(h) \/ \E i \in Ids : InsertItem(h, i)
    PROVE  ServedInTurn'
<1>1. At(h, "write") /\ Done(h) /\ UNCHANGED past /\ req[h] # None
  BY DEF WriteItem, DeleteItem, DeleteRow, WriteLink, InsertItem, At
<1>. SUFFICES ASSUME "overlap" \notin past, "relink" \notin past PROVE OneRow(txs')
  BY <1>1, TurnEnds
<1>2. OneRow(txs) /\ LinkReady(req[h], txs)
  BY DEF ServedInTurn
<1>3. PICK q \in Request : q = req[h]
  BY <1>1, InFlight
<1>4. CASE WriteItem(h)
  <2>1. CASE q.row \notin DOMAIN txs
    BY <1>2, <1>3, <1>4, <2>1 DEF WriteItem
  <2>2. CASE q.row \in DOMAIN txs
    <3>1. txs' = [txs EXCEPT ![q.row].amount = q.amount]
      BY <1>3, <1>4, <2>2 DEF WriteItem
    <3>2. DOMAIN txs' = DOMAIN txs /\ \A j \in DOMAIN txs : txs'[j].source = txs[j].source
      BY <2>2, <3>1, SameTable DEF Table, Row
    <3>. QED BY <1>2, <3>2 DEF OneRow
  <2>. QED BY <2>1, <2>2
<1>5. CASE DeleteItem(h) \/ DeleteRow(h)
  <2>1. PICK S : Fewer(txs', txs, S)
    BY <1>5, DeleteTable
  <2>. QED BY <1>2, <2>1 DEF OneRow, Fewer
<1>6. CASE WriteLink(h)
  <2>1. CASE q.row \notin DOMAIN txs
    BY <1>2, <1>3, <1>6, <2>1 DEF WriteLink
  <2>2. CASE q.row \in DOMAIN txs
    <3>1. txs' = [txs EXCEPT ![q.row].source = q.source]
      BY <1>3, <1>6, <2>2 DEF WriteLink
    <3>2. /\ DOMAIN txs' = DOMAIN txs
          /\ \A j \in DOMAIN txs : txs'[j].source = IF j = q.row THEN q.source ELSE txs[j].source
      BY <2>2, <3>1, SameTable DEF Table, Row
    <3>3. \A j \in DOMAIN txs : txs[j].source = q.source => j = q.row
      BY <1>1, <1>2, <1>3, <1>6 DEF LinkReady, WriteLink, At
    <3>. QED BY <1>2, <3>2, <3>3 DEF OneRow
  <2>. QED BY <2>1, <2>2
<1>7. ASSUME NEW i \in Ids, InsertItem(h, i) PROVE OneRow(txs')
  <2>1. CASE q.parent \notin DOMAIN txs
    BY <1>2, <1>3, <1>7, <2>1, InsertTable
  <2>2. CASE q.parent \in DOMAIN txs
    <3>1. PICK r \in Row : OneMore(txs', txs, i, r) /\ r.source = None
      BY <1>3, <1>7, <2>2, InsertTable
    <3>. QED BY <1>2, <3>1, LineItemsAssumption DEF OneRow, OneMore
  <2>. QED BY <2>1, <2>2
<1>. QED BY <1>4, <1>5, <1>6, <1>7

LEMMA TurnNext == ItemsInv /\ ServedInTurn /\ [Next]_vars => ServedInTurn'
<1>. SUFFICES ASSUME ItemsInv, ServedInTurn, [Next]_vars PROVE ServedInTurn'
  OBVIOUS
<1>1. CASE UNCHANGED vars
  BY <1>1 DEF vars, ServedInTurn, Alone
<1>2. CASE \E i \in Ids, s \in BOOLEAN, a \in Amounts, e \in Sources \cup {None} : Post(i, s, a, e)
  <2>1. PICK i \in Ids, s \in BOOLEAN, a \in Amounts, e \in Sources \cup {None} : Post(i, s, a, e)
    BY <1>2
  <2>2. PICK r \in Row : OneMore(txs', txs, i, r) /\ r.parent = None /\ r.source = e
    BY <2>1, PostTable
  <2>3. NoNewParents(txs, txs') /\ (e = None => NoNewLinks(txs, txs'))
    BY <2>2 DEF OneMore, NoNewParents, NoNewLinks
  <2>4. past \subseteq past' /\ (e = None \/ "relink" \in past') /\ UNCHANGED req
    BY <2>1 DEF Post
  <2>. QED BY <2>3, <2>4, TurnTable
<1>3. CASE \E i \in Ids, s \in BOOLEAN, a \in Amounts, e \in Sources \cup {None} : Put(i, s, a, e)
  <2>1. PICK i \in Ids, s \in BOOLEAN, a \in Amounts, e \in Sources \cup {None} : Put(i, s, a, e)
    BY <1>3
  <2>2. DOMAIN txs' = DOMAIN txs /\ \A j \in DOMAIN txs :
            txs'[j].parent = txs[j].parent /\ txs'[j].source = IF j = i THEN e ELSE txs[j].source
    BY <2>1, SameTable DEF Put, Table, Row
  <2>3. NoNewParents(txs, txs') /\ (e \in {None, txs[i].source} => NoNewLinks(txs, txs'))
    BY <2>2 DEF NoNewParents, NoNewLinks
  <2>4. past \subseteq past' /\ (e \in {None, txs[i].source} \/ "relink" \in past') /\ UNCHANGED req
    BY <2>1 DEF Put
  <2>. QED BY <2>3, <2>4, TurnTable
<1>4. CASE \E i \in Ids : Unlink(i)
  <2>1. PICK i \in Ids : Unlink(i)
    BY <1>4
  <2>2. NoNewParents(txs, txs') /\ NoNewLinks(txs, txs')
    BY <2>1, SameTable DEF Unlink, Table, Row, NoNewParents, NoNewLinks
  <2>. QED BY <2>1, <2>2, TurnTable DEF Unlink
<1>5. CASE \E h \in Handlers :
             \/ \E p \in Ids, a \in Amounts : StartCreate(h, p, a)
             \/ \E p, i \in Ids, a \in Amounts \cup {None} : StartUpdate(h, p, i, a)
             \/ \E p, i \in Ids : StartDeleteItem(h, p, i)
             \/ \E i \in Ids : StartDelete(h, i)
             \/ \E i \in Ids, source \in Sources : StartLink(h, i, source)
  BY <1>5, TurnStart
<1>6. CASE \E h \in Handlers : \/ SumSiblings(h) \/ CheckOwner(h) \/ ReadExisting(h)
                               \/ CountItems(h) \/ CheckClash(h) \/ Abandon(h)
  BY <1>6, TurnChecks
<1>7. CASE \E h \in Handlers : \/ WriteItem(h) \/ DeleteItem(h) \/ DeleteRow(h) \/ WriteLink(h)
                               \/ \E i \in Ids : InsertItem(h, i)
  BY <1>7, TurnWrites
<1>. QED BY <1>1, <1>2, <1>3, <1>4, <1>5, <1>6, <1>7 DEF Next, Handle

LEMMA TurnInductive == Spec => []ServedInTurn
<1>1. Init => ServedInTurn
  <2>. SUFFICES ASSUME Init PROVE ServedInTurn
    OBVIOUS
  <2>1. txs = << >> /\ req = [h \in Handlers |-> None]
    BY DEF Init
  <2>2. DOMAIN txs = {} /\ \A h \in Handlers : req[h] = None
    BY <2>1
  <2>. QED BY <2>2 DEF ServedInTurn, Alone, OneRow, DeleteReady, LinkReady
<1>. QED BY <1>1, TurnNext, ItemsInductive, PTL DEF Spec

(* link in transactions_children.rs: by requests served one after the other *)
(* no occurrence comes to have two transactions, as long as a row is given  *)
(* its link by that route and not by its own.                               *)
THEOREM OccurrencesHaveOneRow == Spec => []OneRowPerOccurrence
<1>1. ItemsInv /\ ServedInTurn => OneRowPerOccurrence
  <2>. SUFFICES ASSUME ServedInTurn, "overlap" \notin past, "relink" \notin past, NEW s \in Sources
                PROVE  Cardinality(Linked(s)) <= 1
    BY DEF OneRowPerOccurrence
  <2>1. \A i, j \in Linked(s) : i = j
    BY DEF ServedInTurn, OneRow, Linked
  <2>2. CASE Linked(s) = {}
    BY <2>2, FS_EmptySet
  <2>3. CASE Linked(s) # {}
    <3>1. PICK i : Linked(s) = {i}
      BY <2>1, <2>3
    <3>2. Cardinality({i}) = 1
      BY FS_Singleton
    <3>. QED BY <3>1, <3>2
  <2>. QED BY <2>2, <2>3
<1>. QED BY <1>1, ItemsInductive, TurnInductive, PTL

(* delete in transactions.rs: served alone, the deletion of a row takes no  *)
(* line item with it.                                                       *)
THEOREM DeletionsSpareItems == Spec => DeletionSparesItems
<1>1. ItemsInv /\ ServedInTurn /\ [Next]_vars =>
        [\A h \in Handlers : "overlap" \notin past /\ DeleteRow(h) =>
            \A i \in DOMAIN txs : txs[i].parent # None /\ i # req[h].row => i \in DOMAIN txs']_vars
  <2>. SUFFICES ASSUME ItemsInv, ServedInTurn, NEW h \in Handlers, "overlap" \notin past, DeleteRow(h),
                       NEW i \in DOMAIN txs, i # req[h].row
                PROVE  i \in DOMAIN txs'
    OBVIOUS
  <2>1. At(h, "write") /\ req[h].kind = "delete" /\ DeleteReady(req[h], txs)
    BY DEF DeleteRow, ServedInTurn
  <2>2. Items(req[h].row) = {}
    BY <2>1 DEF DeleteReady, At, Items
  <2>. QED BY <2>2 DEF DeleteRow, Without
<1>. QED BY <1>1, ItemsInductive, TurnInductive, PTL DEF Spec, DeletionSparesItems

-----------------------------------------------------------------------------
(* What the items of a receipt come to. *)

AmountOf(t) == [i \in DOMAIN t |-> t[i].amount]
TotalOf(t, p, x) == SumOf(AmountOf(t), ItemsOf(t, p) \ {x})

LEMMA ItemsTotalIsSum ==
    ASSUME NEW p, NEW x
    PROVE  ItemsTotal(p, x) = TotalOf(txs, p, x)
<1> DEFINE S == ItemsOf(txs, p) \ {x}
           f == AmountOf(txs)
           IsThisSum(sum) ==
             sum = [T \in SUBSET S |->
                      IF T = {} THEN 0
                      ELSE LET y == CHOOSE y \in T : TRUE IN txs[y].amount + sum[T \ {y}]]
<1>1. ItemsTotal(p, x) = (CHOOSE sum : IsThisSum(sum))[S]
  BY DEF ItemsTotal, Items, ItemsOf, MapThenSumSet, MapThenFoldSet
<1>2. ASSUME NEW sum PROVE IsSum(sum, f, S) <=> IsThisSum(sum)
  <2>1. \A T \in SUBSET S : T # {} =>
          f[CHOOSE y \in T : TRUE] = txs[CHOOSE y \in T : TRUE].amount
    BY DEF AmountOf, ItemsOf
  <2>. HIDE DEF f, S
  <2>. QED BY <2>1 DEF IsSum
<1>3. (CHOOSE sum : IsSum(sum, f, S)) = (CHOOSE sum : IsThisSum(sum))
  <2>. HIDE DEF IsThisSum
  <2>. QED BY <1>2
<1>. HIDE DEF IsThisSum
<1>. QED BY <1>1, <1>3, SumIter DEF TotalOf

(* A table of rows: its items are finite and cost whole cents. *)
Counted(t) == IsFiniteSet(DOMAIN t) /\ \A i \in DOMAIN t : t[i].amount \in Nat

LEMMA CountedTable == ASSUME NEW t, NEW g, Table(t, g), IsFiniteSet(g) PROVE Counted(t)
<1>1. IsFiniteSet(DOMAIN t)
  BY FS_Subset DEF Table
<1>. QED BY <1>1, LineItemsAssumption DEF Table, Row, Counted

LEMMA ItemsAreCounted ==
    ASSUME NEW t, Counted(t), NEW p, NEW x
    PROVE  /\ IsFiniteSet(ItemsOf(t, p) \ {x})
           /\ \A i \in ItemsOf(t, p) \ {x} : AmountOf(t)[i] = t[i].amount /\ AmountOf(t)[i] \in Nat
           /\ TotalOf(t, p, x) \in Nat
<1> DEFINE S == ItemsOf(t, p) \ {x}
           f == AmountOf(t)
<1>1. IsFiniteSet(S)
  <2>1. S \subseteq DOMAIN t
    BY DEF ItemsOf
  <2>. QED BY <2>1, FS_Subset DEF Counted
<1>2. \A i \in S : f[i] = t[i].amount /\ f[i] \in Nat
  BY DEF ItemsOf, AmountOf, Counted
<1>. HIDE DEF S, f
<1>3. SumOf(f, S) \in Nat
  BY <1>1, <1>2, SumNat
<1>. QED BY <1>1, <1>2, <1>3 DEF TotalOf, S, f

(* The items are the same, so is their total. *)
SameItems(t, u, p) ==
    ItemsOf(u, p) = ItemsOf(t, p) /\ \A i \in ItemsOf(t, p) : u[i].amount = t[i].amount

LEMMA TotalStays ==
    ASSUME NEW t, NEW u, NEW p, SameItems(t, u, p), NEW x
    PROVE  TotalOf(u, p, x) = TotalOf(t, p, x)
<1> DEFINE S == ItemsOf(t, p) \ {x}
           f == AmountOf(t)
           k == AmountOf(u)
<1>1. \A i \in S : f[i] = k[i]
  BY DEF AmountOf, ItemsOf, SameItems
<1>2. ItemsOf(u, p) \ {x} = S
  BY DEF SameItems
<1>. HIDE DEF S, f, k
<1>3. SumOf(f, S) = SumOf(k, S)
  BY <1>1, SumFrame
<1>. QED BY <1>2, <1>3 DEF TotalOf, S, f, k

(* Fewer items come to no more. *)
LEMMA TotalShrinks ==
    ASSUME NEW t, Counted(t), NEW u, NEW S, Fewer(u, t, S), NEW p
    PROVE  TotalOf(u, p, None) <= TotalOf(t, p, None)
<1> DEFINE A == ItemsOf(t, p) \ {None}
           B == ItemsOf(u, p) \ {None}
           f == AmountOf(t)
           k == AmountOf(u)
<1>1. B \in SUBSET A /\ \A i \in B : f[i] = k[i]
  BY DEF Fewer, ItemsOf, AmountOf
<1>2. IsFiniteSet(A) /\ \A i \in A : f[i] \in Nat
  BY ItemsAreCounted
<1>. HIDE DEF A, B, f, k
<1>3. SumOf(f, B) <= SumOf(f, A)
  BY <1>1, <1>2, SumPart
<1>4. SumOf(f, B) = SumOf(k, B)
  BY <1>1, SumFrame
<1>. QED BY <1>3, <1>4 DEF TotalOf, A, B, f, k

(* Every receipt is as large as its items, and a line admitted for one      *)
(* fits what is left of it.                                                 *)
Fits(t) == \A p \in DOMAIN t : ItemsOf(t, p) # {} => TotalOf(t, p, None) <= t[p].amount

RoomLeft(r, t) == TotalOf(t, r.parent, r.row) + r.amount <= r.limit

Admitted(r, t) ==
    r # None /\ r.kind \in {"create", "update"} /\ r.parent \in DOMAIN t =>
        /\ r.limit = t[r.parent].amount
        /\ r.step = "write" => RoomLeft(r, t)

InTurn == "overlap" \notin past /\ "edit" \notin past
FitsInTurn == InTurn => Fits(txs) /\ \A h \in Handlers : Admitted(req[h], txs)

(* Receipts that were there keep their items; new rows have none. *)
SameSplits(t, u, g) ==
    \A p \in DOMAIN u :
        /\ p \in g => p \in DOMAIN t /\ u[p].amount = t[p].amount /\ SameItems(t, u, p)
        /\ p \notin g => ItemsOf(u, p) = {}

LEMMA FitsStay == ASSUME NEW t, NEW u, NEW g, Fits(t), SameSplits(t, u, g) PROVE Fits(u)
<1>. SUFFICES ASSUME NEW p \in DOMAIN u, ItemsOf(u, p) # {} PROVE TotalOf(u, p, None) <= u[p].amount
  BY DEF Fits
<1>1. p \in DOMAIN t /\ u[p].amount = t[p].amount /\ SameItems(t, u, p) /\ ItemsOf(t, p) # {}
  BY DEF SameSplits, SameItems
<1>2. TotalOf(u, p, None) = TotalOf(t, p, None)
  BY <1>1, TotalStays
<1>. QED BY <1>1, <1>2 DEF Fits

LEMMA AdmittedStays ==
    ASSUME NEW r, NEW t, NEW u, NEW g, RequestOK(r, t, g), Admitted(r, t), SameSplits(t, u, g)
    PROVE  Admitted(r, u)
<1>. SUFFICES ASSUME r # None, r.kind \in {"create", "update"}, r.parent \in DOMAIN u
              PROVE  r.limit = u[r.parent].amount /\ (r.step = "write" => RoomLeft(r, u))
  BY DEF Admitted
<1>1. r.parent \in g
  BY DEF RequestOK, CreateOK, UpdateOK
<1>2. r.parent \in DOMAIN t /\ u[r.parent].amount = t[r.parent].amount /\ SameItems(t, u, r.parent)
  BY <1>1 DEF SameSplits
<1>3. TotalOf(u, r.parent, r.row) = TotalOf(t, r.parent, r.row)
  BY <1>2, TotalStays
<1>. QED BY <1>2, <1>3 DEF Admitted, RoomLeft

LEMMA FitTable ==
    ASSUME ItemsInv, FitsInTurn, UNCHANGED req, past \subseteq past', SameSplits(txs, txs', given)
    PROVE  FitsInTurn'
<1>. SUFFICES ASSUME InTurn PROVE Fits(txs') /\ \A h \in Handlers : Admitted(req'[h], txs')
  BY DEF FitsInTurn, InTurn
<1>1. Fits(txs')
  BY FitsStay DEF FitsInTurn, InTurn
<1>2. \A h \in Handlers : Admitted(req[h], txs')
  BY SameTable, AdmittedStays DEF FitsInTurn, InTurn
<1>. QED BY <1>1, <1>2

LEMMA FitEnds ==
    ASSUME ItemsInv, ServedInTurn, FitsInTurn, NEW h \in Handlers, req[h] # None, Done(h), UNCHANGED past,
           InTurn => Fits(txs')
    PROVE  FitsInTurn'
<1>. SUFFICES ASSUME InTurn PROVE Fits(txs') /\ \A k \in Handlers : Admitted(req'[k], txs')
  BY DEF FitsInTurn, InTurn
<1>1. \A k \in Handlers : req'[k] = None
  BY DEF ServedInTurn, InTurn, Alone, ItemsInv, Done
<1>. QED BY <1>1 DEF Admitted

LEMMA FitGoesOn ==
    ASSUME ItemsInv, FitsInTurn, NEW h \in Handlers, UNCHANGED txs,
           NEW r, Refitted(req', req, h, r), InTurn' => InTurn /\ Admitted(r, txs)
    PROVE  FitsInTurn'
<1>. SUFFICES ASSUME InTurn' PROVE Fits(txs') /\ \A k \in Handlers : Admitted(req'[k], txs')
  BY DEF FitsInTurn, InTurn
<1>1. \A k \in Handlers : req'[k] = IF k = h THEN r ELSE req[k]
  BY DEF Refitted, ItemsInv
<1>2. \A k \in Handlers : Admitted(req'[k], txs)
  BY <1>1 DEF FitsInTurn, InTurn
<1>. QED BY <1>2 DEF FitsInTurn, InTurn

LEMMA FitBegins ==
    ASSUME ItemsInv, FitsInTurn, NEW h \in Handlers, NEW r, Begin(h, r), UNCHANGED txs, Admitted(r, txs)
    PROVE  FitsInTurn'
<1>1. Refitted(req', req, h, r) /\ (InTurn' => InTurn)
  BY DEF Begin, Refitted, InTurn
<1>. QED BY <1>1, FitGoesOn

LEMMA FitStart ==
    ASSUME ItemsInv, FitsInTurn, NEW h \in Handlers,
           \/ \E p \in Ids, a \in Amounts : StartCreate(h, p, a)
           \/ \E p, i \in Ids, a \in Amounts \cup {None} : StartUpdate(h, p, i, a)
           \/ \E p, i \in Ids : StartDeleteItem(h, p, i)
           \/ \E i \in Ids : StartDelete(h, i)
           \/ \E i \in Ids, source \in Sources : StartLink(h, i, source)
    PROVE  FitsInTurn'
<1>1. CASE \E p \in Ids, a \in Amounts : StartCreate(h, p, a)
  <2>1. PICK p \in Ids, a \in Amounts : StartCreate(h, p, a)
    BY <1>1
  <2> DEFINE r == [Blank EXCEPT !.kind = "create", !.step = "sum", !.parent = p, !.amount = a, !.limit = txs[p].amount]
  <2>2. Begin(h, r) /\ UNCHANGED txs /\ r.step # "write" /\ r.parent = p /\ r.limit = txs[p].amount
    BY <2>1 DEF StartCreate, Blank
  <2>. HIDE DEF r
  <2>3. Admitted(r, txs)
    BY <2>2 DEF Admitted
  <2>. QED BY <2>2, <2>3, FitBegins
<1>2. CASE \E p, i \in Ids, a \in Amounts \cup {None} : StartUpdate(h, p, i, a)
  <2>1. PICK p \in Ids, i \in Ids, a \in Amounts \cup {None} : StartUpdate(h, p, i, a)
    BY <1>2
  <2> DEFINE r == [Blank EXCEPT !.kind = "update", !.step = "owner", !.parent = p, !.row = i,
                                !.amount = a, !.limit = txs[p].amount]
  <2>2. Begin(h, r) /\ UNCHANGED txs /\ r.step # "write" /\ r.parent = p /\ r.limit = txs[p].amount
    BY <2>1 DEF StartUpdate, Blank
  <2>. HIDE DEF r
  <2>3. Admitted(r, txs)
    BY <2>2 DEF Admitted
  <2>. QED BY <2>2, <2>3, FitBegins
<1>3. CASE \E p, i \in Ids : StartDeleteItem(h, p, i)
  <2>1. PICK p \in Ids, i \in Ids : StartDeleteItem(h, p, i)
    BY <1>3
  <2> DEFINE r == [Blank EXCEPT !.kind = "deleteItem", !.step = "owner", !.parent = p, !.row = i]
  <2>2. Begin(h, r) /\ UNCHANGED txs /\ r.kind = "deleteItem"
    BY <2>1 DEF StartDeleteItem, Blank
  <2>. HIDE DEF r
  <2>3. Admitted(r, txs)
    BY <2>2 DEF Admitted
  <2>. QED BY <2>2, <2>3, FitBegins
<1>4. CASE \E i \in Ids : StartDelete(h, i)
  <2>1. PICK i \in Ids : StartDelete(h, i)
    BY <1>4
  <2> DEFINE r == [Blank EXCEPT !.kind = "delete", !.step = "count", !.row = i]
  <2>2. Begin(h, r) /\ UNCHANGED txs /\ r.kind = "delete"
    BY <2>1 DEF StartDelete, Blank
  <2>. HIDE DEF r
  <2>3. Admitted(r, txs)
    BY <2>2 DEF Admitted
  <2>. QED BY <2>2, <2>3, FitBegins
<1>5. CASE \E i \in Ids, source \in Sources : StartLink(h, i, source)
  <2>1. PICK i \in Ids, s \in Sources : StartLink(h, i, s)
    BY <1>5
  <2> DEFINE r == [Blank EXCEPT !.kind = "link", !.step = "clash", !.row = i, !.source = s]
  <2>2. Begin(h, r) /\ UNCHANGED txs /\ r.kind = "link"
    BY <2>1 DEF StartLink, Blank
  <2>. HIDE DEF r
  <2>3. Admitted(r, txs)
    BY <2>2 DEF Admitted
  <2>. QED BY <2>2, <2>3, FitBegins
<1>. QED BY <1>1, <1>2, <1>3, <1>4, <1>5

LEMMA FitGoto ==
    ASSUME ItemsInv, FitsInTurn, NEW h \in Handlers, NEW s, At(h, s), NEW n, Goto(h, n), UNCHANGED <<txs, past>>,
           n = "write" /\ req[h].kind \in {"create", "update"} => RoomLeft(req[h], txs)
    PROVE  FitsInTurn'
<1>1. PICK q \in Request : q = req[h]
  BY InFlight
<1> DEFINE r == [q EXCEPT !.step = n]
<1>2. Refitted(req', req, h, r)
  BY <1>1 DEF Goto, Refitted
<1>3. r.step = n /\ r.kind = q.kind /\ r.row = q.row /\ r.parent = q.parent /\ r.amount = q.amount /\ r.limit = q.limit
  BY DEF Request
<1>. HIDE DEF r
<1>4. q # None
  BY <1>1 DEF At
<1>5. ASSUME InTurn PROVE Admitted(r, txs)
  <2>1. Admitted(q, txs)
    BY <1>1, <1>5 DEF FitsInTurn, InTurn
  <2>2. n = "write" /\ q.kind \in {"create", "update"} => RoomLeft(q, txs)
    BY <1>1
  <2>. QED BY <1>3, <1>4, <2>1, <2>2 DEF Admitted, RoomLeft
<1>. QED BY <1>2, <1>5, FitGoesOn DEF InTurn

LEMMA FitRefused ==
    ASSUME ItemsInv, ServedInTurn, FitsInTurn, NEW h \in Handlers, req[h] # None, Done(h), UNCHANGED <<txs, past>>
    PROVE  FitsInTurn'
BY FitEnds DEF FitsInTurn, InTurn

LEMMA FitChecks ==
    ASSUME ItemsInv, ServedInTurn, FitsInTurn, NEW h \in Handlers,
           SumSiblings(h) \/ CheckOwner(h) \/ ReadExisting(h) \/ CountItems(h) \/ CheckClash(h) \/ Abandon(h)
    PROVE  FitsInTurn'
<1>1. CASE SumSiblings(h)
  <2>1. /\ At(h, "sum") /\ UNCHANGED <<txs, past>>
        /\ Done(h) \/ (Goto(h, "write") /\ ~(ItemsTotal(req[h].parent, req[h].row) + req[h].amount > req[h].limit))
    BY <1>1 DEF SumSiblings
  <2>2. req[h].kind \in {"create", "update"} /\ req[h] # None
    BY <2>1, InFlight
  <2>3. CASE Done(h)
    BY <2>1, <2>2, <2>3, FitRefused
  <2>4. CASE Goto(h, "write") /\ ~(ItemsTotal(req[h].parent, req[h].row) + req[h].amount > req[h].limit)
    <3>1. CASE ~InTurn
      BY <2>1, <3>1 DEF FitsInTurn, InTurn
    <3>2. CASE InTurn
      <4>1. CASE req[h].parent \notin DOMAIN txs
        <5>1. PICK q \in Request : q = req[h]
          BY <2>1, InFlight
        <5> DEFINE r == [q EXCEPT !.step = "write"]
        <5>2. Refitted(req', req, h, r)
          BY <2>4, <5>1 DEF Goto, Refitted
        <5>3. r.parent = q.parent
          BY DEF Request
        <5>. HIDE DEF r
        <5>4. Admitted(r, txs)
          BY <4>1, <5>1, <5>3 DEF Admitted
        <5>. QED BY <2>1, <5>2, <5>4, FitGoesOn DEF InTurn
      <4>2. CASE req[h].parent \in DOMAIN txs
        <5>1. PICK q \in Request : q = req[h]
          BY <2>1, InFlight
        <5> DEFINE n == TotalOf(txs, q.parent, q.row)
        <5>2. ~(n + q.amount > q.limit)
          BY <2>4, <5>1, ItemsTotalIsSum
        <5>3. n \in Nat
          BY SameTable, CountedTable, ItemsAreCounted
        <5>4. q.amount \in Nat
          BY <2>1, <5>1, InFlight, LineItemsAssumption DEF RequestOK, CreateOK, UpdateOK
        <5>5. q.limit \in Nat
          BY <2>2, <3>2, <4>2, <5>1, SameTable, LineItemsAssumption DEF FitsInTurn, InTurn, Admitted, Table, Row
        <5>. HIDE DEF n
        <5>6. n + q.amount <= q.limit
          BY <5>2, <5>3, <5>4, <5>5
        <5>7. RoomLeft(req[h], txs)
          BY <5>1, <5>6 DEF RoomLeft, n
        <5>. QED BY <2>1, <2>4, <5>7, FitGoto
      <4>. QED BY <4>1, <4>2
    <3>. QED BY <3>1, <3>2
  <2>. QED BY <2>1, <2>3, <2>4
<1>2. CASE CheckOwner(h)
  <2>1. /\ At(h, "owner") /\ UNCHANGED <<txs, past>>
        /\ Done(h) \/ Goto(h, "existing") \/ (Goto(h, "write") /\ req[h].kind # "update")
    BY <1>2 DEF CheckOwner
  <2>2. req[h].kind \in {"update", "deleteItem"} /\ req[h] # None
    BY <2>1, InFlight
  <2>. QED BY <2>1, <2>2, FitGoto, FitRefused
<1>3. CASE ReadExisting(h)
  <2>1. At(h, "existing") /\ UNCHANGED <<txs, past>>
    BY <1>3 DEF ReadExisting
  <2>2. PICK r \in Request : r = req[h]
    BY <2>1, InFlight
  <2>3. r # None /\ r.kind = "update"
    BY <2>1, <2>2, InFlight
  <2>4. CASE r.row \notin DOMAIN txs
    BY <1>3, <2>1, <2>2, <2>3, <2>4, FitRefused DEF ReadExisting
  <2>5. CASE r.row \in DOMAIN txs
    <3> DEFINE a == IF r.amount = None THEN txs[r.row].amount ELSE r.amount
               n == [r EXCEPT !.step = "sum", !.amount = a]
    <3>1. req' = [req EXCEPT ![h] = n]
      BY <1>3, <2>2, <2>5, SameTable DEF ReadExisting, ItemsInv
    <3>2. n.step = "sum" /\ n.kind = r.kind /\ n.parent = r.parent /\ n.limit = r.limit
      BY DEF Request
    <3>. HIDE DEF n
    <3>3. Refitted(req', req, h, n)
      BY <3>1 DEF Refitted
    <3>4. InTurn => Admitted(n, txs)
      BY <2>2, <2>3, <3>2 DEF FitsInTurn, InTurn, Admitted
    <3>5. InTurn' => InTurn
      BY <2>1 DEF InTurn
    <3>. QED BY <2>1, <3>3, <3>4, <3>5, FitGoesOn
  <2>. QED BY <2>4, <2>5
<1>4. CASE CountItems(h)
  <2>1. At(h, "count") /\ UNCHANGED <<txs, past>> /\ (Done(h) \/ Goto(h, "write"))
    BY <1>4 DEF CountItems
  <2>2. req[h].kind = "delete" /\ req[h] # None
    BY <2>1, InFlight
  <2>. QED BY <2>1, <2>2, FitGoto, FitRefused
<1>5. CASE CheckClash(h)
  <2>1. At(h, "clash") /\ UNCHANGED <<txs, past>> /\ (Done(h) \/ Goto(h, "write"))
    BY <1>5 DEF CheckClash
  <2>2. req[h].kind = "link" /\ req[h] # None
    BY <2>1, InFlight
  <2>. QED BY <2>1, <2>2, FitGoto, FitRefused
<1>6. CASE Abandon(h)
  BY <1>6, FitRefused DEF Abandon
<1>. QED BY <1>1, <1>2, <1>3, <1>4, <1>5, <1>6

(* One line more, and it fits. *)
LEMMA FitsOneMore ==
    ASSUME NEW t, NEW g, Table(t, g), IsFiniteSet(g), g \subseteq Ids, HaveReceipts(t), Fits(t),
           NEW u, NEW i \in Ids, i \notin g, NEW r \in Row, OneMore(u, t, i, r),
           NEW p \in DOMAIN t, r.parent = p, TotalOf(t, p, None) + r.amount <= t[p].amount
    PROVE  Fits(u)
<1>1. i \notin DOMAIN t /\ None \notin DOMAIN t /\ i # None /\ p # i
  BY LineItemsAssumption DEF Table
<1>2. Counted(t) /\ r.amount \in Nat
  BY CountedTable, LineItemsAssumption DEF Row
<1>. SUFFICES ASSUME NEW q \in DOMAIN u, ItemsOf(u, q) # {} PROVE TotalOf(u, q, None) <= u[q].amount
  BY DEF Fits
<1>3. q # i
  BY <1>1 DEF ItemsOf, OneMore, HaveReceipts
<1>4. q \in DOMAIN t /\ u[q].amount = t[q].amount
  BY <1>3 DEF OneMore
<1>5. CASE q # p
  <2>1. SameItems(t, u, q)
    BY <1>1, <1>5 DEF SameItems, ItemsOf, OneMore
  <2>2. TotalOf(u, q, None) = TotalOf(t, q, None) /\ ItemsOf(t, q) # {}
    BY <2>1, TotalStays DEF SameItems
  <2>. QED BY <1>4, <2>2 DEF Fits
<1>6. CASE q = p
  <2> DEFINE A == ItemsOf(t, p) \ {None}
             f == AmountOf(t)
             k == AmountOf(u)
  <2>1. ItemsOf(u, p) \ {None} = A \cup {i} /\ i \notin A
    BY <1>1 DEF ItemsOf, OneMore
  <2>2. IsFiniteSet(A) /\ \A x \in A : f[x] \in Nat
    BY <1>2, ItemsAreCounted
  <2>3. k[i] = r.amount /\ \A x \in A : k[x] = f[x]
    BY <1>1 DEF ItemsOf, AmountOf, OneMore
  <2>. HIDE DEF A, f, k
  <2>4. SumOf(k, A \cup {i}) = k[i] + SumOf(k, A)
    BY <1>2, <2>1, <2>2, <2>3, SumAdd
  <2>5. SumOf(k, A) = SumOf(f, A)
    BY <2>3, SumFrame
  <2>6. TotalOf(u, p, None) = r.amount + TotalOf(t, p, None)
    BY <2>1, <2>3, <2>4, <2>5 DEF TotalOf, A, f, k
  <2>7. TotalOf(t, p, None) \in Nat /\ t[p].amount \in Nat
    BY <1>2, ItemsAreCounted DEF Counted
  <2>. QED BY <1>2, <1>4, <1>6, <2>6, <2>7
<1>. QED BY <1>5, <1>6

(* One line of another amount, and it fits. *)
LEMMA FitsChanged ==
    ASSUME NEW t, NEW g, Table(t, g), IsFiniteSet(g), g \subseteq Ids, HaveReceipts(t), Fits(t),
           NEW u, NEW i \in DOMAIN t, NEW a \in Nat, DOMAIN u = DOMAIN t,
           \A j \in DOMAIN t : u[j].parent = t[j].parent /\ u[j].amount = IF j = i THEN a ELSE t[j].amount,
           NEW p \in DOMAIN t, t[i].parent = p, TotalOf(t, p, i) + a <= t[p].amount
    PROVE  Fits(u)
<1>1. None \notin DOMAIN t /\ p # i
  BY LineItemsAssumption DEF Table, HaveReceipts
<1>2. Counted(t) /\ Counted(u)
  <2>1. Counted(t)
    BY CountedTable
  <2>. QED BY <2>1 DEF Counted
<1>. SUFFICES ASSUME NEW q \in DOMAIN u, ItemsOf(u, q) # {} PROVE TotalOf(u, q, None) <= u[q].amount
  BY DEF Fits
<1>3. q # i
  <2>1. PICK j \in DOMAIN t : t[j].parent = q
    BY DEF ItemsOf
  <2>2. q # None /\ t[q].parent = None
    BY <1>1, <2>1 DEF HaveReceipts
  <2>. QED BY <1>1, <2>2
<1>4. q \in DOMAIN t /\ u[q].amount = t[q].amount
  BY <1>3
<1>5. CASE q # p
  <2>1. SameItems(t, u, q)
    BY <1>5 DEF SameItems, ItemsOf
  <2>2. TotalOf(u, q, None) = TotalOf(t, q, None) /\ ItemsOf(t, q) # {}
    BY <2>1, TotalStays DEF SameItems
  <2>. QED BY <1>4, <2>2 DEF Fits
<1>6. CASE q = p
  <2> DEFINE A == ItemsOf(u, p) \ {None}
             f == AmountOf(t)
             k == AmountOf(u)
  <2>1. A \ {i} = ItemsOf(t, p) \ {i} /\ i \in A
    BY <1>1 DEF ItemsOf
  <2>2. IsFiniteSet(A) /\ \A x \in A : k[x] \in Nat
    BY <1>2, ItemsAreCounted
  <2>3. k[i] = a /\ \A x \in A \ {i} : k[x] = f[x]
    BY DEF ItemsOf, AmountOf
  <2>. HIDE DEF A, f, k
  <2>4. SumOf(k, A) = k[i] + SumOf(k, A \ {i})
    BY <2>1, <2>2, SumRemove
  <2> DEFINE B == A \ {i}
  <2>5. SumOf(k, B) = SumOf(f, B)
    <3>1. \A x \in B : k[x] = f[x]
      BY <2>3
    <3>. HIDE DEF B
    <3>. QED BY <3>1, SumFrame
  <2>6. TotalOf(u, p, None) = a + TotalOf(t, p, i)
    BY <2>1, <2>3, <2>4, <2>5 DEF TotalOf, A, f, k
  <2>7. TotalOf(t, p, i) \in Nat /\ t[p].amount \in Nat
    BY <1>2, ItemsAreCounted DEF Counted
  <2>. QED BY <1>4, <1>6, <2>6, <2>7
<1>. QED BY <1>5, <1>6

LEMMA FitsFewer ==
    ASSUME NEW t, Counted(t), Fits(t), NEW u, Counted(u), NEW S, Fewer(u, t, S)
    PROVE  Fits(u)
<1>. SUFFICES ASSUME NEW q \in DOMAIN u, ItemsOf(u, q) # {} PROVE TotalOf(u, q, None) <= u[q].amount
  BY DEF Fits
<1>1. q \in DOMAIN t /\ u[q].amount = t[q].amount /\ ItemsOf(t, q) # {}
  BY DEF Fewer, ItemsOf
<1>2. TotalOf(t, q, None) <= t[q].amount
  BY <1>1 DEF Fits
<1>3. TotalOf(u, q, None) <= TotalOf(t, q, None)
  BY TotalShrinks
<1>4. TotalOf(u, q, None) \in Nat /\ TotalOf(t, q, None) \in Nat /\ t[q].amount \in Nat
  BY <1>1, ItemsAreCounted DEF Counted
<1>. QED BY <1>1, <1>2, <1>3, <1>4

LEMMA SourceSplits ==
    ASSUME NEW t, NEW u, NEW g, DOMAIN t \subseteq g, DOMAIN u = DOMAIN t,
           \A j \in DOMAIN t : u[j].parent = t[j].parent /\ u[j].amount = t[j].amount
    PROVE  SameSplits(t, u, g)
BY DEF SameSplits, SameItems, ItemsOf

LEMMA FitWrites ==
    ASSUME ItemsInv, ServedInTurn, FitsInTurn, NEW h \in Handlers,
           WriteItem(h) \/ DeleteItem(h) \/ DeleteRow(h) \/ WriteLink(h) \/ \E i \in Ids : InsertItem(h, i)
    PROVE  FitsInTurn'
<1>1. At(h, "write") /\ Done(h) /\ UNCHANGED past /\ req[h] # None
  BY DEF WriteItem, DeleteItem, DeleteRow, WriteLink, InsertItem, At
<1>. SUFFICES ASSUME InTurn PROVE Fits(txs')
  BY <1>1, FitEnds
<1>2. Fits(txs) /\ Admitted(req[h], txs)
  BY DEF FitsInTurn, InTurn
<1>3. PICK q \in Request : q = req[h]
  BY <1>1, InFlight
<1>4. q # None /\ q.step = "write" /\ RequestOK(q, txs, given) /\ Admitted(q, txs)
  BY <1>1, <1>2, <1>3, InFlight
<1>5. CASE WriteItem(h)
  <2>1. CASE q.row \notin DOMAIN txs
    BY <1>2, <1>3, <1>5, <2>1 DEF WriteItem
  <2>2. CASE q.row \in DOMAIN txs
    <3>1. txs' = [txs EXCEPT ![q.row].amount = q.amount] /\ q.kind = "update"
      BY <1>3, <1>5, <2>2 DEF WriteItem
    <3>2. DOMAIN txs' = DOMAIN txs /\ \A j \in DOMAIN txs :
             txs'[j].parent = txs[j].parent /\ txs'[j].amount = IF j = q.row THEN q.amount ELSE txs[j].amount
      BY <2>2, <3>1, SameTable DEF Table, Row
    <3>3. q.amount \in Nat
      BY <1>4, <3>1, LineItemsAssumption DEF RequestOK, UpdateOK
    <3>4. txs[q.row].parent = q.parent /\ q.parent # None
      BY <1>4, <2>2, <3>1, SameTable, LineItemsAssumption DEF RequestOK, UpdateOK
    <3>5. q.parent \in DOMAIN txs
      BY <2>2, <3>4, SameTable DEF HaveReceipts
    <3>6. TotalOf(txs, q.parent, q.row) + q.amount <= txs[q.parent].amount
      BY <1>4, <3>1, <3>5 DEF Admitted, RoomLeft
    <3>7. PICK i, p, a : i = q.row /\ p = q.parent /\ a = q.amount
      OBVIOUS
    <3>8. i \in DOMAIN txs /\ p \in DOMAIN txs /\ a \in Nat /\ txs[i].parent = p
      BY <2>2, <3>3, <3>4, <3>5, <3>7
    <3>9. \A j \in DOMAIN txs :
             txs'[j].parent = txs[j].parent /\ txs'[j].amount = IF j = i THEN a ELSE txs[j].amount
      BY <3>2, <3>7
    <3>10. TotalOf(txs, p, i) + a <= txs[p].amount
      BY <3>6, <3>7
    <3>. QED BY ONLY <1>2, <3>2, <3>8, <3>9, <3>10, ItemsInv, SameTable, FitsChanged
  <2>. QED BY <2>1, <2>2
<1>6. CASE DeleteItem(h) \/ DeleteRow(h)
  <2>1. PICK S : Fewer(txs', txs, S)
    BY <1>6, DeleteTable
  <2>2. Counted(txs)
    BY SameTable, CountedTable
  <2>3. Counted(txs')
    BY <2>1, <2>2, FS_Subset DEF Counted, Fewer
  <2>. QED BY <1>2, <2>1, <2>2, <2>3, FitsFewer
<1>7. CASE WriteLink(h)
  <2>1. CASE q.row \notin DOMAIN txs
    BY <1>2, <1>3, <1>7, <2>1 DEF WriteLink
  <2>2. CASE q.row \in DOMAIN txs
    <3>1. txs' = [txs EXCEPT ![q.row].source = q.source]
      BY <1>3, <1>7, <2>2 DEF WriteLink
    <3>2. /\ DOMAIN txs' = DOMAIN txs
          /\ \A j \in DOMAIN txs : txs'[j].parent = txs[j].parent /\ txs'[j].amount = txs[j].amount
      BY <2>2, <3>1, SameTable DEF Table, Row
    <3>3. SameSplits(txs, txs', given)
      BY <3>2, SameTable, SourceSplits DEF Table
    <3>. QED BY <1>2, <3>3, FitsStay
  <2>. QED BY <2>1, <2>2
<1>8. ASSUME NEW i \in Ids, InsertItem(h, i) PROVE Fits(txs')
  <2>1. CASE q.parent \notin DOMAIN txs
    BY <1>2, <1>3, <1>8, <2>1, InsertTable
  <2>2. CASE q.parent \in DOMAIN txs
    <3>1. PICK r \in Row : OneMore(txs', txs, i, r) /\ i \notin given /\ r.parent = q.parent /\ r.amount = q.amount
      BY <1>3, <1>8, <2>2, InsertTable
    <3>2. q.kind = "create" /\ q.row = None
      BY <1>3, <1>4, <1>8 DEF InsertItem, RequestOK, CreateOK
    <3>3. TotalOf(txs, q.parent, None) + r.amount <= txs[q.parent].amount
      BY <1>4, <2>2, <3>1, <3>2 DEF Admitted, RoomLeft
    <3>4. PICK p : p = q.parent
      OBVIOUS
    <3>5. p \in DOMAIN txs /\ r.parent = p /\ TotalOf(txs, p, None) + r.amount <= txs[p].amount
      BY <2>2, <3>1, <3>3, <3>4
    <3>. QED BY <1>2, <3>1, <3>5, SameTable, FitsOneMore
  <2>. QED BY <2>1, <2>2
<1>. QED BY <1>5, <1>6, <1>7, <1>8

LEMMA FitNext == ItemsInv /\ ServedInTurn /\ FitsInTurn /\ [Next]_vars => FitsInTurn'
<1>. SUFFICES ASSUME ItemsInv, ServedInTurn, FitsInTurn, [Next]_vars PROVE FitsInTurn'
  OBVIOUS
<1>1. CASE UNCHANGED vars
  BY <1>1 DEF vars, FitsInTurn, InTurn
<1>2. CASE \E i \in Ids, s \in BOOLEAN, a \in Amounts, e \in Sources \cup {None} : Post(i, s, a, e)
  <2>1. PICK i \in Ids, s \in BOOLEAN, a \in Amounts, e \in Sources \cup {None} : Post(i, s, a, e)
    BY <1>2
  <2>2. PICK r \in Row : OneMore(txs', txs, i, r) /\ r.parent = None /\ i \notin given
    BY <2>1, PostTable
  <2>3. None \notin given /\ DOMAIN txs \subseteq given /\ i # None
    BY SameTable, LineItemsAssumption DEF Table
  <2>4. SameSplits(txs, txs', given)
    <3>. SUFFICES ASSUME NEW p \in DOMAIN txs'
                  PROVE  /\ p \in given => p \in DOMAIN txs /\ txs'[p].amount = txs[p].amount /\ SameItems(txs, txs', p)
                         /\ p \notin given => ItemsOf(txs', p) = {}
      BY DEF SameSplits
    <3>1. CASE p = i
      <4>1. \A j \in DOMAIN txs : txs[j].parent # i
        BY <2>2, <2>3, SameTable DEF HaveReceipts
      <4>. QED BY <2>2, <2>3, <3>1, <4>1 DEF OneMore, ItemsOf
    <3>2. CASE p # i
      <4>1. p \in DOMAIN txs /\ txs'[p] = txs[p] /\ p \in given
        BY <2>2, <2>3, <3>2 DEF OneMore
      <4>2. SameItems(txs, txs', p)
        BY <2>2, <2>3, <4>1 DEF OneMore, SameItems, ItemsOf
      <4>. QED BY <4>1, <4>2
    <3>. QED BY <3>1, <3>2
  <2>5. UNCHANGED req /\ past \subseteq past'
    BY <2>1 DEF Post
  <2>. QED BY <2>4, <2>5, FitTable
<1>3. CASE \E i \in Ids, s \in BOOLEAN, a \in Amounts, e \in Sources \cup {None} : Put(i, s, a, e)
  <2>1. PICK i \in Ids, s \in BOOLEAN, a \in Amounts, e \in Sources \cup {None} : Put(i, s, a, e)
    BY <1>3
  <2>2. CASE a # txs[i].amount
    <3>1. ~InTurn'
      BY <2>1, <2>2 DEF Put, InTurn
    <3>. QED BY <3>1 DEF FitsInTurn
  <2>3. CASE a = txs[i].amount
    <3>1. /\ DOMAIN txs' = DOMAIN txs
          /\ \A j \in DOMAIN txs : txs'[j].parent = txs[j].parent /\ txs'[j].amount = txs[j].amount
      BY <2>1, <2>3, SameTable DEF Put, Table, Row
    <3>2. SameSplits(txs, txs', given)
      BY <3>1, SameTable, SourceSplits DEF Table
    <3>3. UNCHANGED req /\ past \subseteq past'
      BY <2>1 DEF Put
    <3>. QED BY <3>2, <3>3, FitTable
  <2>. QED BY <2>2, <2>3
<1>4. CASE \E i \in Ids : Unlink(i)
  <2>1. PICK i \in Ids : Unlink(i)
    BY <1>4
  <2>2. /\ DOMAIN txs' = DOMAIN txs
        /\ \A j \in DOMAIN txs : txs'[j].parent = txs[j].parent /\ txs'[j].amount = txs[j].amount
    BY <2>1, SameTable DEF Unlink, Table, Row
  <2>3. SameSplits(txs, txs', given)
    BY <2>2, SameTable, SourceSplits DEF Table
  <2>. QED BY <2>1, <2>3, FitTable DEF Unlink
<1>5. CASE \E h \in Handlers :
             \/ \E p \in Ids, a \in Amounts : StartCreate(h, p, a)
             \/ \E p, i \in Ids, a \in Amounts \cup {None} : StartUpdate(h, p, i, a)
             \/ \E p, i \in Ids : StartDeleteItem(h, p, i)
             \/ \E i \in Ids : StartDelete(h, i)
             \/ \E i \in Ids, source \in Sources : StartLink(h, i, source)
  BY <1>5, FitStart
<1>6. CASE \E h \in Handlers : \/ SumSiblings(h) \/ CheckOwner(h) \/ ReadExisting(h)
                               \/ CountItems(h) \/ CheckClash(h) \/ Abandon(h)
  BY <1>6, FitChecks
<1>7. CASE \E h \in Handlers : \/ WriteItem(h) \/ DeleteItem(h) \/ DeleteRow(h) \/ WriteLink(h)
                               \/ \E i \in Ids : InsertItem(h, i)
  BY <1>7, FitWrites
<1>. QED BY <1>1, <1>2, <1>3, <1>4, <1>5, <1>6, <1>7 DEF Next, Handle

LEMMA FitInductive == Spec => []FitsInTurn
<1>1. Init => FitsInTurn
  <2>. SUFFICES ASSUME Init PROVE FitsInTurn
    OBVIOUS
  <2>1. txs = << >> /\ req = [h \in Handlers |-> None]
    BY DEF Init
  <2>2. DOMAIN txs = {} /\ \A h \in Handlers : req[h] = None
    BY <2>1
  <2>. QED BY <2>2 DEF FitsInTurn, InTurn, Fits, Admitted
<1>. QED BY <1>1, FitNext, ItemsInductive, TurnInductive, PTL DEF Spec

(* The sum of the parts may not exceed the whole (transactions_children.rs):*)
(* however many items are made, edited and deleted through their own        *)
(* routes, one request after the other, what a request was admitted against *)
(* is what the receipt and its items still come to when it writes.          *)
THEOREM ItemsAlwaysFit == Spec => []ItemsFitReceipt
<1>1. FitsInTurn => ItemsFitReceipt
  <2>. SUFFICES ASSUME FitsInTurn, InTurn, NEW p \in DOMAIN txs, Items(p) # {}
                PROVE  ItemsTotal(p, None) <= txs[p].amount
    BY DEF ItemsFitReceipt, InTurn
  <2>1. ItemsOf(txs, p) # {}
    BY DEF Items, ItemsOf
  <2>. QED BY <2>1, ItemsTotalIsSum DEF FitsInTurn, InTurn, Fits
<1>. QED BY <1>1, FitInductive, PTL

-----------------------------------------------------------------------------
(* Requests that overlap.  A receipt is charged, for any choice of the      *)
(* requests about to write to it, no two of them to one row, with what they *)
(* would write and with the items they would leave as they are.  When a     *)
(* request is admitted its own line and those items fit the receipt, and no *)
(* other in the choice asks for more than the receipt.                      *)

Writing(r, p) ==
    r # None /\ r.kind \in {"create", "update"} /\ r.step = "write" /\ r.parent = p
Writers(q, p) == {h \in Handlers : Writing(q[h], p)}
Targets(q, S) == {q[h].row : h \in S}
Apart(q, S) == \A h, k \in S : q[h].row = q[k].row => h = k \/ q[h].row = None
Asked(q) == [h \in Handlers |-> q[h].amount]

LeftAlone(t, q, p, S) == SumOf(AmountOf(t), ItemsOf(t, p) \ Targets(q, S))
Charge(t, q, p, S) == LeftAlone(t, q, p, S) + SumOf(Asked(q), S)
Cap(t, p) == Cardinality(Handlers) * t[p].amount

Small(t, q, p) == \A h \in Writers(q, p) : q[h].amount <= t[p].amount
Charged(t, q, p) == \A S \in SUBSET Writers(q, p) : Apart(q, S) => Charge(t, q, p, S) <= Cap(t, p)
Bounded(t, q) == \A p \in DOMAIN t : t[p].parent = None => Small(t, q, p) /\ Charged(t, q, p)

(* The receipt is as large as when a request read it. *)
LimitKept(r, t) ==
    r # None /\ r.kind \in {"create", "update"} /\ r.parent \in DOMAIN t /\ t[r.parent].parent = None =>
        r.limit = t[r.parent].amount

BoundInv == "edit" \notin past => Bounded(txs, req) /\ \A h \in Handlers : LimitKept(req[h], txs)

(* What those about to write ask for is a whole number of cents. *)
Asking(q) == \A h \in Handlers, p \in Ids : Writing(q[h], p) => q[h].amount \in Nat

LEMMA RequestsAsk ==
    ASSUME NEW q, NEW t, NEW g, \A h \in Handlers : RequestOK(q[h], t, g) PROVE Asking(q)
<1>. SUFFICES ASSUME NEW h \in Handlers, NEW p \in Ids, Writing(q[h], p) PROVE q[h].amount \in Nat
  BY DEF Asking
<1>. QED BY LineItemsAssumption DEF Writing, RequestOK, CreateOK, UpdateOK

LEMMA AskedIsCounted ==
    ASSUME NEW q, Asking(q), NEW p \in Ids, NEW S \in SUBSET Writers(q, p)
    PROVE  /\ IsFiniteSet(S) /\ S \subseteq Handlers
           /\ \A h \in S : Asked(q)[h] = q[h].amount /\ Asked(q)[h] \in Nat
           /\ SumOf(Asked(q), S) \in Nat
<1>1. IsFiniteSet(S) /\ S \subseteq Handlers
  BY FS_Subset, LineItemsAssumption DEF Writers
<1> DEFINE f == Asked(q)
<1>2. \A h \in S : f[h] = q[h].amount /\ f[h] \in Nat
  BY DEF Asked, Asking, Writers
<1>. HIDE DEF f
<1>3. SumOf(f, S) \in Nat
  BY <1>1, <1>2, SumNat
<1>. QED BY <1>1, <1>2, <1>3 DEF f

LEMMA LeftIsCounted ==
    ASSUME NEW t, Counted(t), NEW p, NEW T
    PROVE  /\ IsFiniteSet(ItemsOf(t, p) \ T)
           /\ \A i \in ItemsOf(t, p) \ T : AmountOf(t)[i] = t[i].amount /\ AmountOf(t)[i] \in Nat
           /\ SumOf(AmountOf(t), ItemsOf(t, p) \ T) \in Nat
<1> DEFINE S == ItemsOf(t, p) \ T
           f == AmountOf(t)
<1>1. IsFiniteSet(S)
  <2>1. S \subseteq DOMAIN t
    BY DEF ItemsOf
  <2>. QED BY <2>1, FS_Subset DEF Counted
<1>2. \A i \in S : f[i] = t[i].amount /\ f[i] \in Nat
  BY DEF ItemsOf, AmountOf, Counted
<1>. HIDE DEF S, f
<1>3. SumOf(f, S) \in Nat
  BY <1>1, <1>2, SumNat
<1>. QED BY <1>1, <1>2, <1>3 DEF S, f

LEMMA CapIsNat == ASSUME NEW t, Counted(t), NEW p \in DOMAIN t PROVE Cap(t, p) \in Nat
<1>1. Cardinality(Handlers) \in Nat /\ t[p].amount \in Nat
  BY FS_CardinalityType, LineItemsAssumption DEF Counted
<1>. QED BY <1>1 DEF Cap

(* Summands no larger than a. *)
LEMMA SumAtMost ==
    ASSUME NEW f, NEW S, IsFiniteSet(S), NEW a \in Nat, \A x \in S : f[x] \in Nat /\ f[x] <= a
    PROVE  SumOf(f, S) <= Cardinality(S) * a
<1> DEFINE Good == {T \in SUBSET S : SumOf(f, T) <= Cardinality(T) * a}
<1>1. {} \in Good
  BY SumEmpty, FS_EmptySet
<1>2. ASSUME NEW T \in SUBSET S, NEW x \in T, T \ {x} \in Good PROVE T \in Good
  <2>1. IsFiniteSet(T) /\ IsFiniteSet(T \ {x})
    BY FS_Subset
  <2>2. SumOf(f, T) = f[x] + SumOf(f, T \ {x})
    BY <2>1, SumRemove
  <2>3. Cardinality(T \ {x}) = Cardinality(T) - 1 /\ Cardinality(T) \in Nat
    BY <2>1, FS_RemoveElement, FS_CardinalityType
  <2>4. SumOf(f, T \ {x}) \in Nat /\ f[x] \in Nat /\ f[x] <= a
    BY <2>1, SumNat
  <2> DEFINE n == Cardinality(T) - 1
             s == SumOf(f, T \ {x})
  <2>5. s <= n * a /\ n \in Int /\ Cardinality(T) = n + 1 /\ s \in Nat
    BY <1>2, <2>3, <2>4
  <2>. HIDE DEF n, s
  <2>6. n * a \in Int /\ (n + 1) * a = n * a + a
    BY <2>5
  <2>7. f[x] + s <= (n + 1) * a
    BY <2>4, <2>5, <2>6
  <2>. QED BY <2>2, <2>5, <2>7 DEF s
<1>3. S \in Good
  <2>. HIDE DEF Good
  <2>. QED BY <1>1, <1>2, SubsetInduction
<1>. QED BY <1>3

(* No request more at its write to a receipt, no item more of one. *)
NoMoreWriters(q, w, u) ==
    \A h \in Handlers : w[h] = q[h] \/ \A p \in DOMAIN u : u[p].parent = None => ~Writing(w[h], p)
Cheaper(t, u, w) ==
    \A p \in DOMAIN u : u[p].parent = None =>
        \/ /\ p \in DOMAIN t /\ t[p].parent = None /\ u[p].amount = t[p].amount
           /\ ItemsOf(u, p) \subseteq ItemsOf(t, p)
           /\ \A i \in ItemsOf(u, p) : u[i].amount = t[i].amount
        \/ ItemsOf(u, p) = {} /\ Writers(w, p) = {}

LEMMA SameRequests ==
    ASSUME NEW q, NEW w, NEW S \in SUBSET Handlers, \A h \in S : w[h] = q[h]
    PROVE  Targets(w, S) = Targets(q, S) /\ (Apart(w, S) <=> Apart(q, S)) /\ SumOf(Asked(w), S) = SumOf(Asked(q), S)
<1>1. Targets(w, S) = Targets(q, S) /\ (Apart(w, S) <=> Apart(q, S))
  BY DEF Targets, Apart
<1> DEFINE f == Asked(w)
           k == Asked(q)
<1>2. \A h \in S : f[h] = k[h]
  BY DEF Asked
<1>. HIDE DEF f, k
<1>3. SumOf(f, S) = SumOf(k, S)
  BY <1>2, SumFrame
<1>. QED BY <1>1, <1>3 DEF f, k

LEMMA BoundStaysAt ==
    ASSUME NEW t, Counted(t), NEW u, Counted(u), NEW q, Asking(q), NEW w, NEW p \in Ids,
           p \in DOMAIN t, p \in DOMAIN u, u[p].amount = t[p].amount,
           ItemsOf(u, p) \subseteq ItemsOf(t, p), \A i \in ItemsOf(u, p) : u[i].amount = t[i].amount,
           \A h \in Writers(w, p) : h \in Writers(q, p) /\ w[h] = q[h],
           Small(t, q, p), Charged(t, q, p)
    PROVE  Small(u, w, p) /\ Charged(u, w, p)
<1>1. Cap(u, p) = Cap(t, p)
  BY DEF Cap
<1>2. Small(u, w, p)
  BY DEF Small
<1>3. ASSUME NEW S \in SUBSET Writers(w, p), Apart(w, S) PROVE Charge(u, w, p, S) <= Cap(u, p)
  <2>1. S \in SUBSET Writers(q, p) /\ S \in SUBSET Handlers /\ \A h \in S : w[h] = q[h]
    BY DEF Writers
  <2>2. Targets(w, S) = Targets(q, S) /\ Apart(q, S) /\ SumOf(Asked(w), S) = SumOf(Asked(q), S)
    BY <1>3, <2>1, SameRequests
  <2>3. Charge(t, q, p, S) <= Cap(t, p)
    BY <2>1, <2>2 DEF Charged
  <2> DEFINE T == Targets(q, S)
             A == ItemsOf(t, p) \ T
             B == ItemsOf(u, p) \ T
             f == AmountOf(t)
             k == AmountOf(u)
             n == SumOf(Asked(q), S)
  <2>4. B \in SUBSET A /\ \A i \in B : f[i] = k[i]
    BY DEF ItemsOf, AmountOf
  <2>5. IsFiniteSet(A) /\ \A i \in A : f[i] \in Nat
    BY LeftIsCounted
  <2>6. SumOf(f, A) \in Nat /\ SumOf(k, B) \in Nat
    BY LeftIsCounted
  <2>7. n \in Nat
    BY <2>1, AskedIsCounted
  <2>8. Cap(t, p) \in Nat
    BY CapIsNat
  <2>9. Charge(t, q, p, S) = SumOf(f, A) + n
    BY DEF Charge, LeftAlone
  <2>10. Charge(u, w, p, S) = SumOf(k, B) + n
    BY <2>2 DEF Charge, LeftAlone
  <2>. HIDE DEF A, B, f, k, n
  <2>11. SumOf(f, B) <= SumOf(f, A)
    BY <2>4, <2>5, SumPart
  <2>12. SumOf(f, B) = SumOf(k, B)
    BY <2>4, SumFrame
  <2>. QED BY <1>1, <2>3, <2>6, <2>7, <2>8, <2>9, <2>10, <2>11, <2>12
<1>. QED BY <1>2, <1>3 DEF Charged

LEMMA BoundStays ==
    ASSUME NEW t, Counted(t), NEW u, Counted(u), DOMAIN u \subseteq Ids, NEW q, Asking(q), NEW w,
           Bounded(t, q), NoMoreWriters(q, w, u), Cheaper(t, u, w)
    PROVE  Bounded(u, w)
<1>. SUFFICES ASSUME NEW p \in DOMAIN u, u[p].parent = None PROVE Small(u, w, p) /\ Charged(u, w, p)
  BY DEF Bounded
<1>0. p \in Ids
  OBVIOUS
<1>1. CASE ItemsOf(u, p) = {} /\ Writers(w, p) = {}
  <2>1. Small(u, w, p)
    BY <1>1 DEF Small
  <2>2. ASSUME NEW S \in SUBSET Writers(w, p) PROVE Charge(u, w, p, S) <= Cap(u, p)
    <3>1. S = {} /\ ItemsOf(u, p) \ Targets(w, S) = {}
      BY <1>1
    <3>2. Charge(u, w, p, S) = 0
      BY <3>1, SumEmpty DEF Charge, LeftAlone
    <3>. QED BY <3>2, CapIsNat
  <2>. QED BY <2>1, <2>2 DEF Charged
<1>2. CASE /\ p \in DOMAIN t /\ t[p].parent = None /\ u[p].amount = t[p].amount
           /\ ItemsOf(u, p) \subseteq ItemsOf(t, p)
           /\ \A i \in ItemsOf(u, p) : u[i].amount = t[i].amount
  <2>1. Small(t, q, p) /\ Charged(t, q, p)
    BY <1>2 DEF Bounded
  <2>2. \A h \in Writers(w, p) : h \in Writers(q, p) /\ w[h] = q[h]
    BY <1>0 DEF NoMoreWriters, Writers
  <2>. QED BY <1>0, <1>2, <2>1, <2>2, BoundStaysAt
<1>. QED BY <1>1, <1>2 DEF Cheaper

LEMMA Times ==
    ASSUME NEW m \in Nat, NEW n \in Nat, m <= n, NEW a \in Nat PROVE m * a <= n * a /\ m * a \in Nat
<1>1. n - m \in Nat
  OBVIOUS
<1>2. (n - m) * a \in Nat /\ m * a \in Nat /\ n * a = m * a + (n - m) * a
  BY <1>1
<1>. QED BY <1>2

(* A request is admitted. *)
LEMMA BoundAdmits ==
    ASSUME NEW t, Counted(t), DOMAIN t \subseteq Ids, NEW q, Asking(q), NEW w, Asking(w), Bounded(t, q),
           NEW h \in Handlers, \A k \in Handlers \ {h} : w[k] = q[k],
           NEW p \in DOMAIN t, Writing(w[h], p), TotalOf(t, p, w[h].row) + w[h].amount <= t[p].amount
    PROVE  Bounded(t, w)
<1>. SUFFICES ASSUME NEW s \in DOMAIN t, t[s].parent = None PROVE Small(t, w, s) /\ Charged(t, w, s)
  BY DEF Bounded
<1>0. s \in Ids /\ p \in Ids /\ Small(t, q, s) /\ Charged(t, q, s)
  BY DEF Bounded
<1>1. CASE s # p
  <2>1. \A k \in Writers(w, s) : k \in Writers(q, s) /\ w[k] = q[k]
    BY <1>1 DEF Writers, Writing
  <2>. QED BY <1>0, <2>1, BoundStaysAt
<1>2. CASE s = p
  <2> DEFINE a == t[p].amount
             c == w[h].amount
             n == TotalOf(t, p, w[h].row)
  <2>1. a \in Nat /\ n \in Nat
    BY ItemsAreCounted DEF Counted
  <2>2. c \in Nat /\ n + c <= a
    BY <1>0 DEF Asking
  <2>3. Small(t, w, p)
    <3>. SUFFICES ASSUME NEW k \in Writers(w, p) PROVE w[k].amount <= a
      BY DEF Small
    <3>1. CASE k = h
      <4>. HIDE DEF a, c, n
      <4>1. c <= a
        BY <2>1, <2>2
      <4>. QED BY <3>1, <4>1 DEF c
    <3>2. CASE k # h
      <4>1. k \in Writers(q, p) /\ w[k] = q[k]
        BY <3>2 DEF Writers
      <4>. QED BY <1>0, <1>2, <4>1 DEF Small
    <3>. QED BY <3>1, <3>2
  <2>4. ASSUME NEW S \in SUBSET Writers(w, p), Apart(w, S) PROVE Charge(t, w, p, S) <= Cap(t, p)
    <3>1. CASE h \notin S
      <4>1. S \in SUBSET Writers(q, p) /\ S \in SUBSET Handlers /\ \A k \in S : w[k] = q[k]
        BY <3>1 DEF Writers
      <4>2. Targets(w, S) = Targets(q, S) /\ Apart(q, S) /\ SumOf(Asked(w), S) = SumOf(Asked(q), S)
        BY <2>4, <4>1, SameRequests
      <4>3. Charge(t, q, p, S) <= Cap(t, p)
        BY <1>0, <1>2, <4>1, <4>2 DEF Charged
      <4>. QED BY <4>2, <4>3 DEF Charge, LeftAlone
    <3>2. CASE h \in S
      <4> DEFINE R == S \ {h}
                 k == Asked(w)
                 A == ItemsOf(t, p) \ {w[h].row}
                 B == ItemsOf(t, p) \ Targets(w, S)
                 f == AmountOf(t)
      <4>1. /\ IsFiniteSet(S) /\ S \subseteq Handlers /\ k[h] = c
            /\ \A x \in S : k[x] \in Nat /\ k[x] <= a
        BY <1>0, <2>3, <3>2, AskedIsCounted DEF Small
      <4>2. Cardinality(R) = Cardinality(S) - 1 /\ Cardinality(S) \in Nat /\ IsFiniteSet(R)
        BY <3>2, <4>1, FS_RemoveElement, FS_CardinalityType, FS_Subset
      <4>3. Cardinality(S) <= Cardinality(Handlers) /\ Cardinality(Handlers) \in Nat
        BY <4>1, FS_Subset, FS_CardinalityType, LineItemsAssumption
      <4>4. B \in SUBSET A
        BY <3>2 DEF Targets
      <4>5. IsFiniteSet(A) /\ (\A i \in A : f[i] \in Nat) /\ SumOf(f, A) = n
        BY LeftIsCounted DEF TotalOf
      <4>6. SumOf(f, B) \in Nat
        BY LeftIsCounted
      <4>7. Charge(t, w, p, S) = SumOf(f, B) + SumOf(k, S)
        BY DEF Charge, LeftAlone
      <4>. HIDE DEF R, k, A, B, f, n, c, a
      <4>8. SumOf(f, B) <= n
        BY <4>4, <4>5, SumPart
      <4>9. SumOf(k, S) = c + SumOf(k, R)
        BY <3>2, <4>1, SumRemove DEF R
      <4>10. SumOf(k, R) <= Cardinality(R) * a /\ SumOf(k, R) \in Nat
        <5>1. \A x \in R : k[x] \in Nat /\ k[x] <= a
          BY <4>1 DEF R
        <5>. QED BY <2>1, <4>2, <5>1, SumAtMost, SumNat
      <4> DEFINE m == Cardinality(R)
      <4>11. m \in Nat /\ m + 1 <= Cardinality(Handlers)
        BY <4>2, <4>3, FS_CardinalityType
      <4>12. SumOf(k, R) <= m * a
        BY <4>10
      <4>. HIDE DEF m
      <4>13. (m + 1) * a <= Cardinality(Handlers) * a /\ (m + 1) * a \in Nat
        BY <2>1, <4>3, <4>11, Times
      <4>14. (m + 1) * a = m * a + a /\ m * a \in Nat
        BY <2>1, <4>11
      <4> DEFINE x == SumOf(f, B)
                 y == SumOf(k, R)
                 z == m * a
      <4>15. x \in Nat /\ x <= n /\ y \in Nat /\ y <= z /\ z \in Nat
        BY <4>6, <4>8, <4>10, <4>12, <4>14
      <4>16. Charge(t, w, p, S) = x + (c + y)
        BY <4>7, <4>9
      <4>17. Cardinality(Handlers) * a \in Nat
        BY <2>1, <4>3
      <4>18. Cap(t, p) = Cardinality(Handlers) * a
        BY DEF Cap, a
      <4> DEFINE v == Cardinality(Handlers) * a
      <4>19. z + a <= v /\ v \in Nat
        BY <4>13, <4>14, <4>17
      <4>. HIDE DEF x, y, z, v
      <4>20. x + (c + y) <= v
        BY <2>1, <2>2, <4>15, <4>19
      <4>. QED BY <4>16, <4>18, <4>20 DEF v
    <3>. QED BY <3>1, <3>2
  <2>. QED BY <1>2, <2>3, <2>4 DEF Charged
<1>. QED BY <1>1, <1>2

(* The insert of an admitted line: as if it had been chosen before. *)
LEMMA BoundInserts ==
    ASSUME NEW t, Counted(t), NEW u, Counted(u), DOMAIN u \subseteq Ids, NEW g, NEW q, Asking(q), NEW w,
           Bounded(t, q), NEW i, i \notin g, DOMAIN t \subseteq g, NEW r, OneMore(u, t, i, r),
           NEW h \in Handlers, \A k \in Handlers \ {h} : w[k] = q[k], w[h] = None,
           NEW p \in DOMAIN t, Writing(q[h], p), q[h].row = None, r.parent = p, r.amount = q[h].amount,
           \A k \in Handlers : Writing(q[k], p) => q[k].row = None \/ q[k].row \in g,
           i # None
    PROVE  Bounded(u, w)
<1>0. p \in Ids /\ None \notin Ids /\ i \notin DOMAIN t
  BY LineItemsAssumption DEF OneMore
<1>. SUFFICES ASSUME NEW s \in DOMAIN u, u[s].parent = None PROVE Small(u, w, s) /\ Charged(u, w, s)
  BY DEF Bounded
<1>1. s \in Ids /\ s # i /\ s \in DOMAIN t /\ u[s] = t[s] /\ Small(t, q, s) /\ Charged(t, q, s)
  BY <1>0 DEF Bounded, OneMore
<1>2. \A k \in Writers(w, s) : k \in Writers(q, s) /\ w[k] = q[k] /\ k # h
  BY DEF Writers, Writing
<1>3. CASE s # p
  <2>1. ItemsOf(u, s) = ItemsOf(t, s) /\ \A j \in ItemsOf(u, s) : u[j].amount = t[j].amount
    BY <1>0, <1>3 DEF ItemsOf, OneMore
  <2>. QED BY <1>1, <1>2, <2>1, BoundStaysAt
<1>4. CASE s = p
  <2>1. Small(u, w, p)
    BY <1>1, <1>2, <1>4 DEF Small
  <2>2. ASSUME NEW S \in SUBSET Writers(w, p), Apart(w, S) PROVE Charge(u, w, p, S) <= Cap(u, p)
    <3> DEFINE U == S \cup {h}
               T == Targets(w, S)
               A == ItemsOf(t, p) \ Targets(q, U)
               B == ItemsOf(u, p) \ T
               f == AmountOf(t)
               k == AmountOf(u)
               e == Asked(q)
               c == q[h].amount
    <3>1. U \in SUBSET Writers(q, p) /\ h \notin S /\ S \in SUBSET Handlers /\ \A x \in S : w[x] = q[x]
      BY <1>2, <1>4 DEF Writers
    <3>2. T = Targets(q, S) /\ Apart(q, S) /\ SumOf(Asked(w), S) = SumOf(e, S)
      BY <2>2, <3>1, SameRequests
    <3>3. Apart(q, U)
      BY <3>1, <3>2 DEF Apart
    <3>4. Charge(t, q, p, U) <= Cap(t, p)
      BY <1>1, <1>4, <3>1, <3>3 DEF Charged
    <3>5. Targets(q, U) = T \cup {None}
      BY <3>2 DEF Targets
    <3>6. i \notin T
      <4>1. \A x \in S : q[x].row = None \/ q[x].row \in g
        BY <3>1 DEF Writers
      <4>. QED BY <3>2, <4>1 DEF Targets
    <3>7. B = A \cup {i} /\ i \notin A
      BY <1>0, <3>5, <3>6 DEF ItemsOf, OneMore
    <3>8. k[i] = c /\ \A x \in A : k[x] = f[x]
      BY <1>0 DEF ItemsOf, AmountOf, OneMore
    <3>9. IsFiniteSet(A) /\ (\A x \in A : f[x] \in Nat) /\ SumOf(f, A) \in Nat
      BY LeftIsCounted
    <3>10. c \in Nat
      BY <1>0 DEF Asking
    <3>11. IsFiniteSet(S) /\ (\A x \in U : e[x] \in Nat) /\ e[h] = c
      <4>1. IsFiniteSet(U) /\ \A x \in U : e[x] = q[x].amount /\ e[x] \in Nat
        BY <1>0, <3>1, AskedIsCounted
      <4>. QED BY <4>1, FS_Subset
    <3>12. Charge(t, q, p, U) = SumOf(f, A) + SumOf(e, U)
      BY DEF Charge, LeftAlone
    <3>13. Charge(u, w, p, S) = SumOf(k, B) + SumOf(e, S)
      BY <3>2 DEF Charge, LeftAlone
    <3>14. Cap(u, p) = Cap(t, p)
      BY <1>1, <1>4 DEF Cap
    <3>. HIDE DEF U, T, A, B, f, k, e, c
    <3>15. SumOf(k, B) = c + SumOf(f, A)
      <4>1. SumOf(k, A \cup {i}) = k[i] + SumOf(k, A)
        BY <3>7, <3>8, <3>9, <3>10, SumAdd
      <4>2. SumOf(k, A) = SumOf(f, A)
        BY <3>8, SumFrame
      <4>. QED BY <3>7, <3>8, <4>1, <4>2
    <3>16. SumOf(e, U) = c + SumOf(e, S) /\ SumOf(e, S) \in Nat
      <4>1. SumOf(e, S \cup {h}) = e[h] + SumOf(e, S)
        BY <3>1, <3>11, SumAdd DEF U
      <4>2. SumOf(e, S) \in Nat
        BY <3>11, SumNat DEF U
      <4>. QED BY <3>11, <4>1, <4>2 DEF U
    <3>17. Charge(u, w, p, S) = Charge(t, q, p, U)
      BY <3>9, <3>10, <3>12, <3>13, <3>15, <3>16
    <3>. QED BY <3>4, <3>14, <3>17
  <2>. QED BY <1>4, <2>1, <2>2 DEF Charged
<1>. QED BY <1>3, <1>4

(* Rows as they were but for the amount of one. *)
Changed(u, t, i, c) ==
    /\ DOMAIN u = DOMAIN t
    /\ \A j \in DOMAIN t : u[j].parent = t[j].parent /\ u[j].amount = IF j = i THEN c ELSE t[j].amount

(* The write of an admitted edit: as if it had been chosen before, unless   *)
(* another edit of the item is.                                             *)
LEMMA BoundChanges ==
    ASSUME NEW t, Counted(t), NEW u, Counted(u), DOMAIN t \subseteq Ids, NEW q, Asking(q), NEW w,
           Bounded(t, q), NEW i \in DOMAIN t, NEW c, Changed(u, t, i, c),
           NEW h \in Handlers, \A k \in Handlers \ {h} : w[k] = q[k], w[h] = None,
           NEW p \in DOMAIN t, Writing(q[h], p), q[h].row = i, t[i].parent = p, c = q[h].amount
    PROVE  Bounded(u, w)
<1>. DOMAIN u = DOMAIN t /\ \A j \in DOMAIN t :
        u[j].parent = t[j].parent /\ u[j].amount = IF j = i THEN c ELSE t[j].amount
  BY DEF Changed
<1>0. p \in Ids /\ i \in Ids /\ None \notin Ids /\ i # None
  BY LineItemsAssumption
<1>. SUFFICES ASSUME NEW s \in DOMAIN u, u[s].parent = None PROVE Small(u, w, s) /\ Charged(u, w, s)
  BY DEF Bounded
<1>1. s \in Ids /\ s \in DOMAIN t /\ t[s].parent = None /\ Small(t, q, s) /\ Charged(t, q, s)
  BY DEF Bounded
<1>2. s # i /\ u[s].amount = t[s].amount
  BY <1>0, <1>1
<1>3. \A k \in Writers(w, s) : k \in Writers(q, s) /\ w[k] = q[k] /\ k # h
  BY DEF Writers, Writing
<1>4. CASE s # p
  <2>1. ItemsOf(u, s) = ItemsOf(t, s) /\ \A j \in ItemsOf(u, s) : u[j].amount = t[j].amount
    BY <1>4 DEF ItemsOf
  <2>. QED BY <1>1, <1>2, <1>3, <2>1, BoundStaysAt
<1>5. CASE s = p
  <2>1. Small(u, w, p)
    BY <1>1, <1>2, <1>3, <1>5 DEF Small
  <2>2. ASSUME NEW S \in SUBSET Writers(w, p), Apart(w, S) PROVE Charge(u, w, p, S) <= Cap(u, p)
    <3> DEFINE U == S \cup {h}
               T == Targets(q, S)
               f == AmountOf(t)
               k == AmountOf(u)
               e == Asked(q)
    <3>1. U \in SUBSET Writers(q, p) /\ h \notin S /\ S \in SUBSET Handlers /\ \A x \in S : w[x] = q[x]
      BY <1>3, <1>5 DEF Writers
    <3>2. Targets(w, S) = T /\ Apart(q, S) /\ SumOf(Asked(w), S) = SumOf(e, S)
      BY <2>2, <3>1, SameRequests
    <3>3. Cap(u, p) = Cap(t, p)
      BY <1>2, <1>5 DEF Cap
    <3>4. Charge(u, w, p, S) = SumOf(k, ItemsOf(u, p) \ T) + SumOf(e, S)
      BY <3>2 DEF Charge, LeftAlone
    <3>5. CASE i \in T
      <4> DEFINE A == ItemsOf(t, p) \ T
      <4>1. ItemsOf(u, p) \ T = A /\ \A x \in A : f[x] = k[x]
        BY <3>5 DEF ItemsOf, AmountOf
      <4>2. Charge(t, q, p, S) = SumOf(f, A) + SumOf(e, S)
        BY DEF Charge, LeftAlone
      <4>3. Charge(t, q, p, S) <= Cap(t, p)
        BY <1>1, <1>5, <3>1, <3>2 DEF Charged
      <4>. HIDE DEF A, f, k, e, T
      <4>4. SumOf(f, A) = SumOf(k, A)
        BY <4>1, SumFrame
      <4>. QED BY <3>3, <3>4, <4>1, <4>2, <4>3, <4>4
    <3>6. CASE i \notin T
      <4> DEFINE A == ItemsOf(t, p) \ Targets(q, U)
                 B == ItemsOf(u, p) \ T
      <4>1. Apart(q, U)
        BY <1>0, <3>1, <3>2, <3>6 DEF Apart, Targets
      <4>2. Charge(t, q, p, U) <= Cap(t, p)
        BY <1>1, <1>5, <3>1, <4>1 DEF Charged
      <4>3. Targets(q, U) = T \cup {i}
        BY DEF Targets
      <4>4. B = A \cup {i} /\ i \notin A
        <5>1. ItemsOf(u, p) = ItemsOf(t, p) /\ i \in ItemsOf(t, p)
          BY DEF ItemsOf
        <5>. HIDE DEF T
        <5>. QED BY ONLY <3>6, <4>3, <5>1
      <4>5. k[i] = c /\ \A x \in A : k[x] = f[x]
        BY <4>3 DEF ItemsOf, AmountOf
      <4>6. IsFiniteSet(A) /\ (\A x \in A : f[x] \in Nat) /\ SumOf(f, A) \in Nat
        BY LeftIsCounted
      <4>7. c \in Nat
        BY <1>0 DEF Asking
      <4>8. IsFiniteSet(S) /\ (\A x \in U : e[x] \in Nat) /\ e[h] = c
        <5>1. IsFiniteSet(U) /\ \A x \in U : e[x] = q[x].amount /\ e[x] \in Nat
          BY <1>0, <3>1, AskedIsCounted
        <5>. QED BY <5>1, FS_Subset
      <4>9. Charge(t, q, p, U) = SumOf(f, A) + SumOf(e, U)
        BY DEF Charge, LeftAlone
      <4>10. Charge(u, w, p, S) = SumOf(k, B) + SumOf(e, S)
        BY <3>4
      <4>. HIDE DEF U, T, A, B, f, k, e
      <4>11. SumOf(k, B) = c + SumOf(f, A)
        <5>1. SumOf(k, A \cup {i}) = k[i] + SumOf(k, A)
          BY <4>4, <4>5, <4>6, <4>7, SumAdd
        <5>2. SumOf(k, A) = SumOf(f, A)
          BY <4>5, SumFrame
        <5>. QED BY <4>4, <4>5, <5>1, <5>2
      <4>12. SumOf(e, U) = c + SumOf(e, S) /\ SumOf(e, S) \in Nat
        <5>1. SumOf(e, S \cup {h}) = e[h] + SumOf(e, S)
          BY <3>1, <4>8, SumAdd DEF U
        <5>2. SumOf(e, S) \in Nat
          BY <4>8, SumNat DEF U
        <5>. QED BY <4>8, <5>1, <5>2 DEF U
      <4>13. Charge(u, w, p, S) = Charge(t, q, p, U)
        BY <4>6, <4>7, <4>9, <4>10, <4>11, <4>12
      <4>. QED BY <3>3, <4>2, <4>13
    <3>. QED BY <3>5, <3>6
  <2>. QED BY <1>5, <2>1, <2>2 DEF Charged
<1>. QED BY <1>4, <1>5

(* Receipts keep their size. *)
SameReceipts(t, u, g) ==
    \A p \in DOMAIN u : p \in g /\ u[p].parent = None =>
        p \in DOMAIN t /\ t[p].parent = None /\ u[p].amount = t[p].amount

LEMMA LimitStays ==
    ASSUME NEW r, NEW t, NEW u, NEW g, RequestOK(r, t, g), LimitKept(r, t), SameReceipts(t, u, g)
    PROVE  LimitKept(r, u)
BY DEF LimitKept, SameReceipts, RequestOK, CreateOK, UpdateOK

LEMMA BoundStep ==
    ASSUME ItemsInv, BoundInv, "edit" \in past => "edit" \in past', NEW h, NEW r,
           req' = req \/ Refitted(req', req, h, r), SameReceipts(txs, txs', given),
           "edit" \notin past => RequestOK(r, txs, given) /\ LimitKept(r, txs) /\ Bounded(txs', req')
    PROVE  BoundInv'
<1>. SUFFICES ASSUME "edit" \notin past
              PROVE  Bounded(txs', req') /\ \A k \in Handlers : LimitKept(req'[k], txs')
  BY DEF BoundInv
<1>1. \A k \in Handlers : RequestOK(req[k], txs, given) /\ LimitKept(req[k], txs)
  BY SameTable DEF BoundInv
<1>2. (\A k \in Handlers : LimitKept(req[k], txs')) /\ LimitKept(r, txs')
  BY <1>1, LimitStays
<1>3. \A k \in Handlers : req'[k] = req[k] \/ req'[k] = r
  BY DEF Refitted, ItemsInv
<1>. QED BY <1>2, <1>3

(* What BoundStays and its kin need of a state. *)
LEMMA CountedState ==
    ASSUME ItemsInv, ItemsInv'
    PROVE  /\ Counted(txs) /\ DOMAIN txs \subseteq Ids /\ Asking(req)
           /\ Counted(txs') /\ DOMAIN txs' \subseteq Ids /\ Asking(req')
<1>1. Table(txs, given) /\ IsFiniteSet(given) /\ given \subseteq Ids /\ \A h \in Handlers : RequestOK(req[h], txs, given)
  BY DEF ItemsInv
<1>2. Table(txs', given') /\ IsFiniteSet(given') /\ given' \subseteq Ids /\ \A h \in Handlers : RequestOK(req'[h], txs', given')
  BY DEF ItemsInv
<1>3. Counted(txs) /\ Counted(txs')
  BY <1>1, <1>2, CountedTable
<1>4. Asking(req) /\ Asking(req')
  BY <1>1, <1>2, RequestsAsk
<1>. QED BY <1>1, <1>2, <1>3, <1>4 DEF Table

(* A step that admits nothing and adds nothing. *)
LEMMA BoundQuiet ==
    ASSUME ItemsInv, ItemsInv', BoundInv, "edit" \in past => "edit" \in past', NEW h, NEW r,
           req' = req \/ Refitted(req', req, h, r), SameReceipts(txs, txs', given),
           "edit" \notin past => RequestOK(r, txs, given) /\ LimitKept(r, txs),
           NoMoreWriters(req, req', txs'), Cheaper(txs, txs', req')
    PROVE  BoundInv'
<1>1. "edit" \notin past => Bounded(txs', req')
  BY CountedState, BoundStays DEF BoundInv
<1>. QED BY <1>1, BoundStep

LEMMA SameTableIsCheaper ==
    ASSUME NEW t, NEW w, NEW g
    PROVE  Cheaper(t, t, w) /\ SameReceipts(t, t, g)
BY DEF Cheaper, SameReceipts

(* A request that is taken, goes on or is refused, but is not admitted. *)
LEMMA BoundMoves ==
    ASSUME ItemsInv, ItemsInv', BoundInv, "edit" \in past => "edit" \in past', NEW h \in Handlers, NEW r,
           Refitted(req', req, h, r), UNCHANGED txs,
           "edit" \notin past => RequestOK(r, txs, given) /\ LimitKept(r, txs),
           \A p \in DOMAIN txs : txs[p].parent = None => ~Writing(r, p)
    PROVE  BoundInv'
<1>1. \A k \in Handlers : req'[k] = IF k = h THEN r ELSE req[k]
  BY DEF Refitted, ItemsInv
<1>2. NoMoreWriters(req, req', txs')
  BY <1>1 DEF NoMoreWriters
<1>. QED BY <1>2, SameTableIsCheaper, BoundQuiet

LEMMA BoundRefused ==
    ASSUME ItemsInv, ItemsInv', BoundInv, NEW h \in Handlers, Done(h), UNCHANGED <<txs, past>>
    PROVE  BoundInv'
<1>1. Refitted(req', req, h, None) /\ RequestOK(None, txs, given) /\ LimitKept(None, txs) /\ \A p : ~Writing(None, p)
  BY NoneOK DEF Done, Refitted, LimitKept, Writing
<1>. QED BY <1>1, BoundMoves

LEMMA BoundBegins ==
    ASSUME ItemsInv, ItemsInv', BoundInv, NEW h \in Handlers, NEW r, Begin(h, r), UNCHANGED <<txs, given>>,
           LimitKept(r, txs), r.step # "write"
    PROVE  BoundInv'
<1>1. Refitted(req', req, h, r) /\ ("edit" \in past => "edit" \in past') /\ \A p : ~Writing(r, p)
  BY DEF Begin, Refitted, Writing
<1>2. RequestOK(r, txs, given)
  <2>1. req'[h] = r
    BY <1>1 DEF Refitted, ItemsInv
  <2>. QED BY <2>1 DEF ItemsInv
<1>. QED BY <1>1, <1>2, BoundMoves

LEMMA BoundStart ==
    ASSUME ItemsInv, ItemsInv', BoundInv, NEW h \in Handlers,
           \/ \E p \in Ids, a \in Amounts : StartCreate(h, p, a)
           \/ \E p, i \in Ids, a \in Amounts \cup {None} : StartUpdate(h, p, i, a)
           \/ \E p, i \in Ids : StartDeleteItem(h, p, i)
           \/ \E i \in Ids : StartDelete(h, i)
           \/ \E i \in Ids, source \in Sources : StartLink(h, i, source)
    PROVE  BoundInv'
<1>1. CASE \E p \in Ids, a \in Amounts : StartCreate(h, p, a)
  <2>1. PICK p \in Ids, a \in Amounts : StartCreate(h, p, a)
    BY <1>1
  <2> DEFINE r == [Blank EXCEPT !.kind = "create", !.step = "sum", !.parent = p, !.amount = a, !.limit = txs[p].amount]
  <2>2. Begin(h, r) /\ UNCHANGED <<txs, given>> /\ r.step # "write" /\ r.parent = p /\ r.limit = txs[p].amount
    BY <2>1 DEF StartCreate, Blank
  <2>. HIDE DEF r
  <2>3. LimitKept(r, txs)
    BY <2>2 DEF LimitKept
  <2>. QED BY <2>2, <2>3, BoundBegins
<1>2. CASE \E p, i \in Ids, a \in Amounts \cup {None} : StartUpdate(h, p, i, a)
  <2>1. PICK p \in Ids, i \in Ids, a \in Amounts \cup {None} : StartUpdate(h, p, i, a)
    BY <1>2
  <2> DEFINE r == [Blank EXCEPT !.kind = "update", !.step = "owner", !.parent = p, !.row = i,
                                !.amount = a, !.limit = txs[p].amount]
  <2>2. Begin(h, r) /\ UNCHANGED <<txs, given>> /\ r.step # "write" /\ r.parent = p /\ r.limit = txs[p].amount
    BY <2>1 DEF StartUpdate, Blank
  <2>. HIDE DEF r
  <2>3. LimitKept(r, txs)
    BY <2>2 DEF LimitKept
  <2>. QED BY <2>2, <2>3, BoundBegins
<1>3. CASE \E p, i \in Ids : StartDeleteItem(h, p, i)
  <2>1. PICK p \in Ids, i \in Ids : StartDeleteItem(h, p, i)
    BY <1>3
  <2> DEFINE r == [Blank EXCEPT !.kind = "deleteItem", !.step = "owner", !.parent = p, !.row = i]
  <2>2. Begin(h, r) /\ UNCHANGED <<txs, given>> /\ r.kind = "deleteItem" /\ r.step # "write"
    BY <2>1 DEF StartDeleteItem, Blank
  <2>. HIDE DEF r
  <2>3. LimitKept(r, txs)
    BY <2>2 DEF LimitKept
  <2>. QED BY <2>2, <2>3, BoundBegins
<1>4. CASE \E i \in Ids : StartDelete(h, i)
  <2>1. PICK i \in Ids : StartDelete(h, i)
    BY <1>4
  <2> DEFINE r == [Blank EXCEPT !.kind = "delete", !.step = "count", !.row = i]
  <2>2. Begin(h, r) /\ UNCHANGED <<txs, given>> /\ r.kind = "delete" /\ r.step # "write"
    BY <2>1 DEF StartDelete, Blank
  <2>. HIDE DEF r
  <2>3. LimitKept(r, txs)
    BY <2>2 DEF LimitKept
  <2>. QED BY <2>2, <2>3, BoundBegins
<1>5. CASE \E i \in Ids, source \in Sources : StartLink(h, i, source)
  <2>1. PICK i \in Ids, s \in Sources : StartLink(h, i, s)
    BY <1>5
  <2> DEFINE r == [Blank EXCEPT !.kind = "link", !.step = "clash", !.row = i, !.source = s]
  <2>2. Begin(h, r) /\ UNCHANGED <<txs, given>> /\ r.kind = "link" /\ r.step # "write"
    BY <2>1 DEF StartLink, Blank
  <2>. HIDE DEF r
  <2>3. LimitKept(r, txs)
    BY <2>2 DEF LimitKept
  <2>. QED BY <2>2, <2>3, BoundBegins
<1>. QED BY <1>1, <1>2, <1>3, <1>4, <1>5

LEMMA BoundGoto ==
    ASSUME ItemsInv, ItemsInv', BoundInv, NEW h \in Handlers, NEW s, At(h, s), NEW n, Goto(h, n),
           UNCHANGED <<txs, given, past>>,
           n = "write" => req[h].kind \notin {"create", "update"} \/ req[h].parent \notin DOMAIN txs
                            \/ txs[req[h].parent].parent # None
    PROVE  BoundInv'
<1>1. PICK q \in Request : q = req[h]
  BY InFlight
<1> DEFINE r == [q EXCEPT !.step = n]
<1>2. Refitted(req', req, h, r)
  BY <1>1 DEF Goto, Refitted
<1>3. r.step = n /\ r.kind = q.kind /\ r.parent = q.parent /\ r.limit = q.limit
  BY DEF Request
<1>. HIDE DEF r
<1>4. RequestOK(r, txs, given)
  <2>1. req'[h] = r
    BY <1>2 DEF Refitted, ItemsInv
  <2>. QED BY <2>1 DEF ItemsInv
<1>5. ASSUME "edit" \notin past PROVE LimitKept(r, txs)
  <2>1. LimitKept(q, txs) /\ q # None
    BY <1>1, <1>5 DEF BoundInv, At
  <2>. QED BY <1>3, <2>1 DEF LimitKept
<1>6. \A p \in DOMAIN txs : txs[p].parent = None => ~Writing(r, p)
  BY <1>1, <1>3 DEF Writing
<1>. QED BY <1>2, <1>4, <1>5, <1>6, BoundMoves

LEMMA BoundSums ==
    ASSUME ItemsInv, ItemsInv', BoundInv, NEW h \in Handlers, SumSiblings(h) PROVE BoundInv'
<1>1. /\ At(h, "sum") /\ UNCHANGED <<txs, given, past>>
      /\ Done(h) \/ (Goto(h, "write") /\ ~(ItemsTotal(req[h].parent, req[h].row) + req[h].amount > req[h].limit))
  BY DEF SumSiblings
<1>2. PICK q \in Request : q = req[h]
  BY <1>1, InFlight
<1>3. q.kind \in {"create", "update"} /\ q # None /\ q.step = "sum" /\ RequestOK(q, txs, given)
  BY <1>1, <1>2, InFlight
<1>4. CASE Done(h)
  BY <1>1, <1>4, BoundRefused
<1>5. CASE Goto(h, "write") /\ (q.parent \notin DOMAIN txs \/ txs[q.parent].parent # None)
  BY <1>1, <1>2, <1>5, BoundGoto
<1>6. CASE /\ Goto(h, "write") /\ q.parent \in DOMAIN txs /\ txs[q.parent].parent = None
           /\ ~(ItemsTotal(q.parent, q.row) + q.amount > q.limit)
  <2> DEFINE r == [q EXCEPT !.step = "write"]
  <2>1. Refitted(req', req, h, r)
    BY <1>2, <1>6 DEF Goto, Refitted
  <2>2. /\ r \in Request /\ r.step = "write" /\ r.kind = q.kind /\ r.row = q.row /\ r.parent = q.parent
        /\ r.amount = q.amount /\ r.limit = q.limit
    BY StepTo
  <2>. HIDE DEF r
  <2>3. req'[h] = r /\ \A k \in Handlers \ {h} : req'[k] = req[k]
    BY <2>1 DEF Refitted, ItemsInv
  <2>4. RequestOK(r, txs, given)
    BY <1>1, <2>3 DEF ItemsInv
  <2>5. CASE r = None
    <3>1. \A p : ~Writing(r, p)
      BY <2>5 DEF Writing
    <3>2. LimitKept(r, txs)
      BY <2>5 DEF LimitKept
    <3>. QED BY <1>1, <2>1, <2>4, <3>1, <3>2, BoundMoves
  <2>6. ASSUME "edit" \notin past, r # None PROVE LimitKept(r, txs) /\ Bounded(txs', req')
    <3>1. LimitKept(q, txs) /\ Bounded(txs, req)
      BY <1>2, <2>6 DEF BoundInv
    <3>2. q.limit = txs[q.parent].amount
      BY <1>3, <1>6, <3>1 DEF LimitKept
    <3> DEFINE n == TotalOf(txs, q.parent, q.row)
    <3>3. ~(n + q.amount > q.limit)
      BY <1>6, ItemsTotalIsSum
    <3>4. n \in Nat /\ q.limit \in Nat
      BY <1>6, <3>2, CountedState, ItemsAreCounted DEF Counted
    <3>5. q.amount \in Nat
      BY <1>3, LineItemsAssumption DEF RequestOK, CreateOK, UpdateOK
    <3>. HIDE DEF n
    <3>6. n + q.amount <= q.limit
      BY <3>3, <3>4, <3>5
    <3>7. PICK p : p = q.parent
      OBVIOUS
    <3>8. p \in DOMAIN txs /\ Writing(r, p)
      BY <1>3, <1>6, <2>2, <2>6, <3>7 DEF Writing
    <3>9. TotalOf(txs, p, r.row) + r.amount <= txs[p].amount
      BY <2>2, <3>2, <3>6, <3>7 DEF n
    <3>10. Writing(req'[h], p) /\ TotalOf(txs, p, req'[h].row) + req'[h].amount <= txs[p].amount
      BY <2>3, <3>8, <3>9
    <3>11. Bounded(txs, req')
      BY <2>3, <3>1, <3>8, <3>10, CountedState, BoundAdmits
    <3>12. LimitKept(r, txs)
      BY <2>2, <3>2 DEF LimitKept
    <3>. QED BY <1>1, <3>11, <3>12
  <2>. QED BY <1>1, <2>1, <2>4, <2>5, <2>6, SameTableIsCheaper, BoundStep
<1>. QED BY <1>1, <1>2, <1>4, <1>5, <1>6

LEMMA BoundChecks ==
    ASSUME ItemsInv, ItemsInv', BoundInv, NEW h \in Handlers,
           CheckOwner(h) \/ ReadExisting(h) \/ CountItems(h) \/ CheckClash(h) \/ Abandon(h)
    PROVE  BoundInv'
<1>2. CASE CheckOwner(h)
  <2>1. /\ At(h, "owner") /\ UNCHANGED <<txs, given, past>>
        /\ Done(h) \/ Goto(h, "existing") \/ (Goto(h, "write") /\ req[h].kind # "update")
    BY <1>2 DEF CheckOwner
  <2>2. req[h].kind \in {"update", "deleteItem"} /\ req[h] # None
    BY <2>1, InFlight
  <2>. QED BY <2>1, <2>2, BoundGoto, BoundRefused
<1>3. CASE ReadExisting(h)
  <2>1. At(h, "existing") /\ UNCHANGED <<txs, given, past>>
    BY <1>3 DEF ReadExisting
  <2>2. PICK r \in Request : r = req[h]
    BY <2>1, InFlight
  <2>3. r # None /\ r.kind = "update"
    BY <2>1, <2>2, InFlight
  <2>4. CASE r.row \notin DOMAIN txs
    BY <1>3, <2>1, <2>2, <2>3, <2>4, BoundRefused DEF ReadExisting
  <2>5. CASE r.row \in DOMAIN txs
    <3> DEFINE a == IF r.amount = None THEN txs[r.row].amount ELSE r.amount
               n == [r EXCEPT !.step = "sum", !.amount = a]
    <3>1. req' = [req EXCEPT ![h] = n]
      BY <1>3, <2>2, <2>5, SameTable DEF ReadExisting, ItemsInv
    <3>2. n.step = "sum" /\ n.kind = r.kind /\ n.parent = r.parent /\ n.limit = r.limit
      BY DEF Request
    <3>. HIDE DEF n
    <3>3. Refitted(req', req, h, n)
      BY <3>1 DEF Refitted
    <3>4. RequestOK(n, txs, given)
      <4>1. req'[h] = n
        BY <3>1 DEF ItemsInv
      <4>. QED BY <2>1, <4>1 DEF ItemsInv
    <3>5. "edit" \notin past => LimitKept(n, txs)
      BY <2>2, <2>3, <3>2 DEF BoundInv, LimitKept
    <3>6. \A p : ~Writing(n, p)
      BY <3>2 DEF Writing
    <3>. QED BY <2>1, <3>3, <3>4, <3>5, <3>6, BoundMoves
  <2>. QED BY <2>4, <2>5
<1>4. CASE CountItems(h)
  <2>1. At(h, "count") /\ UNCHANGED <<txs, given, past>> /\ (Done(h) \/ Goto(h, "write"))
    BY <1>4 DEF CountItems
  <2>2. req[h].kind = "delete" /\ req[h] # None
    BY <2>1, InFlight
  <2>. QED BY <2>1, <2>2, BoundGoto, BoundRefused
<1>5. CASE CheckClash(h)
  <2>1. At(h, "clash") /\ UNCHANGED <<txs, given, past>> /\ (Done(h) \/ Goto(h, "write"))
    BY <1>5 DEF CheckClash
  <2>2. req[h].kind = "link" /\ req[h] # None
    BY <2>1, InFlight
  <2>. QED BY <2>1, <2>2, BoundGoto, BoundRefused
<1>6. CASE Abandon(h)
  BY <1>6, BoundRefused DEF Abandon
<1>. QED BY <1>2, <1>3, <1>4, <1>5, <1>6

LEMMA BoundWrites ==
    ASSUME ItemsInv, ItemsInv', BoundInv, NEW h \in Handlers,
           WriteItem(h) \/ DeleteItem(h) \/ DeleteRow(h) \/ WriteLink(h) \/ \E i \in Ids : InsertItem(h, i)
    PROVE  BoundInv'
<1>1. At(h, "write") /\ Done(h) /\ UNCHANGED past /\ req[h] # None
  BY DEF WriteItem, DeleteItem, DeleteRow, WriteLink, InsertItem, At
<1>2. PICK q \in Request : q = req[h]
  BY <1>1, InFlight
<1>3. q # None /\ q.step = "write" /\ RequestOK(q, txs, given)
  BY <1>1, <1>2, InFlight
<1>4. Refitted(req', req, h, None) /\ RequestOK(None, txs, given) /\ LimitKept(None, txs)
  BY <1>1, NoneOK DEF Done, Refitted, LimitKept
<1>5. req'[h] = None /\ \A k \in Handlers \ {h} : req'[k] = req[k]
  BY <1>1 DEF Done, ItemsInv
<1>6. NoMoreWriters(req, req', txs')
  BY <1>5 DEF NoMoreWriters, Writing
<1>7. DOMAIN txs \subseteq given
  BY DEF ItemsInv, Table
<1>8. CASE txs' = txs
  BY <1>1, <1>4, <1>6, <1>8, SameTableIsCheaper, BoundQuiet
<1>9. CASE WriteItem(h) /\ q.row \in DOMAIN txs
  <2>1. txs' = [txs EXCEPT ![q.row].amount = q.amount] /\ q.kind = "update"
    BY <1>2, <1>9 DEF WriteItem
  <2>2. DOMAIN txs' = DOMAIN txs /\ \A j \in DOMAIN txs :
           txs'[j].parent = txs[j].parent /\ txs'[j].amount = IF j = q.row THEN q.amount ELSE txs[j].amount
    BY <1>9, <2>1, SameTable DEF Table, Row
  <2>3. txs[q.row].parent = q.parent /\ q.parent # None
    BY <1>3, <1>9, <2>1, SameTable, LineItemsAssumption DEF RequestOK, UpdateOK
  <2>4. q.parent \in DOMAIN txs
    BY <1>9, <2>3, SameTable DEF HaveReceipts
  <2>5. PICK i, p, a : i = q.row /\ p = q.parent /\ a = q.amount
    OBVIOUS
  <2>6. i \in DOMAIN txs /\ p \in DOMAIN txs /\ txs[i].parent = p /\ i # None
    BY <1>7, <1>9, <2>3, <2>4, <2>5, SameTable, LineItemsAssumption
  <2>7. \A j \in DOMAIN txs :
           txs'[j].parent = txs[j].parent /\ txs'[j].amount = IF j = i THEN a ELSE txs[j].amount
    BY <2>2, <2>5
  <2>8. Writing(req[h], p) /\ req[h].row = i /\ a = req[h].amount
    BY <1>1, <1>2, <1>3, <2>1, <2>5 DEF Writing
  <2>9. "edit" \notin past => Bounded(txs', req')
    <3>1. Changed(txs', txs, i, a)
      BY <2>2, <2>7 DEF Changed
    <3>2. "edit" \notin past => Bounded(txs, req)
      BY DEF BoundInv
    <3>3. /\ Counted(txs) /\ DOMAIN txs \subseteq Ids /\ Asking(req) /\ Counted(txs')
      BY CountedState
    <3>. QED BY ONLY <1>5, <2>6, <2>8, <3>1, <3>2, <3>3, BoundChanges
  <2>10. SameReceipts(txs, txs', given)
    <3>. SUFFICES ASSUME NEW s \in DOMAIN txs', txs'[s].parent = None
                  PROVE  s \in DOMAIN txs /\ txs[s].parent = None /\ txs'[s].amount = txs[s].amount
      BY DEF SameReceipts
    <3>1. s \in DOMAIN txs /\ txs[s].parent = None
      BY <2>2
    <3>2. s # i
      BY <2>3, <2>5, <2>6, <3>1
    <3>. QED BY <2>7, <3>1, <3>2
  <2>. QED BY <1>1, <1>4, <2>9, <2>10, BoundStep
<1>10. CASE DeleteItem(h) \/ DeleteRow(h)
  <2>1. PICK S : Fewer(txs', txs, S)
    BY <1>10, DeleteTable
  <2>2. Cheaper(txs, txs', req') /\ SameReceipts(txs, txs', given)
    BY <2>1 DEF Cheaper, SameReceipts, Fewer, ItemsOf
  <2>. QED BY <1>1, <1>4, <1>6, <2>2, BoundQuiet
<1>11. CASE WriteLink(h) /\ q.row \in DOMAIN txs
  <2>1. txs' = [txs EXCEPT ![q.row].source = q.source]
    BY <1>2, <1>11 DEF WriteLink
  <2>2. /\ DOMAIN txs' = DOMAIN txs
        /\ \A j \in DOMAIN txs : txs'[j].parent = txs[j].parent /\ txs'[j].amount = txs[j].amount
    BY <1>11, <2>1, SameTable DEF Table, Row
  <2>3. Cheaper(txs, txs', req') /\ SameReceipts(txs, txs', given)
    BY <2>2 DEF Cheaper, SameReceipts, ItemsOf
  <2>. QED BY <1>1, <1>4, <1>6, <2>3, BoundQuiet
<1>12. ASSUME NEW i \in Ids, InsertItem(h, i), q.parent \in DOMAIN txs PROVE BoundInv'
  <2>1. PICK r \in Row : OneMore(txs', txs, i, r) /\ i \notin given /\ r.parent = q.parent /\ r.amount = q.amount
    BY <1>2, <1>12, InsertTable
  <2>2. q.kind = "create" /\ q.row = None
    BY <1>2, <1>3, <1>12 DEF InsertItem, RequestOK, CreateOK
  <2>3. i # None /\ None \notin Ids
    BY LineItemsAssumption
  <2>4. PICK p : p = q.parent
    OBVIOUS
  <2>5. p \in DOMAIN txs /\ Writing(req[h], p) /\ req[h].row = None /\ r.parent = p /\ r.amount = req[h].amount
    BY <1>1, <1>2, <1>3, <1>12, <2>1, <2>2, <2>4 DEF Writing
  <2>6. \A k \in Handlers : Writing(req[k], p) => req[k].row = None \/ req[k].row \in given
    <3>. SUFFICES ASSUME NEW k \in Handlers, Writing(req[k], p) PROVE req[k].row = None \/ req[k].row \in given
      OBVIOUS
    <3>1. RequestOK(req[k], txs, given)
      BY SameTable
    <3>. QED BY <3>1 DEF Writing, RequestOK, CreateOK, UpdateOK
  <2>7. "edit" \notin past => Bounded(txs', req')
    BY ONLY <1>5, <1>7, <2>1, <2>3, <2>5, <2>6, ItemsInv, ItemsInv', BoundInv, CountedState, BoundInserts DEF BoundInv
  <2>8. SameReceipts(txs, txs', given)
    BY <1>7, <2>1 DEF SameReceipts, OneMore
  <2>. QED BY <1>1, <1>4, <2>7, <2>8, BoundStep
<1>13. CASE WriteItem(h)
  BY <1>2, <1>8, <1>9, <1>13 DEF WriteItem
<1>14. CASE WriteLink(h)
  BY <1>2, <1>8, <1>11, <1>14 DEF WriteLink
<1>15. ASSUME NEW i \in Ids, InsertItem(h, i) PROVE BoundInv'
  BY <1>2, <1>8, <1>12, <1>15, InsertTable
<1>. QED BY <1>10, <1>13, <1>14, <1>15

LEMMA BoundNext == ItemsInv /\ BoundInv /\ [Next]_vars /\ ItemsInv' => BoundInv'
<1>. SUFFICES ASSUME ItemsInv, ItemsInv', BoundInv, [Next]_vars PROVE BoundInv'
  OBVIOUS
<1>0. RequestOK(None, txs, given) /\ LimitKept(None, txs)
  BY NoneOK DEF LimitKept
<1>1. CASE UNCHANGED vars
  BY <1>1 DEF vars, BoundInv
<1>2. CASE \E i \in Ids, s \in BOOLEAN, a \in Amounts, e \in Sources \cup {None} : Post(i, s, a, e)
  <2>1. PICK i \in Ids, s \in BOOLEAN, a \in Amounts, e \in Sources \cup {None} : Post(i, s, a, e)
    BY <1>2
  <2>2. PICK r \in Row : OneMore(txs', txs, i, r) /\ r.parent = None /\ i \notin given
    BY <2>1, PostTable
  <2>3. None \notin given /\ DOMAIN txs \subseteq given /\ i # None
    BY SameTable, LineItemsAssumption DEF Table
  <2>4. UNCHANGED req /\ ("edit" \in past => "edit" \in past')
    BY <2>1 DEF Post
  <2>5. NoMoreWriters(req, req', txs')
    BY <2>4 DEF NoMoreWriters
  <2>6. SameReceipts(txs, txs', given)
    BY <2>2, <2>3 DEF SameReceipts, OneMore
  <2>7. ItemsOf(txs', i) = {} /\ Writers(req', i) = {}
    <3>1. \A j \in DOMAIN txs : txs[j].parent # i
      BY <2>2, <2>3, SameTable DEF HaveReceipts
    <3>2. \A k \in Handlers : ~Writing(req[k], i)
      <4>. SUFFICES ASSUME NEW k \in Handlers, Writing(req[k], i) PROVE FALSE
        OBVIOUS
      <4>1. RequestOK(req[k], txs, given)
        BY SameTable
      <4>. QED BY <2>2, <4>1 DEF Writing, RequestOK, CreateOK, UpdateOK
    <3>. QED BY <2>2, <2>3, <2>4, <3>1, <3>2 DEF OneMore, ItemsOf, Writers
  <2>8. Cheaper(txs, txs', req')
    <3>. SUFFICES ASSUME NEW p \in DOMAIN txs', txs'[p].parent = None, p # i
                  PROVE  /\ p \in DOMAIN txs /\ txs[p].parent = None /\ txs'[p].amount = txs[p].amount
                         /\ ItemsOf(txs', p) \subseteq ItemsOf(txs, p)
                         /\ \A j \in ItemsOf(txs', p) : txs'[j].amount = txs[j].amount
      BY <2>7 DEF Cheaper
    <3>1. p \in DOMAIN txs /\ txs'[p] = txs[p] /\ p # None
      BY <2>2, <2>3 DEF OneMore
    <3>. QED BY <2>2, <2>3, <3>1 DEF OneMore, ItemsOf
  <2>. QED BY <1>0, <2>4, <2>5, <2>6, <2>8, BoundQuiet
<1>3. CASE \E i \in Ids, s \in BOOLEAN, a \in Amounts, e \in Sources \cup {None} : Put(i, s, a, e)
  <2>1. PICK i \in Ids, s \in BOOLEAN, a \in Amounts, e \in Sources \cup {None} : Put(i, s, a, e)
    BY <1>3
  <2>2. CASE a # txs[i].amount
    <3>1. "edit" \in past'
      BY <2>1, <2>2 DEF Put
    <3>. QED BY <3>1 DEF BoundInv
  <2>3. CASE a = txs[i].amount
    <3>1. /\ DOMAIN txs' = DOMAIN txs
          /\ \A j \in DOMAIN txs : txs'[j].parent = txs[j].parent /\ txs'[j].amount = txs[j].amount
      BY <2>1, <2>3, SameTable DEF Put, Table, Row
    <3>2. Cheaper(txs, txs', req') /\ SameReceipts(txs, txs', given)
      BY <3>1 DEF Cheaper, SameReceipts, ItemsOf
    <3>3. UNCHANGED req /\ ("edit" \in past => "edit" \in past') /\ NoMoreWriters(req, req', txs')
      BY <2>1 DEF Put, NoMoreWriters
    <3>. QED BY <1>0, <3>2, <3>3, BoundQuiet
  <2>. QED BY <2>2, <2>3
<1>4. CASE \E i \in Ids : Unlink(i)
  <2>1. PICK i \in Ids : Unlink(i)
    BY <1>4
  <2>2. /\ DOMAIN txs' = DOMAIN txs
        /\ \A j \in DOMAIN txs : txs'[j].parent = txs[j].parent /\ txs'[j].amount = txs[j].amount
    BY <2>1, SameTable DEF Unlink, Table, Row
  <2>3. Cheaper(txs, txs', req') /\ SameReceipts(txs, txs', given)
    BY <2>2 DEF Cheaper, SameReceipts, ItemsOf
  <2>4. UNCHANGED <<req, past>> /\ NoMoreWriters(req, req', txs')
    BY <2>1 DEF Unlink, NoMoreWriters
  <2>. QED BY <1>0, <2>3, <2>4, BoundQuiet
<1>5. CASE \E h \in Handlers :
             \/ \E p \in Ids, a \in Amounts : StartCreate(h, p, a)
             \/ \E p, i \in Ids, a \in Amounts \cup {None} : StartUpdate(h, p, i, a)
             \/ \E p, i \in Ids : StartDeleteItem(h, p, i)
             \/ \E i \in Ids : StartDelete(h, i)
             \/ \E i \in Ids, source \in Sources : StartLink(h, i, source)
  BY <1>5, BoundStart
<1>6. CASE \E h \in Handlers : SumSiblings(h)
  BY <1>6, BoundSums
<1>7. CASE \E h \in Handlers : CheckOwner(h) \/ ReadExisting(h) \/ CountItems(h) \/ CheckClash(h) \/ Abandon(h)
  BY <1>7, BoundChecks
<1>8. CASE \E h \in Handlers : \/ WriteItem(h) \/ DeleteItem(h) \/ DeleteRow(h) \/ WriteLink(h)
                               \/ \E i \in Ids : InsertItem(h, i)
  BY <1>8, BoundWrites
<1>. QED BY <1>1, <1>2, <1>3, <1>4, <1>5, <1>6, <1>7, <1>8 DEF Next, Handle

LEMMA BoundInductive == Spec => []BoundInv
<1>1. Init => BoundInv
  <2>. SUFFICES ASSUME Init PROVE BoundInv
    OBVIOUS
  <2>1. txs = << >> /\ req = [h \in Handlers |-> None]
    BY DEF Init
  <2>2. DOMAIN txs = {} /\ \A h \in Handlers : req[h] = None
    BY <2>1
  <2>. QED BY <2>2 DEF BoundInv, Bounded, LimitKept
<1>. QED BY <1>1, BoundNext, ItemsInductive, PTL DEF Spec

(* transactions_children.rs, create and update, which hold no transaction:  *)
(* however requests overlap, the items of a receipt exceed it by no more    *)
(* than the requests that were let in beside each other can ask for, so     *)
(* that they come to the receipt once for every request in flight at most.  *)
THEOREM OvershootIsAlwaysBounded == Spec => []OvershootIsBounded
<1>1. ItemsInv /\ BoundInv => OvershootIsBounded
  <2>. SUFFICES ASSUME ItemsInv, BoundInv, "edit" \notin past, NEW p \in DOMAIN txs, Items(p) # {}
                PROVE  ItemsTotal(p, None) <= Cardinality(Handlers) * txs[p].amount
    BY DEF OvershootIsBounded
  <2>1. txs[p].parent = None
    BY SameTable, LineItemsAssumption DEF Items, HaveReceipts, Table
  <2>2. Apart(req, {}) /\ {} \in SUBSET Writers(req, p)
    BY DEF Apart
  <2>3. Charge(txs, req, p, {}) <= Cap(txs, p)
    BY <2>1, <2>2 DEF BoundInv, Bounded, Charged
  <2>4. ItemsOf(txs, p) \ Targets(req, {}) = ItemsOf(txs, p) \ {None}
    BY SameTable, LineItemsAssumption DEF ItemsOf, Targets, Table
  <2>5. Charge(txs, req, p, {}) = TotalOf(txs, p, None) + SumOf(Asked(req), {})
    BY <2>4 DEF Charge, LeftAlone, TotalOf
  <2>6. SumOf(Asked(req), {}) = 0
    BY SumEmpty
  <2>7. TotalOf(txs, p, None) \in Nat
    BY SameTable, CountedTable, ItemsAreCounted
  <2>8. TotalOf(txs, p, None) <= Cap(txs, p)
    BY <2>3, <2>5, <2>6, <2>7
  <2>. QED BY <2>8, ItemsTotalIsSum DEF Cap
<1>. QED BY <1>1, BoundInductive, ItemsInductive, PTL
=============================================================================
