----------------------------- MODULE LineItems -----------------------------
(***************************************************************************)
(* Line items of a receipt, and links to what a row settles                *)
(* (src/rust/api/src/transactions_children.rs, with the deletion of a row  *)
(* in src/rust/api/src/transactions.rs).                                   *)
(*                                                                         *)
(* None of these handlers opens a database transaction: each takes the one *)
(* connection again for every statement, so a handler checks in one step   *)
(* and writes in a later one, and other requests run in between.  A        *)
(* handler in flight is a record in the variable req: what it was asked,   *)
(* what it has read, and the step it takes next.  A step that refuses the  *)
(* request ends it.                                                        *)
(*                                                                         *)
(* The source of a row stands for the occurrence it claims: the recurring  *)
(* expense together with the row's date, so an edit of the date is one of  *)
(* the source.  An id is never given twice (cuid), so a run ends when Ids  *)
(* is used up.                                                             *)
(***************************************************************************)
EXTENDS Integers, FiniteSets, FiniteSetsExt, Functions

CONSTANTS
    Ids,        \* ids of rows
    Amounts,    \* cents of a row or of a line
    Sources,    \* occurrences of recurring expenses a row may be linked to
    Handlers,   \* requests that may be in flight at once
    None        \* the SQL NULL, an idle handler

RequestKinds == {"create", "update", "deleteItem", "delete", "link"}
PastKinds == {"overlap", "edit", "relink"}

ASSUME LineItemsAssumption ==
    /\ Amounts \subseteq Nat \ {0}
    /\ IsFiniteSet(Handlers)
    /\ None \notin Ids /\ None \notin Sources /\ None \notin Amounts

VARIABLES
    txs,   \* Transaction: id -> parentId, whether its type can be split, amount, expenseId
    given, \* the ids given so far
    req,   \* handler -> the request it is serving
    past   \* history: "overlap" once two requests were in flight at a time,
           \* "edit" once a row's own route changed an amount, "relink" once
           \* that route, create or update, gave a row a link

vars == <<txs, given, req, past>>

Row == [parent : Ids \cup {None}, splittable : BOOLEAN,
        amount : Amounts, source : Sources \cup {None}]

Request == [kind : RequestKinds,
            step : {"owner", "existing", "sum", "count", "clash", "write"},
            parent : Ids \cup {None},      \* the receipt
            row : Ids \cup {None},         \* the row to write or to delete
            amount : Amounts \cup {None},  \* the line total to write
            limit : Amounts \cup {None},   \* the receipt's total, when it was read
            source : Sources \cup {None}]

Items(p) == {i \in DOMAIN txs : txs[i].parent = p}
ItemsTotal(p, except) ==
    MapThenSumSet(LAMBDA i : txs[i].amount, Items(p) \ {except})

Without(ids) == [i \in DOMAIN txs \ ids |-> txs[i]]
With(i, r) == [j \in DOMAIN txs \cup {i} |-> IF j = i THEN r ELSE txs[j]]

At(h, step) == req[h] # None /\ req[h].step = step
Goto(h, step) == req' = [req EXCEPT ![h].step = step]
Done(h) == req' = [req EXCEPT ![h] = None]

(* A handler takes a request; past remembers that others are in flight.     *)
Begin(h, r) ==
    /\ req[h] = None
    /\ req' = [req EXCEPT ![h] = r]
    /\ past' = IF \A g \in Handlers : req[g] = None THEN past ELSE past \cup {"overlap"}

Blank == [kind |-> "create", step |-> "write", parent |-> None, row |-> None,
          amount |-> None, limit |-> None, source |-> None]

Init ==
    /\ txs = << >>
    /\ given = {}
    /\ req = [h \in Handlers |-> None]
    /\ past = {}

-----------------------------------------------------------------------------
(* The rows themselves. *)

(* POST /transactions: ledger_create of a top-level row, of a type that can *)
(* be split or not, linked or not, and with no look at the other rows of    *)
(* the occurrence.                                                          *)
Post(i, splittable, amount, source) ==
    /\ i \notin given
    /\ given' = given \cup {i}
    /\ txs' = With(i, [parent |-> None, splittable |-> splittable,
                       amount |-> amount, source |-> source])
    /\ past' = IF source = None THEN past ELSE past \cup {"relink"}
    /\ UNCHANGED req

(* PUT /transactions/:id, of a receipt or of an item: the amount, the type, *)
(* the link or the date, in one UPDATE, and with no look at the other side  *)
(* of the split or at the other rows of the occurrence.                     *)
Put(i, splittable, amount, source) ==
    /\ i \in DOMAIN txs
    /\ txs' = [txs EXCEPT ![i] = [@ EXCEPT !.splittable = splittable, !.amount = amount,
                                          !.source = source]]
    /\ past' = past \cup (IF amount = txs[i].amount THEN {} ELSE {"edit"})
                    \cup (IF source \in {None, txs[i].source} THEN {} ELSE {"relink"})
    /\ UNCHANGED <<given, req>>

(* unlink. *)
Unlink(i) ==
    /\ i \in DOMAIN txs /\ txs[i].source # None
    /\ txs' = [txs EXCEPT ![i].source = None]
    /\ UNCHANGED <<given, req, past>>

-----------------------------------------------------------------------------
(* create: read the receipt, add up its items, insert. *)

StartCreate(h, p, amount) ==
    /\ p \in DOMAIN txs
    /\ txs[p].parent = None /\ txs[p].splittable
    /\ Begin(h, [Blank EXCEPT !.kind = "create", !.step = "sum", !.parent = p,
                                !.amount = amount, !.limit = txs[p].amount])
    /\ UNCHANGED <<txs, given>>

(* Wrong: the items are added up and not compared with the receipt.         *)
SumUnchecked(h) ==
    /\ At(h, "sum")
    /\ Goto(h, "write")
    /\ UNCHANGED <<txs, given, past>>

(* siblings_total, leaving out the item being edited, against the total of  *)
(* the receipt as this handler read it.                                     *)
SumSiblings(h) ==
    /\ At(h, "sum")
    /\ IF ItemsTotal(req[h].parent, req[h].row) + req[h].amount > req[h].limit
       THEN Done(h)
       ELSE Goto(h, "write")
    /\ UNCHANGED <<txs, given, past>>

(* Wrong: a table without the foreign key on parentId.                      *)
InsertUnreferenced(h, i) ==
    /\ At(h, "write") /\ req[h].kind = "create"
    /\ i \notin given
    /\ given' = given \cup {i}
    /\ txs' = With(i, [parent |-> req[h].parent, splittable |-> TRUE,
                       amount |-> req[h].amount, source |-> None])
    /\ Done(h)
    /\ UNCHANGED past

(* The INSERT, which the foreign key on parentId refuses when the receipt   *)
(* is gone.                                                                 *)
InsertItem(h, i) ==
    /\ At(h, "write") /\ req[h].kind = "create"
    /\ i \notin given
    /\ given' = given \cup {i}
    /\ txs' = IF req[h].parent \in DOMAIN txs
              THEN With(i, [parent |-> req[h].parent, splittable |-> TRUE,
                            amount |-> req[h].amount, source |-> None])
              ELSE txs
    /\ Done(h)
    /\ UNCHANGED past

-----------------------------------------------------------------------------
(* update: read the receipt, check the item is its, read the item, add up   *)
(* its siblings, write.  An edit that supplies no amount writes back the    *)
(* one it read.  A client names a row whose id it has been given.           *)

StartUpdate(h, p, i, amount) ==
    /\ p \in DOMAIN txs /\ i \in given \ {p}
    /\ Begin(h, [Blank EXCEPT !.kind = "update", !.step = "owner", !.parent = p, !.row = i,
                                !.amount = amount, !.limit = txs[p].amount])
    /\ UNCHANGED <<txs, given>>

(* child_of, for update and delete. *)
CheckOwner(h) ==
    /\ At(h, "owner")
    /\ IF req[h].row \in Items(req[h].parent)
       THEN Goto(h, IF req[h].kind = "update" THEN "existing" ELSE "write")
       ELSE Done(h)
    /\ UNCHANGED <<txs, given, past>>

ReadExisting(h) ==
    /\ At(h, "existing")
    /\ LET i == req[h].row
       IN  IF i \notin DOMAIN txs THEN Done(h)
           ELSE req' = [req EXCEPT ![h].step = "sum",
                                   ![h].amount = IF @ = None THEN txs[i].amount ELSE @]
    /\ UNCHANGED <<txs, given, past>>

(* The UPDATE, of no row when the item is gone. *)
WriteItem(h) ==
    /\ At(h, "write") /\ req[h].kind = "update"
    /\ IF req[h].row \in DOMAIN txs
       THEN txs' = [txs EXCEPT ![req[h].row].amount = req[h].amount]
       ELSE UNCHANGED txs
    /\ Done(h)
    /\ UNCHANGED <<given, past>>

-----------------------------------------------------------------------------
(* delete of an item, and delete of a row. *)

StartDeleteItem(h, p, i) ==
    /\ p \in DOMAIN txs /\ i \in given \ {p}
    /\ Begin(h, [Blank EXCEPT !.kind = "deleteItem", !.step = "owner", !.parent = p, !.row = i])
    /\ UNCHANGED <<txs, given>>

DeleteItem(h) ==
    /\ At(h, "write") /\ req[h].kind = "deleteItem"
    /\ txs' = Without({req[h].row})
    /\ Done(h)
    /\ UNCHANGED <<given, past>>

StartDelete(h, i) ==
    /\ i \in DOMAIN txs
    /\ Begin(h, [Blank EXCEPT !.kind = "delete", !.step = "count", !.row = i])
    /\ UNCHANGED <<txs, given>>

(* Wrong: the port before the write harness created an item.                *)
CountSkipped(h) ==
    /\ At(h, "count")
    /\ Goto(h, "write")
    /\ UNCHANGED <<txs, given, past>>

(* A row with line items is refused with a 409. *)
CountItems(h) ==
    /\ At(h, "count")
    /\ IF Items(req[h].row) # {} THEN Done(h) ELSE Goto(h, "write")
    /\ UNCHANGED <<txs, given, past>>

(* ledger_delete: an error when the row is gone, else the row and, by the   *)
(* cascade on parentId, its items.                                          *)
DeleteRow(h) ==
    /\ At(h, "write") /\ req[h].kind = "delete"
    /\ txs' = IF req[h].row \in DOMAIN txs
              THEN Without({req[h].row} \cup Items(req[h].row)) ELSE txs
    /\ Done(h)
    /\ UNCHANGED <<given, past>>

-----------------------------------------------------------------------------
(* link: read the row, look for another row of the occurrence, write. *)

StartLink(h, i, source) ==
    /\ i \in DOMAIN txs
    /\ Begin(h, [Blank EXCEPT !.kind = "link", !.step = "clash", !.row = i, !.source = source])
    /\ UNCHANGED <<txs, given>>

Linked(source) == {i \in DOMAIN txs : txs[i].source = source}

(* Wrong: the row's own link is the only one looked at.                     *)
CheckOwnLink(h) ==
    /\ At(h, "clash")
    /\ IF req[h].row \in Linked(req[h].source) THEN Done(h) ELSE Goto(h, "write")
    /\ UNCHANGED <<txs, given, past>>

CheckClash(h) ==
    /\ At(h, "clash")
    /\ IF Linked(req[h].source) \ {req[h].row} # {} THEN Done(h) ELSE Goto(h, "write")
    /\ UNCHANGED <<txs, given, past>>

WriteLink(h) ==
    /\ At(h, "write") /\ req[h].kind = "link"
    /\ txs' = IF req[h].row \in DOMAIN txs
              THEN [txs EXCEPT ![req[h].row].source = req[h].source] ELSE txs
    /\ Done(h)
    /\ UNCHANGED <<given, past>>

(* A handler dropped between two of its statements. *)
Abandon(h) ==
    /\ req[h] # None
    /\ Done(h)
    /\ UNCHANGED <<txs, given, past>>

-----------------------------------------------------------------------------
Handle(h) ==
    \/ \E p \in Ids, amount \in Amounts : StartCreate(h, p, amount)
    \/ \E p, i \in Ids, amount \in Amounts \cup {None} : StartUpdate(h, p, i, amount)
    \/ \E p, i \in Ids : StartDeleteItem(h, p, i)
    \/ \E i \in Ids : StartDelete(h, i)
    \/ \E i \in Ids, source \in Sources : StartLink(h, i, source)
    \/ SumSiblings(h)
    \/ \E i \in Ids : InsertItem(h, i)
    \/ CheckOwner(h)
    \/ ReadExisting(h)
    \/ WriteItem(h)
    \/ DeleteItem(h)
    \/ CountItems(h)
    \/ DeleteRow(h)
    \/ CheckClash(h)
    \/ WriteLink(h)
    \/ Abandon(h)

Next ==
    \/ \E i \in Ids, splittable \in BOOLEAN, amount \in Amounts, source \in Sources \cup {None} :
          Post(i, splittable, amount, source) \/ Put(i, splittable, amount, source)
    \/ \E i \in Ids : Unlink(i)
    \/ \E h \in Handlers : Handle(h)

Spec == Init /\ [][Next]_vars

-----------------------------------------------------------------------------
(* Properties. *)

(* The table and the requests hold what the routes put in them.             *)
TypeOK ==
    /\ DOMAIN txs \subseteq given /\ given \subseteq Ids
    /\ txs \in [DOMAIN txs -> Row]
    /\ req \in [Handlers -> Request \cup {None}]
    /\ past \subseteq PastKinds

(* An item belongs to a receipt that exists and is no item itself, whatever *)
(* was deleted between the check and the insert: an item of an item would   *)
(* be left out of every balance and of every split.                         *)
ItemsHaveReceipts ==
    \A i \in DOMAIN txs : txs[i].parent # None =>
        txs[i].parent \in DOMAIN txs /\ txs[txs[i].parent].parent = None

(* The sum of the parts may not exceed the whole (transactions_children.rs, *)
(* module comment), by any sequence of requests that were served one after  *)
(* the other and edited line items through their own routes.                *)
ItemsFitReceipt ==
    past \cap {"overlap", "edit"} = {} => \A p \in DOMAIN txs : Items(p) # {} => ItemsTotal(p, None) <= txs[p].amount

(* When requests overlap the whole can be exceeded, each of them having     *)
(* been admitted against a sum the others' pending lines were missing from: *)
(* no further than the size of the receipt for each request in flight.      *)
OvershootIsBounded ==
    "edit" \notin past => \A p \in DOMAIN txs : Items(p) # {} =>
        ItemsTotal(p, None) <= Cardinality(Handlers) * txs[p].amount

(* A parent with line items is refused, not cascaded (transactions.rs):     *)
(* served alone, the deletion of a row takes no item with it.               *)
DeletionSparesItems ==
    [][\A h \in Handlers : "overlap" \notin past /\ DeleteRow(h) =>
          \A i \in DOMAIN txs : txs[i].parent # None /\ i # req[h].row => i \in DOMAIN txs']_vars

(* One transaction per occurrence (transactions_children.rs, link), by any  *)
(* sequence of requests served one after the other, of which link and the   *)
(* line-item routes are the only ones that give a row a link.               *)
OneRowPerOccurrence ==
    past \cap {"overlap", "relink"} = {} => \A source \in Sources : Cardinality(Linked(source)) <= 1

(* The comment on link (transactions_children.rs:548): a second row         *)
(* claiming the same source on the same date is refused rather than         *)
(* silently accepted.  The create and update routes of a row accept it,     *)
(* with no two requests in flight at a time.                                *)
SecondClaimIsRefused ==
    "overlap" \notin past => \A source \in Sources : Cardinality(Linked(source)) <= 1
=============================================================================
