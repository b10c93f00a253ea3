------------------------------- MODULE Chain -------------------------------
(* The balance chain of the TypeScript backend: the columns balanceBefore   *)
(* and balanceAfter (toBalanceBefore and toBalanceAfter on the receiving    *)
(* side of a transfer) that balance.hook.ts keeps along the rows of an      *)
(* account, and rebuildBalanceChain, which writes them all anew.            *)
(*                                                                          *)
(* One request at a time: what interleaving does to the totals is Gate's    *)
(* subject. Here a request is one step, with every read and write of the    *)
(* hook in it. A row's id is its rank in creation order; a chain is the     *)
(* rows of an account by date, then by id.                                  *)
EXTENDS Integers, FiniteSets, FiniteSetsExt

CONSTANTS
    ChainAccounts,
    ChainIds,     \* naturals, in creation order
    ChainDates, ChainAmounts,
    Opening,      \* Account.openingBalance, of every account
    MaxSlips,     \* bound on the steps that leave an account's chain wrong
    Null          \* the SQL NULL

ASSUME ChainAssumption ==
    /\ ChainIds \subseteq Nat /\ ChainDates \subseteq Nat /\ ChainAmounts \subseteq Nat \ {0}
    /\ Opening \in Int /\ MaxSlips \in Nat
    /\ Null \notin Int \cup ChainAccounts

VARIABLES
    txs,     \* the rows that there are: id -> row
    cols,    \* id -> side -> the two columns
    stale,   \* history: accounts whose chain the hook is known to leave wrong
    slips    \* steps so far that left an account's chain wrong

chainVars == <<txs, cols, stale, slips>>

----------------------------------------------------------------------------
(* An expense leaves `from`; a transfer also arrives in `to`.               *)
ChainRow ==
    {r \in [date : ChainDates, amount : ChainAmounts, from : ChainAccounts,
            to : ChainAccounts \cup {Null}] : r.to # r.from}

Sides == {"source", "inbound"}
NoColumns == [before |-> Null, after |-> Null]
Columns == {NoColumns} \cup [before : Int, after : Int]
Blank == [s \in Sides |-> NoColumns]

(* A place in the chain of account a: where a row sits, on which side.      *)
Link(t, i, s) == [date |-> t[i].date, id |-> i, side |-> s,
                  delta |-> IF s = "inbound" THEN t[i].amount ELSE -t[i].amount]

Links(t, a) ==
    {Link(t, i, "source") : i \in {i \in DOMAIN t : t[i].from = a}} \cup
    {Link(t, i, "inbound") : i \in {i \in DOMAIN t : t[i].to = a}}

Before(k, l) == k.date < l.date \/ (k.date = l.date /\ k.id < l.id)

Latest(links) == CHOOSE k \in links : \A l \in links \ {k} : Before(l, k)

After(c, k) == c[k.id][k.side].after

(* getPreviousBalanceAfter: what the nearest earlier row of the account     *)
(* left, Null when there is none or when it was never written.              *)
Previous(t, c, a, place) ==
    LET earlier == {k \in Links(t, a) : Before(k, place) /\ k.id # place.id}
    IN  IF earlier = {} THEN Null ELSE After(c, Latest(earlier))

(* The balance before a link, along these links from a start.               *)
Running(links, start, l) ==
    start + MapThenSumSet(LAMBDA k : k.delta, {k \in links : Before(k, l)})

(* The columns of a link with this balance before it.                       *)
Pair(before, delta) == [before |-> before, after |-> before + delta]

(* Some of these links get the balance before and after them.               *)
Written(c, some, links, start) ==
    LET at(i, s) == {l \in some : l.id = i /\ l.side = s}
    IN  [i \in DOMAIN c |-> [s \in Sides |->
            IF at(i, s) = {} THEN c[i][s]
            ELSE LET l == CHOOSE l \in at(i, s) : TRUE
                 IN  Pair(Running(links, start, l), l.delta)]]

(* recalculateChainForward over the links after a place: rewrite until a    *)
(* link that already starts from the running balance, or until a link that  *)
(* was never written, unless those are to be filled.                        *)
Walk(t, c, a, place, start, fillNulls) ==
    LET later == {k \in Links(t, a) : Before(place, k)}
        was(k) == c[k.id][k.side].before
        stop == {k \in later : IF was(k) = Null THEN ~fillNulls ELSE was(k) = Running(later, start, k)}
    IN  Written(c, {l \in later : \A k \in stop : Before(l, k)}, later, start)

(* A place before every row, for seedChainFromOpening.                      *)
Start == [date |-> -1, id |-> -1]

(* Wrong: the gap is not filled.                                            *)
HealToTheGap(t, c, a, place) ==
    LET anchors == {k \in Links(t, a) : Before(k, place) /\ k.id # place.id /\ After(c, k) # Null}
    IN  IF anchors = {} THEN Walk(t, c, a, Start, Opening, FALSE)
        ELSE Walk(t, c, a, Latest(anchors), After(c, Latest(anchors)), FALSE)

(* findChainAnchor, or the opening balance: where a chain with a Null       *)
(* predecessor is picked up again, filling the gap.                         *)
Heal(t, c, a, place) ==
    LET anchors == {k \in Links(t, a) : Before(k, place) /\ k.id # place.id /\ After(c, k) # Null}
    IN  IF anchors = {} THEN Walk(t, c, a, Start, Opening, TRUE)
        ELSE Walk(t, c, a, Latest(anchors), After(c, Latest(anchors)), TRUE)

(* writeTransferDestinationChain: from the row's own place on the receiving *)
(* account, else from that account's opening balance.                       *)
Write(c, i, s, before, delta) ==
    [c EXCEPT ![i][s] = Pair(before, delta)]

DestinationBefore(t, c, place, to) ==
    LET previous == Previous(t, c, to, place)
    IN  IF previous = Null THEN Opening ELSE previous

(* Wrong: the later rows of the destination are not walked.                 *)
WithDestinationUnwalked(t, c, i) ==
    IF t[i].to = Null THEN c
    ELSE LET link == Link(t, i, "inbound")
         IN  Write(c, i, "inbound", DestinationBefore(t, c, link, t[i].to), link.delta)

WithDestination(t, c, i) ==
    IF t[i].to = Null THEN c
    ELSE LET link == Link(t, i, "inbound")
             before == DestinationBefore(t, c, link, t[i].to)
         IN  Walk(t, Write(c, i, "inbound", before, link.delta), t[i].to, link,
                  before + link.delta, FALSE)

(* balanceHook, 'created' and 'updated': the two branches are the same. The *)
(* destination is computed before the source's columns are written, and the *)
(* source's later rows are rewritten first.                                 *)
Hooked(t, c, i) ==
    LET link == Link(t, i, "source")
        previous == Previous(t, c, t[i].from, link)
        noInbound == [c EXCEPT ![i]["inbound"] = NoColumns]
        source == Walk(t, Write(noInbound, i, "source", previous, link.delta), t[i].from, link,
                       previous + link.delta, FALSE)
    IN  IF previous = Null THEN WithDestination(t, Heal(t, c, t[i].from, link), i)
        ELSE WithDestination(t, source, i)

(* balanceHook, 'deleted': the walk of the source account starts from the   *)
(* nearest earlier row that account is the SOURCE of, and there is none     *)
(* without such a row; the receiving account is walked from the gap.        *)
Unhooked(t, c, i, r) ==
    LET place == [date |-> r.date, id |-> i]
        sources == {k \in Links(t, r.from) : k.side = "source" /\ Before(k, place)}
        source == IF sources = {} \/ After(c, Latest(sources)) = Null THEN c
                  ELSE Walk(t, c, r.from, Latest(sources), After(c, Latest(sources)), FALSE)
    IN  IF r.to = Null THEN source
        ELSE Walk(t, source, r.to, place, DestinationBefore(t, source, place, r.to), FALSE)

(* The chain of an account as it should be.                                 *)
Right(t, c, a, l) == c[l.id][l.side] = Pair(Running(Links(t, a), Opening, l), l.delta)
Exact(t, c, a) == \A l \in Links(t, a) : Right(t, c, a, l)

Rebuilt(t, c, a) == Written(c, Links(t, a), Links(t, a), Opening)

----------------------------------------------------------------------------
With(f, i, v) == [j \in DOMAIN f \cup {i} |-> IF j = i THEN v ELSE f[j]]
Without(f, i) == [j \in DOMAIN f \ {i} |-> f[j]]
Involved(r) == {r.from, r.to} \ {Null}

ChainInit ==
    /\ txs = <<>> /\ cols = <<>>
    /\ stale = {}
    /\ slips = 0

(* These accounts are left wrong by this step, if there are any.            *)
Slip(accounts) ==
    /\ stale' = stale \cup accounts
    /\ slips' = IF accounts = {} THEN slips ELSE slips + 1
    /\ slips' <= MaxSlips

(* Ids are in the order of creation: what is created gets this one.         *)
NextId == Max({0} \cup DOMAIN txs) + 1

CreateTx(i, r) ==
    /\ i \notin DOMAIN txs
    /\ LET t == With(txs, i, r)
       IN  /\ txs' = t
           /\ cols' = Hooked(t, With(cols, i, Blank), i)
    /\ UNCHANGED <<stale, slips>>

(* The server stops between the row and its chain: "a create that ran while *)
(* the server was mid-deploy". The row's columns stay Null.                 *)
CutCreate(i, r) ==
    /\ i \notin DOMAIN txs
    /\ txs' = With(txs, i, r)
    /\ cols' = With(cols, i, Blank)
    /\ Slip(Involved(r))

(* An update whose row has no earlier one to start from takes the healing   *)
(* walk, and that stops at the row itself when its `before` is right: the   *)
(* account is left wrong.                                                   *)
Converged(t, i) ==
    IF Previous(t, cols, t[i].from, Link(t, i, "source")) = Null
       /\ cols[i]["source"].before # Null
    THEN {t[i].from} ELSE {}

(* An edit of the amount alone.                                             *)
EditAmount(i, n) ==
    /\ i \in DOMAIN txs /\ txs[i].amount # n
    /\ txs' = [txs EXCEPT ![i].amount = n]
    /\ cols' = Hooked(txs', cols, i)
    /\ Slip(Converged(txs', i))

(* An edit of the date. The rows between the old place and a later new one  *)
(* are not walked: those accounts are left wrong.                           *)
Crossed(i, d) ==
    {a \in Involved(txs[i]) : \E k \in Links(txs, a) : k.id # i /\
        Before(Link(txs, i, "source"), k) /\ Before(k, [date |-> d, id |-> i])}

MoveDate(i, d) ==
    /\ i \in DOMAIN txs /\ txs[i].date # d
    /\ txs' = [txs EXCEPT ![i].date = d]
    /\ cols' = Hooked(txs', cols, i)
    /\ Slip(Crossed(i, d) \cup Converged(txs', i))

(* A deletion that the walk of the source account starts too early for, or  *)
(* not at all: an inbound row, or nothing, is next before the deleted one.  *)
Skipped(i) ==
    LET a == txs[i].from
        place == Link(txs, i, "source")
        earlier == {k \in Links(txs, a) : Before(k, place)}
        follow == {k \in Links(txs, a) : Before(place, k)}
    IN  IF follow # {} /\ (earlier = {} \/ Latest(earlier).side = "inbound") THEN {a} ELSE {}

DeleteTx(i) ==
    /\ i \in DOMAIN txs
    /\ LET t == Without(txs, i)
       IN  /\ txs' = t
           /\ cols' = Unhooked(t, Without(cols, i), i, txs[i])
    /\ Slip(Skipped(i))

(* POST /accounts/{id}/rebuild-chain.                                       *)
Rebuild(a) ==
    /\ cols' = Rebuilt(txs, cols, a)
    /\ stale' = stale \ {a}
    /\ UNCHANGED <<txs, slips>>

ChainNext ==
    \/ \E i \in ChainIds \cap {NextId}, r \in ChainRow : CreateTx(i, r) \/ CutCreate(i, r)
    \/ \E i \in ChainIds : DeleteTx(i)
    \/ \E i \in ChainIds, n \in ChainAmounts : EditAmount(i, n)
    \/ \E i \in ChainIds, d \in ChainDates : MoveDate(i, d)
    \/ \E a \in ChainAccounts : Rebuild(a)

ChainSpec == ChainInit /\ [][ChainNext]_chainVars

----------------------------------------------------------------------------
(* A row's columns are written together, on each of its sides.              *)
ChainTypeOK ==
    /\ DOMAIN txs \in SUBSET ChainIds /\ IsFiniteSet(DOMAIN txs)
    /\ txs \in [DOMAIN txs -> ChainRow]
    /\ cols \in [DOMAIN txs -> [Sides -> Columns]]
    /\ stale \subseteq ChainAccounts
    /\ slips \in 0..MaxSlips

(* Every row of an account carries the balance before and after it, except  *)
(* on the accounts the hook is known to leave wrong: creates, edits of an   *)
(* amount, earlier dates and the other deletions keep both sides of a       *)
(* transfer right, at whatever place of the two chains it sits.             *)
ChainKept == \A a \in ChainAccounts \ stale : Exact(txs, cols, a)

(* "A mid-chain NULL predecessor is corruption": a new row that follows one *)
(* makes its account whole again, from the last row that was written, or    *)
(* from the opening balance. Only what the Null hid: the links that were    *)
(* written must have been right, and must come before the gap.              *)
GapOnly(t, c, a) ==
    LET written == {k \in Links(t, a) : After(c, k) # Null}
    IN  \A k \in written :
            Right(t, c, a, k) /\ \A l \in Links(t, a) \ written : Before(k, l)

NextCreateHeals ==
    [][\A i \in DOMAIN txs' \ DOMAIN txs, r \in ChainRow :
        CreateTx(i, r) /\ GapOnly(txs, cols, r.from)
        /\ Previous(txs', cols, r.from, [date |-> r.date, id |-> i]) = Null
            => Exact(txs', cols', r.from)]_chainVars
=============================================================================
