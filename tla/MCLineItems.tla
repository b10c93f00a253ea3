---------------------------- MODULE MCLineItems ----------------------------
(* LineItems for TLC. Amounts and links hardly meet: the instance has rows  *)
(* of any amount that settle nothing, two requests at a time, or rows of    *)
(* one amount that are linked, by requests served one after the other,      *)
(* which is when the properties say something of links. Once a route of     *)
(* rows changed an amount nothing is said of requests that overlap.         *)
EXTENDS LineItems, TLC

VARIABLE emphasis

Emphasised ==
    \/ /\ emphasis = "amounts"
       /\ \A i \in DOMAIN txs' : txs'[i].source = None
       /\ \A h \in Handlers : req'[h] # None => req'[h].kind # "link"
       /\ ~ ({"edit", "overlap"} \subseteq past')
    \/ /\ emphasis = "links"
       /\ \A i \in DOMAIN txs' : txs'[i].amount = 1
       /\ "overlap" \notin past'

MCInit == Init /\ emphasis \in {"amounts", "links"}
MCNext == Next /\ Emphasised /\ emphasis' = emphasis
MCSpec == MCInit /\ [][MCNext]_<<vars, emphasis>>

(* No property tells one id or one handler from another.                    *)
ItemSymmetry == Permutations(Ids) \cup Permutations(Handlers)
=============================================================================
