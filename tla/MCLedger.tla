------------------------------ MODULE MCLedger ------------------------------
(* Ledger for TLC. What multiplies its states most never meets in one       *)
(* behaviour of the instance: it has two rows of a day with trades, or two  *)
(* rows with a lost rebuild, the second of them at any date, or one row     *)
(* with edits of the accounts and a lost rebuild, or a single account with  *)
(* two edits in flight that both leave it wrong, and a row that comes and   *)
(* goes.                                                                    *)
EXTENDS Ledger, TLC

VARIABLE emphasis

NoTrades == \A i \in DOMAIN txs' : txs'[i].type # "TRADE"
OneDay == \A i \in DOMAIN txs' : txs'[i].date = 1
OneEdit == \A h, k \in Editors : edit'[h] # None /\ edit'[k] # None => h = k
OneAccount == \A a, b \in DOMAIN acct' : a = b
OneRow == NoTrades /\ OneDay /\ DOMAIN txs' \subseteq {1}
SameOpening == \A a, b \in DOMAIN acct' : acct'[a].opening = acct'[b].opening
OneOpening == edit' = edit /\ \A a \in DOMAIN acct' : acct'[a].opening # 0

Emphasised ==
    \/ emphasis = "trades" /\ OneOpening /\ OneDay /\ faults' = 0
    \/ emphasis = "faults" /\ faults' <= 1 /\ OneOpening /\ NoTrades /\ (1 \in DOMAIN txs' => txs'[1].date = 1)
    \/ emphasis = "edits" /\ faults' <= 1 /\ OneRow /\ OneEdit /\ (faults' = 0 \/ SameOpening)
    \/ emphasis = "overlap" /\ OneRow /\ OneAccount /\ (~Idle => NoFault) /\ (txs # << >> /\ txs' # << >> => txs' = txs)

MCInit == Init /\ emphasis \in {"trades", "faults", "edits", "overlap"}
MCNext == Next /\ Emphasised /\ emphasis' = emphasis
MCSpec == MCInit /\ [][MCNext]_<<vars, emphasis>>

(* Which account or editor is which makes no difference to the ledger.      *)
LedgerSymmetry == Permutations(Accounts) \cup Permutations(Editors)
=============================================================================
