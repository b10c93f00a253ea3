----------------------------- MODULE MCSchedule -----------------------------
(* Workloads of Schedule for TLC.                                           *)
EXTENDS Schedule, TLC

CONSTANTS t1, t2, h1, h2

(* Two months and two prices, one request at a time, of an expense or of an *)
(* income whose payments also lose their link; and two requests at once,    *)
(* with two payments, within a month.                                       *)
OneAtATime ==
    [days |-> 1..4, prices |-> {1, 2}, rules |-> {{1, 3}, {2}}, txIds |-> {t1}, handlers |-> {h1},
     income |-> FALSE, serial |-> TRUE, requests |-> {"pay", "skip", "edit", "put"}]
Incomes ==
    [OneAtATime EXCEPT !.income = TRUE, !.rules = {{1, 3}},
                       !.requests = {"pay", "skip", "put", "unlink", "relink"}]
TwoAtOnce ==
    [days |-> 1..2, prices |-> {1}, rules |-> {{1}, {2}}, txIds |-> {t1, t2}, handlers |-> {h1, h2},
     income |-> FALSE, serial |-> FALSE,
     requests |-> {"pay", "snooze", "edit", "unlink", "deleteItem", "deleteAccount"}]
TwoIncomesAtOnce ==
    [TwoAtOnce EXCEPT !.income = TRUE, !.requests = {"pay", "put", "edit", "deleteItem", "archive"}]
All == {OneAtATime, Incomes, TwoAtOnce, TwoIncomesAtOnce}

(* A due date paid by way of a snoozed row.                                 *)
Snoozing ==
    {[OneAtATime EXCEPT !.prices = {1}, !.rules = {{1}, {2}}, !.requests = {"pay", "snooze", "edit"}]}

(* No property tells one transaction or one handler from another.           *)
ScheduleSymmetry == Permutations({t1, t2}) \cup Permutations({h1, h2})
=============================================================================
