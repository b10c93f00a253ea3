-------------------------------- MODULE Book --------------------------------
(* What a ledger gate promises, whatever it is written in: rows enter,      *)
(* change and leave together with what they move, so that an account's      *)
(* total is at every moment its opening balance and the rows that name it   *)
(* (account-balance.ts: "openingBalance + SUM(transactions) == balance").   *)
(* A row is seen here only through Moves, what it adds to each account.     *)
EXTENDS Integers, FiniteSetsExt

CONSTANTS Accounts, Ids, Rows, None, Moves(_, _)

VARIABLES opening, entries, total

bookVars == <<opening, entries, total>>

Moved(row, a) == IF row = None THEN 0 ELSE Moves(row, a)

InBalance(book) ==
    [a \in Accounts |-> opening[a] + MapThenSumSet(LAMBDA i : Moved(book[i], a), Ids)]

BookInit ==
    /\ opening \in [Accounts -> Int]
    /\ entries = [i \in Ids |-> None]
    /\ total = InBalance(entries)

(* One row or several are entered, edited or struck out.                    *)
Post ==
    /\ entries' \in [Ids -> Rows \cup {None}]
    /\ total' = InBalance(entries')
    /\ UNCHANGED opening

BookSpec == BookInit /\ [][Post]_bookVars
=============================================================================
