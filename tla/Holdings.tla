------------------------------ MODULE Holdings ------------------------------
(* Investment holdings as the TypeScript backend keeps them: a trade or a   *)
(* Bitcoin payment moves a holding through the lifecycle hooks (lib/        *)
(* holdings.ts and the hooks trade-holding and bitcoin-holding), a transfer *)
(* moves units between two holdings past the gate (lib/transfers.ts).       *)
(*                                                                          *)
(* One asset is followed, a stock or Bitcoin, at the places that hold it (a *)
(* custodian, a wallet). Requests come one at a time. A place is its        *)
(* holding: findFirst finds the one row there is. Costs are counted in      *)
(* units so small that a proportional share may round down.                 *)
EXTENDS Integers, FiniteSets, FiniteSetsExt

CONSTANTS
    Places, TradeIds, TransferIds,
    Quantities, Prices,   \* units of a trade, cost of a unit
    Fees,                 \* of a transfer: units of Bitcoin, or money for a stock
    MaxRequests,          \* bound on the requests of a run
    Nil

ASSUME HoldingsAssumption ==
    /\ IsFiniteSet(Places) /\ IsFiniteSet(TradeIds) /\ IsFiniteSet(TransferIds)
    /\ Quantities \subseteq Nat \ {0} /\ Prices \subseteq Nat \ {0} /\ Fees \subseteq Nat
    /\ MaxRequests \in Nat

VARIABLES
    asset,      \* "STOCK" or "BITCOIN"
    holdings,   \* the InvestmentHolding of each place
    trades,     \* transactions with a TradeDetail or a BitcoinPaymentDetail
    transfers,  \* the InvestmentTransfers
    cash,       \* what transfer fees have done to Account.balance
    fees,       \* the fee transactions, with amount and netAmount
    requests    \* how many there were

holdingsVars == <<asset, holdings, trades, transfers, cash, fees, requests>>

Trade == [detail : {"trade", "payment"}, direction : {"BUY", "SELL"}, place : Places,
          quantity : Quantities, price : Prices]
Transfer == [from : Places, to : Places, quantity : Nat, fee : Nat]
Holding == [quantity : Int, cost : Int]
Fee == [amount : Nat, net : Nat]

ASSUME NilIsNoRow == Nil \notin Trade \cup Transfer \cup Holding \cup Fee

Quantity(p) == IF holdings[p] = Nil THEN 0 ELSE holdings[p].quantity

----------------------------------------------------------------------------
(* The proportional cost of q units of a holding.                           *)
Share(h, q) == IF h.quantity > 0 THEN (q * h.cost) \div h.quantity ELSE 0

Add(h, q, c) ==
    IF h = Nil THEN [quantity |-> q, cost |-> c] ELSE [quantity |-> h.quantity + q, cost |-> h.cost + c]

Take(h, q, c) == [quantity |-> h.quantity - q, cost |-> h.cost - c]

(* Wrong: a reversal is refused like a sale of too much.                    *)
AppliedUnlessSold(book, t, multiplier) ==
    LET h == book[t.place] IN
    IF t.direction = "BUY" /\ multiplier = 1 THEN [book EXCEPT ![t.place] = Add(h, t.quantity, t.quantity * t.price)]
    ELSE IF h = Nil \/ t.quantity > h.quantity THEN book
    ELSE [book EXCEPT ![t.place] = Take(h, t.quantity, Share(h, t.quantity))]

(* applyTradeToHolding and applyBitcoinToHolding: the reversal of a buy is  *)
(* a sale and that of a sale a buy, at its own price; a sale where nothing  *)
(* is held does nothing.                                                    *)
Applied(book, t, multiplier) ==
    LET h == book[t.place] IN
    IF (t.direction = "BUY") = (multiplier = 1)
    THEN [book EXCEPT ![t.place] = Add(h, t.quantity, t.quantity * t.price)]
    ELSE IF h = Nil THEN book
    ELSE [book EXCEPT ![t.place] = Take(h, t.quantity, Share(h, t.quantity))]

(* validateTradeMetadata and validateBitcoinPayment.                        *)
Covered(t) == t.direction = "SELL" => t.quantity <= Quantity(t.place)

HoldingsInit ==
    /\ asset \in {"STOCK", "BITCOIN"}
    /\ holdings = [p \in Places |-> Nil]
    /\ trades = [i \in TradeIds |-> Nil]
    /\ transfers = [x \in TransferIds |-> Nil]
    /\ cash = 0 /\ fees = [x \in TransferIds |-> Nil]
    /\ requests = 0

NoTransfer == UNCHANGED <<transfers, cash, fees>>

----------------------------------------------------------------------------
CreateTrade(i, t) ==
    /\ trades[i] = Nil /\ Covered(t) /\ (t.detail = "payment" => asset = "BITCOIN")
    /\ trades' = [trades EXCEPT ![i] = t]
    /\ holdings' = Applied(holdings, t, 1)
    /\ NoTransfer

(* PUT: the old one reversed, the new one applied. Only a payment sent with *)
(* its metadata is checked against what is held, and as if the old one were *)
(* still spent; without it the type and the amount may change unchecked.    *)
EditTrade(i, t) ==
    /\ trades[i] # Nil /\ t.detail = trades[i].detail
    /\ \/ t.detail = "trade"
       \/ Covered(t)
       \/ t = [trades[i] EXCEPT !.direction = t.direction, !.price = t.price]
    /\ trades' = [trades EXCEPT ![i] = t]
    /\ holdings' = Applied(Applied(holdings, trades[i], -1), t, 1)
    /\ NoTransfer

(* PUT with another type and no metadata: the detail row goes, and with it  *)
(* the condition of the hook, so that nothing is reversed.                  *)
RetypeTrade(i) ==
    /\ trades[i] # Nil
    /\ trades' = [trades EXCEPT ![i] = Nil]
    /\ UNCHANGED holdings /\ NoTransfer

DeleteTrade(i) ==
    /\ trades[i] # Nil
    /\ trades' = [trades EXCEPT ![i] = Nil]
    /\ holdings' = Applied(holdings, trades[i], -1)
    /\ NoTransfer

(* DELETE /investments/:id: only transfers hold it back.                    *)
DeleteHolding(p) ==
    /\ holdings[p] # Nil
    /\ \A x \in TransferIds : transfers[x] # Nil => p \notin {transfers[x].from, transfers[x].to}
    /\ holdings' = [holdings EXCEPT ![p] = Nil]
    /\ UNCHANGED trades /\ NoTransfer

----------------------------------------------------------------------------
(* Wrong: the fee takes its cost along.                                     *)
BitcoinTransferCostingFee(x, from, to, q, fee) ==
    /\ asset = "BITCOIN" /\ transfers[x] = Nil /\ from # to
    /\ holdings[from] # Nil /\ holdings[from].quantity >= q + fee
    /\ LET h == holdings[from] IN
       holdings' = [holdings EXCEPT ![from] = Take(@, q + fee, Share(h, q + fee)), ![to] = Add(@, q, Share(h, q))]
    /\ transfers' = [transfers EXCEPT ![x] = [from |-> from, to |-> to, quantity |-> q, fee |-> fee]]
    /\ UNCHANGED <<trades, cash, fees>>

(* executeBitcoinTransfer: the fee is paid in kind, its cost stays behind.  *)
BitcoinTransfer(x, from, to, q, fee) ==
    /\ asset = "BITCOIN" /\ transfers[x] = Nil /\ from # to
    /\ holdings[from] # Nil /\ holdings[from].quantity >= q + fee
    /\ LET c == Share(holdings[from], q) IN
       holdings' = [holdings EXCEPT ![from] = Take(@, q + fee, c), ![to] = Add(@, q, c)]
    /\ transfers' = [transfers EXCEPT ![x] = [from |-> from, to |-> to, quantity |-> q, fee |-> fee]]
    /\ UNCHANGED <<trades, cash, fees>>

(* executeStockTransfer: the fee is an EXPENSE created past the gate, with  *)
(* the amount and not the netAmount, which is 0 by default.                 *)
StockTransfer(x, from, to, q, fee) ==
    /\ asset = "STOCK" /\ transfers[x] = Nil /\ fees[x] = Nil /\ from # to
    /\ holdings[from] # Nil /\ holdings[from].quantity >= q
    /\ LET c == Share(holdings[from], q) IN
       holdings' = [holdings EXCEPT ![from] = Take(@, q, c), ![to] = Add(@, q, c)]
    /\ transfers' = [transfers EXCEPT ![x] = [from |-> from, to |-> to, quantity |-> q, fee |-> 0]]
    /\ fees' = [fees EXCEPT ![x] = IF fee = 0 THEN Nil ELSE [amount |-> fee, net |-> 0]]
    /\ cash' = cash - fee
    /\ UNCHANGED trades

(* reverseTransfer: the units come back with the cost they have by now      *)
(* where they are, a fee in kind with them, and a fee in money if its row   *)
(* is still there.                                                          *)
ReverseTransfer(x) ==
    /\ transfers[x] # Nil
    /\ LET t == transfers[x]
           c == Share(holdings[t.to], t.quantity)
       IN  holdings' = [holdings EXCEPT ![t.from] = Add(@, t.quantity + t.fee, c),
                                        ![t.to] = Take(@, t.quantity, c)]
    /\ transfers' = [transfers EXCEPT ![x] = Nil]
    /\ cash' = IF fees[x] = Nil THEN cash ELSE cash + fees[x].amount
    /\ fees' = [fees EXCEPT ![x] = Nil]
    /\ UNCHANGED trades

(* The fee's row in the register, through the gate: what its netAmount says *)
(* is reversed, what it is given is applied.                                *)
EditFee(x, n) ==
    /\ fees[x] # Nil
    /\ fees' = [fees EXCEPT ![x] = [amount |-> n, net |-> n]]
    /\ cash' = cash + fees[x].net - n
    /\ UNCHANGED <<holdings, trades, transfers>>

DeleteFee(x) ==
    /\ fees[x] # Nil
    /\ fees' = [fees EXCEPT ![x] = Nil]
    /\ cash' = cash + fees[x].net
    /\ UNCHANGED <<holdings, trades, transfers>>

HoldingsNext ==
    /\ requests < MaxRequests /\ requests' = requests + 1 /\ UNCHANGED asset
    /\ \/ \E i \in TradeIds :
            (\E t \in Trade : CreateTrade(i, t) \/ EditTrade(i, t)) \/ RetypeTrade(i) \/ DeleteTrade(i)
       \/ \E p \in Places : DeleteHolding(p)
       \/ \E x \in TransferIds :
            \/ ReverseTransfer(x) \/ DeleteFee(x)
            \/ \E n \in Fees \ {0} : EditFee(x, n)
            \/ \E from, to \in Places, q \in Quantities, fee \in Fees :
                BitcoinTransfer(x, from, to, q, fee) \/ StockTransfer(x, from, to, q, fee)

HoldingsSpec == HoldingsInit /\ [][HoldingsNext]_holdingsVars

----------------------------------------------------------------------------
HoldingsTypeOK ==
    /\ asset \in {"STOCK", "BITCOIN"}
    /\ holdings \in [Places -> Holding \cup {Nil}]
    /\ trades \in [TradeIds -> Trade \cup {Nil}]
    /\ transfers \in [TransferIds -> Transfer \cup {Nil}]
    /\ cash \in Int /\ requests \in 0..MaxRequests
    /\ fees \in [TransferIds -> Fee \cup {Nil}]

(* What the rows say a place holds.                                         *)
Traded(t, p) == IF t = Nil \/ t.place # p THEN 0 ELSE IF t.direction = "BUY" THEN t.quantity ELSE -t.quantity
Transferred(t, p) ==
    IF t = Nil THEN 0
    ELSE (IF t.to = p THEN t.quantity ELSE 0) - (IF t.from = p THEN t.quantity + t.fee ELSE 0)
Declared(ts, xs, p) ==
    MapThenSumSet(LAMBDA i : Traded(ts[i], p), TradeIds)
        + MapThenSumSet(LAMBDA x : Transferred(xs[x], p), TransferIds)

(* A trade that went and left the holdings as they were.                    *)
Retyped == holdings' = holdings /\ \E i \in TradeIds : trades[i] # Nil /\ trades'[i] = Nil

(* Whatever rows are entered, edited, deleted, transferred and reversed, in *)
(* any order, a holding changes by as many units as the rows about it; but  *)
(* for a trade that is made something else, which leaves its units behind.  *)
(* (A user who writes a quantity into the holding itself, PUT               *)
(* /investments/:id, is not part of this module.)                           *)
HoldingFollowsRows ==
    [][\A p \in Places :
          holdings[p] # Nil /\ holdings'[p] # Nil /\ ~Retyped =>
              holdings'[p].quantity - holdings[p].quantity
                  = Declared(trades', transfers', p) - Declared(trades, transfers, p)]_holdingsVars

TotalCost(book) == MapThenSumSet(LAMBDA p : IF book[p] = Nil THEN 0 ELSE book[p].cost, Places)

(* Transfers and their reversals create no cost and lose none.              *)
TransfersMoveCost == [][transfers' # transfers => TotalCost(holdings') = TotalCost(holdings)]_holdingsVars

(* "openingBalance + SUM(transactions) == balance": what fees took from the *)
(* account is what their rows say, in netAmount.                            *)
FeeIsBooked ==
    cash = -MapThenSumSet(LAMBDA x : IF fees[x] = Nil THEN 0 ELSE fees[x].net, TransferIds)
=============================================================================
