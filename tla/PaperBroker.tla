----------------------------- MODULE PaperBroker -----------------------------
(***************************************************************************)
(* The paper-trading broker: broker/simulator.py over broker/orders.py,    *)
(* as scripts/run_paper_trading.py drives it, for one pair.                *)
(*                                                                         *)
(* Prices and money are integers.  A position keeps its cost (entry_price  *)
(* times quantity), so adding to it is a sum; a partial close rounds the   *)
(* part of the cost it takes out.  Latency, ids and history lists that     *)
(* repeat an order's status are left out.                                  *)
(***************************************************************************)
EXTENDS Integers, Sequences, SequencesExt

CONSTANTS MaxPaperOrders,   \* orders submitted in a behaviour
          Lots,             \* sizes in lots; 0 is below the minimum size
          PaperPrices,      \* market prices and order levels
          Leverage,
          InitialBalance,
          Commission,       \* per lot
          Slippages,        \* what a fill price may be worse by
          SwapRate          \* credit of one night for a long lot

ASSUME PaperAssumption ==
    /\ MaxPaperOrders \in Nat /\ Lots \subseteq Nat
    /\ PaperPrices \subseteq Nat \ {0} /\ Leverage \in Nat \ {0}
    /\ {InitialBalance, Commission, SwapRate} \subseteq Nat
    /\ Slippages \subseteq Nat

VARIABLES orderBook,      \* every order submitted, in order
          pendingOrders,  \* indices into it: the list self.pending_orders
          paperPosition,  \* [side, quantity, cost, current, swap], or Flat
          balance,
          paperPrice,     \* self.prices, 0 before the first update
          swapDone        \* last_swap_date is today

paperVars == <<orderBook, pendingOrders, paperPosition, balance, paperPrice,
               swapDone>>

Flat     == [side |-> "none", quantity |-> 0, cost |-> 0, current |-> 0, swap |-> 0]
Opposite == [BUY |-> "SELL", SELL |-> "BUY"]
Signed(side, quantity) == IF side = "BUY" THEN quantity ELSE -quantity
OrderTypes == {"MARKET", "LIMIT", "STOP"}
Ended      == {"FILLED", "CANCELLED", "REJECTED"}

-----------------------------------------------------------------------------
(* The account.                                                            *)

UnrealizedPnl(p) ==
    IF p.side = "SELL" THEN p.cost - p.current * p.quantity
    ELSE p.current * p.quantity - p.cost

Equity(p, cash) == cash + UnrealizedPnl(p) + p.swap

\* Rounded up, so that the comparison with free margin is that of the reals.
CalculateMargin(quantity, price) == (quantity * price + Leverage - 1) \div Leverage

FreeMargin(p, cash, price) ==
    Equity(p, cash) - CalculateMargin(p.quantity, price)

-----------------------------------------------------------------------------
(* Fills.                                                                  *)

ShouldFill(o, price) ==
    \/ o.type = "MARKET"
    \/ o.type = "LIMIT" /\ IF o.side = "BUY" THEN price <= o.level ELSE price >= o.level
    \/ o.type = "STOP"  /\ IF o.side = "BUY" THEN price >= o.level ELSE price <= o.level

FillPrice(o, price, slip) ==
    LET quoted == IF o.type = "LIMIT" THEN o.level ELSE price
    IN  IF o.side = "BUY" THEN quoted + slip ELSE quoted - slip

NewPosition(side, quantity, price) ==
    [side |-> side, quantity |-> quantity, cost |-> quantity * price,
     current |-> price, swap |-> 0]

\* Mutant: a fill larger than the position closes it, the rest is forgotten.
AfterCloseFlat(o, remaining, price) == Flat

AfterClose(o, remaining, price) ==
    IF remaining > 0 THEN NewPosition(o.side, remaining, price) ELSE Flat

\* _update_position_from_fill: the position and what it adds to the balance.
\* A close realises the profit at the last price the position was updated
\* with, not at the price of the fill.
PositionFromFill(p, o, price) ==
    IF p = Flat
    THEN [position |-> NewPosition(o.side, o.quantity, price), realized |-> 0]
    ELSE IF p.side = o.side
    THEN [position |-> [p EXCEPT !.quantity = @ + o.quantity,
                                 !.cost = @ + o.quantity * price],
          realized |-> 0]
    ELSE IF o.quantity >= p.quantity
    THEN [position |-> AfterClose(o, o.quantity - p.quantity, price),
          realized |-> UnrealizedPnl(p) + p.swap]
    ELSE LET left == p.quantity - o.quantity
         IN  [position |-> [p EXCEPT !.quantity = left,
                                     !.cost = (@ * left) \div p.quantity,
                                     !.swap = (@ * left) \div p.quantity],
              realized |-> ((UnrealizedPnl(p) + p.swap) * o.quantity) \div p.quantity]

\* _try_fill_order on the account s at its price; s.left are the orders that
\* stay in the list.  An order without margin is REJECTED, but only a filled one
\* leaves the list: the next call tries it again, and the status does not stop
\* it.
TryFillOrder(s, i) ==
    LET o  == s.orders[i]
        at == IF o.type = "LIMIT" THEN o.level ELSE s.price
    IN  IF ~ShouldFill(o, s.price) THEN [s EXCEPT !.left = Append(@, i)]
        ELSE IF CalculateMargin(o.quantity, at) > FreeMargin(s.position, s.cash, s.price)
        THEN [s EXCEPT !.left = Append(@, i), !.orders[i].status = "REJECTED"]
        ELSE LET r == PositionFromFill(s.position, o, FillPrice(o, s.price, s.slip))
             IN  [s EXCEPT !.orders[i].status = "FILLED",
                           !.position = r.position,
                           !.cash = @ - Commission * o.quantity + r.realized]

\* execute_orders: the orders in their list order, then the filled ones leave
\* the list and the position takes the new price.
ExecuteOrders(price, slip) ==
    LET start == [orders |-> orderBook, left |-> <<>>, position |-> paperPosition,
                  cash |-> balance, price |-> price, slip |-> slip]
        end   == FoldLeft(TryFillOrder, start, pendingOrders)
    IN  /\ orderBook' = end.orders
        /\ pendingOrders' = end.left
        /\ paperPosition' = IF end.position = Flat THEN Flat
                            ELSE [end.position EXCEPT !.current = price]
        /\ balance' = end.cash
        /\ paperPrice' = price

-----------------------------------------------------------------------------
PaperInit ==
    /\ orderBook = <<>> /\ pendingOrders = <<>> /\ paperPosition = Flat
    /\ balance = InitialBalance /\ paperPrice = 0 /\ swapDone = FALSE

\* submit_market_order, submit_limit_order, submit_stop_order.
Submit(side, type, lots, level) ==
    /\ Len(orderBook) < MaxPaperOrders
    /\ orderBook' = Append(orderBook,
           [side |-> side, type |-> type, quantity |-> lots, level |-> level,
            status |-> IF lots = 0 THEN "REJECTED" ELSE "SUBMITTED"])
    /\ pendingOrders' = IF lots = 0 THEN pendingOrders
                        ELSE Append(pendingOrders, Len(orderBook) + 1)
    /\ UNCHANGED <<paperPosition, balance, paperPrice, swapDone>>

SubmitOrder ==
    \E side \in {"BUY", "SELL"}, type \in OrderTypes, lots \in Lots, level \in PaperPrices :
        /\ type = "MARKET" => level = CHOOSE p \in PaperPrices : TRUE
        /\ Submit(side, type, lots, level)

\* close_position: a market order of the opposite side for all of it.
SubmitClose ==
    /\ paperPosition # Flat
    /\ Submit(Opposite[paperPosition.side], "MARKET", paperPosition.quantity,
              CHOOSE p \in PaperPrices : TRUE)

\* cancel_order: can_cancel refuses an order that was rejected for its margin,
\* which therefore stays in the list.
CancelOrder ==
    \E k \in DOMAIN pendingOrders :
        /\ orderBook[pendingOrders[k]].status = "SUBMITTED"
        /\ orderBook' = [orderBook EXCEPT ![pendingOrders[k]].status = "CANCELLED"]
        /\ pendingOrders' = RemoveAt(pendingOrders, k)
        /\ UNCHANGED <<paperPosition, balance, paperPrice, swapDone>>

PriceUpdate ==
    /\ \E price \in PaperPrices, slip \in Slippages : ExecuteOrders(price, slip)
    /\ UNCHANGED swapDone

\* accrue_swap, at most once on a date.
AccrueSwap ==
    /\ ~swapDone /\ paperPosition # Flat
    /\ paperPosition' = [paperPosition EXCEPT
           !.swap = @ + Signed(paperPosition.side, SwapRate * paperPosition.quantity)]
    /\ swapDone' = TRUE
    /\ UNCHANGED <<orderBook, pendingOrders, balance, paperPrice>>

PaperNext ==
    \/ SubmitOrder
    \/ SubmitClose
    \/ CancelOrder
    \/ PriceUpdate
    \/ AccrueSwap

PaperSpec == PaperInit /\ [][PaperNext]_paperVars

-----------------------------------------------------------------------------
(* Properties.                                                             *)

PaperTypeOK ==
    /\ \A i \in DOMAIN orderBook : orderBook[i].status \in {"SUBMITTED"} \cup Ended
    /\ ToSet(pendingOrders) \subseteq DOMAIN orderBook
    /\ paperPosition.side \in {"none", "BUY", "SELL"} /\ paperPosition.quantity \in Nat
    /\ balance \in Int /\ paperPrice \in PaperPrices \cup {0}
    /\ swapDone \in BOOLEAN

\* The filled orders of a book, summed up.
AddFill(sum, o) ==
    IF o.status = "FILLED" THEN sum + Signed(o.side, o.quantity) ELSE sum

\* The position is what the filled orders add up to, through additions, partial
\* closes and reversals, and an order that ended by a fill or a cancel is never
\* tried again: no order fills twice.
NetPositionIsFills ==
    /\ Signed(paperPosition.side, paperPosition.quantity) =
           FoldLeft(AddFill, 0, orderBook)
    /\ \A i \in ToSet(pendingOrders) : orderBook[i].status \notin {"FILLED", "CANCELLED"}

\* An order that is not active ("could be filled") is never filled later.  The
\* code fills an order it has rejected as soon as the margin suffices.
InactiveNeverFills ==
    [][\A i \in DOMAIN orderBook :
           orderBook[i].status \in Ended =>
               orderBook'[i].status = orderBook[i].status]_paperVars

=============================================================================
