------------------------------ MODULE Backtest ------------------------------
(***************************************************************************)
(* The backtest: backtest/engine.py walks the bars of one pair and lets    *)
(* backtest/portfolio.py carry out what a strategy decided.  The           *)
(* strategies are strategy/carry_trade.py (v1) to carry_trade_v4.py, the   *)
(* fallback of v4 without weekly data (v4single) and buy and hold.         *)
(*                                                                         *)
(* generate_signals sees only prices, never the portfolio, so a strategy   *)
(* and the engine advance bar by bar here although the code runs one after *)
(* the other.  A bar carries the facts that the strategies test: whether   *)
(* the swap passes the threshold, how price and moving averages lie, and   *)
(* whether the remaining filters of a strategy (ADX, pullback, MACD, golden*)
(* cross) agree.  Money is an integer; a position is kept as what it cost. *)
(***************************************************************************)
EXTENDS Integers, FiniteSetsExt

CONSTANTS MaxBars,
          Closes,           \* closing prices
          BarAtr,           \* the ATR of every bar
          Capital,          \* initial_capital
          SizePct,          \* position_size_pct
          Fee,              \* commission, one way
          Slip              \* slippage of an entry or exit, in price units

ASSUME BacktestAssumption ==
    /\ MaxBars \in Nat /\ Closes \subseteq Nat \ {0}
    /\ {BarAtr, Capital, Fee, Slip} \subseteq Nat /\ SizePct \in 1..100

VARIABLES kind,       \* the strategy
          strategy,   \* the local variables of generate_signals
          regime,     \* current_regime of v4
          book,       \* the portfolio: cash, cost, entry, swap
          bars,       \* bars walked
          lastSignal, \* what the strategy decided at the last bar
          pnlSum,     \* sum of trade.pnl
          entriesMade,\* positions opened
          over        \* the run has closed what remained

backtestVars == <<kind, strategy, regime, book, bars, lastSignal, pnlSum,
                  entriesMade, over>>

Kinds == {"v1", "v2", "v3", "v4", "v4single", "hold"}
Idle  == [in |-> FALSE, entry |-> 0, stop |-> 0, high |-> 0, trailing |-> FALSE]

\* "fails" is an entry condition beside the trend that the bar does not meet.
Bar == [price : Closes, trend : {"up", "mixed", "down"}, crossed : BOOLEAN,
        fails : {"none", "swap", "overbought", "filter"}]

-----------------------------------------------------------------------------
(* The strategies.                                                         *)

Profit(s, price, percent) == (price - s.entry) * 100 >= percent * s.entry

\* What every strategy but buy and hold asks of a bar before it enters.
RisingAndPaid(b) == b.fails \notin {"swap", "overbought"} /\ b.trend = "up"

\* _check_entry; _check_entry_v2 adds ADX, pullback and MACD, v3 a fresh golden
\* cross or a price well above the average, _check_entry_v4 a pullback and a
\* regime worth trading.
EntryV1(b)     == RisingAndPaid(b)
EntryV2(b)     == RisingAndPaid(b) /\ b.fails # "filter"
EntryV3(b)     == RisingAndPaid(b) /\ b.fails # "filter"
EntryV4(b)     == RisingAndPaid(b) /\ b.fails # "filter" /\ regime \notin {"avoid", "falling"}
EntrySingle(b) == RisingAndPaid(b)
EntryHold(b)   == b.fails # "swap"

Entry(k, b) ==
    CASE k = "v1" -> EntryV1(b) [] k = "v2" -> EntryV2(b) [] k = "v3" -> EntryV3(b)
      [] k = "v4" -> EntryV4(b) [] k = "v4single" -> EntrySingle(b)
      [] OTHER -> EntryHold(b)

\* The multiple of the ATR below the entry; v4 adapts it to the regime.
StopMults(k) == IF k = "v4" THEN {2, 3, 6} ELSE IF k = "v2" THEN {2} ELSE {3}

Entered(k, b, mult) ==
    [in |-> TRUE, entry |-> b.price, high |-> b.price, trailing |-> FALSE,
     stop |-> IF k \in {"v1", "hold"} THEN 0 ELSE b.price - BarAtr * mult]

\* The stop after the bar.  It is never lowered.  v2 and v4 trail it while the
\* profit is large enough, v3 from the first bar on that it was; v3 and v4
\* first raise it to the entry plus half an ATR.
Raised(s, stops) == [s EXCEPT !.stop = Max({@} \cup stops)]
High(s, b)       == [s EXCEPT !.high = Max({@, b.price})]
Breakeven(s)     == IF s.trailing THEN {} ELSE {s.entry + BarAtr \div 2}

StopV2(s, b) ==
    IF Profit(s, b.price, 3) THEN Raised(High(s, b), {High(s, b).high - (3 * BarAtr) \div 2})
    ELSE High(s, b)

StopV3(s, b) ==
    IF s.trailing \/ Profit(s, b.price, 5)
    THEN Raised([High(s, b) EXCEPT !.trailing = TRUE],
                Breakeven(s) \cup {High(s, b).high - 2 * BarAtr})
    ELSE High(s, b)

StopV4(s, b) ==
    IF Profit(s, b.price, 4)
    THEN Raised([High(s, b) EXCEPT !.trailing = TRUE],
                Breakeven(s) \cup {High(s, b).high - 2 * BarAtr})
    ELSE High(s, b)

BarStop(k, s, b) ==
    CASE k = "v2" -> StopV2(s, b) [] k = "v3" -> StopV3(s, b) [] k = "v4" -> StopV4(s, b)
      [] OTHER -> High(s, b)

\* _check_exit of v1.  The trailing stop counts only in a bar whose profit is
\* still 3%: trailing_active is set in the callee and lost with its None.
ExitV1(s, b) ==
    \/ (b.price - s.entry) * 100 <= -2 * s.entry
    \/ Profit(s, b.price, 6)
    \/ Profit(s, b.price, 3) /\ b.price * 100 <= 99 * Max({s.high, b.price})

\* Stop, target or trail, and the crossing of the averages.
ExitV2(s, b) ==
    b.price <= StopV2(s, b).stop \/ b.price >= s.entry + 4 * BarAtr \/ b.crossed

\* Stop or trail, the death cross, and a price below the long average.
ExitV3(s, b) ==
    b.price <= StopV3(s, b).stop \/ b.crossed \/ b.trend = "down"

\* Stop or trail, the weekly trend, a bad regime without profit, and a break
\* of the daily average without profit.
ExitV4(s, b) ==
    \/ b.price <= StopV4(s, b).stop \/ b.trend = "down"
    \/ regime = "avoid" /\ ~Profit(s, b.price, 2)
    \/ b.crossed /\ ~Profit(s, b.price, 1)

ExitSingle(s, b) == b.price <= s.stop \/ b.trend = "down"

Exit(k, s, b) ==
    CASE k = "v1" -> ExitV1(s, b) [] k = "v2" -> ExitV2(s, b) [] k = "v3" -> ExitV3(s, b)
      [] k = "v4" -> ExitV4(s, b) [] k = "v4single" -> ExitSingle(s, b)
      [] OTHER -> FALSE

\* One turn of the loop of generate_signals.
Decide(k, s, b, mult) ==
    CASE ~s.in /\ Entry(k, b) -> [state |-> Entered(k, b, mult), signal |-> "LONG"]
      [] s.in /\ Exit(k, s, b) -> [state |-> Idle, signal |-> "CLOSE"]
      [] s.in /\ ~Exit(k, s, b) -> [state |-> BarStop(k, s, b), signal |-> "HOLD"]
      [] OTHER                -> [state |-> s, signal |-> "HOLD"]

-----------------------------------------------------------------------------
(* The portfolio.                                                          *)

Holding(b) == b.cost > 0

CapitalToUse(b) == (b.cash * SizePct) \div 100

\* Mutant: the commission of an entry is not taken from the capital.
OpenTradeFree(b, price) ==
    LET use == CapitalToUse(b)
    IN  IF Holding(b) \/ use <= 0 THEN b
        ELSE [cash |-> b.cash - use, cost |-> use, entry |-> price + Slip,
              swap |-> 0]

\* open_position: False without a position when the commission is more than
\* the capital for the trade.
OpenTrade(b, price) ==
    LET use == CapitalToUse(b)
    IN  IF Holding(b) \/ use - Fee <= 0 THEN b
        ELSE [cash |-> b.cash - use, cost |-> use - Fee, entry |-> price + Slip,
              swap |-> 0]

\* The profit of a trade, commission included, and close_position.  The swap
\* of the trade is recorded beside the profit and is not paid into the cash.
TradePnl(b, price) ==
    (b.cost * (price - Slip - b.entry)) \div b.entry - Fee

CloseTrade(b, price) ==
    [cash |-> b.cash + b.cost + TradePnl(b, price), cost |-> 0, entry |-> 0,
     swap |-> 0]

-----------------------------------------------------------------------------
BacktestInit ==
    /\ kind \in Kinds
    /\ strategy = Idle /\ regime = "none"
    /\ book = [cash |-> Capital, cost |-> 0, entry |-> 0, swap |-> 0]
    /\ bars = 0 /\ lastSignal = "HOLD" /\ pnlSum = 0 /\ entriesMade = 0
    /\ over = FALSE

\* The engine at one bar: the swap of a new day (0 within a day), then the
\* signal.
WalkBar(b, mult, night) ==
    LET d    == Decide(kind, strategy, b, mult)
        held == IF Holding(book) THEN [book EXCEPT !.swap = @ + night] ELSE book
    IN  /\ strategy' = d.state
        /\ lastSignal' = d.signal
        /\ book' = CASE d.signal = "LONG" -> OpenTrade(held, b.price)
                     [] d.signal = "CLOSE" /\ Holding(held) -> CloseTrade(held, b.price)
                     [] OTHER -> held
        /\ entriesMade' = IF Holding(book') /\ ~Holding(held) THEN entriesMade + 1
                          ELSE entriesMade
        /\ pnlSum' = IF Holding(held) /\ ~Holding(book')
                     THEN pnlSum + TradePnl(held, b.price) ELSE pnlSum

NextBar ==
    /\ ~over /\ bars < MaxBars
    /\ bars' = bars + 1
    /\ \E b \in Bar,
          mult \in (IF strategy.in THEN {3} ELSE StopMults(kind)),
          night \in (IF Holding(book) THEN -1..1 ELSE {0}) : WalkBar(b, mult, night)
    /\ UNCHANGED <<kind, regime, over>>

\* v4 detects the regime every fifth bar and keeps it in between.
DetectRegime ==
    /\ ~over /\ kind = "v4"
    /\ regime' \in {"none", "good", "avoid", "falling"}
    /\ UNCHANGED <<kind, strategy, book, bars, lastSignal, pnlSum, entriesMade, over>>

\* After the last bar: buy and hold has a CLOSE there, and the engine closes
\* whatever remains.
EndOfBacktest ==
    /\ ~over /\ bars > 0
    /\ over' = TRUE
    /\ strategy' = IF kind = "hold" THEN Idle ELSE strategy
    /\ \E price \in Closes :
         IF Holding(book)
         THEN /\ book' = CloseTrade(book, price)
              /\ pnlSum' = pnlSum + TradePnl(book, price)
         ELSE UNCHANGED <<book, pnlSum>>
    /\ UNCHANGED <<kind, regime, bars, lastSignal, entriesMade>>

BacktestNext ==
    \/ NextBar
    \/ DetectRegime
    \/ EndOfBacktest

BacktestSpec == BacktestInit /\ [][BacktestNext]_backtestVars

-----------------------------------------------------------------------------
(* Properties.                                                             *)

BacktestTypeOK ==
    /\ kind \in Kinds /\ strategy.in \in BOOLEAN /\ strategy.trailing \in BOOLEAN
    /\ regime \in {"none", "good", "avoid", "falling"}
    /\ book.cash \in Int /\ book.cost \in Nat /\ book.swap \in Int
    /\ bars \in 0..MaxBars /\ lastSignal \in {"LONG", "CLOSE", "HOLD"}
    /\ pnlSum \in Int /\ entriesMade \in 0..MaxBars /\ over \in BOOLEAN

\* The books of a backtest balance: cash and the cost of the open position are
\* the capital, plus the profit of every closed trade, minus one commission for
\* every entry; the swaps appear in neither.  And the engine holds a position
\* exactly while the strategy believes it does, as long as the capital pays
\* for the commission of an entry.
BooksBalance ==
    /\ book.cash + book.cost = Capital + pnlSum - Fee * entriesMade
    /\ ~over /\ CapitalToUse(book) > Fee => (strategy.in <=> Holding(book))

=============================================================================
