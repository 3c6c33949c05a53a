---------------------------- MODULE Offline_proofs ----------------------------
(***************************************************************************)
(* Theorems about the work without a real account: the books of a backtest *)
(* balance, and portfolio and strategy agree on whether there is a         *)
(* position; the research uses nothing that was still to come; the         *)
(* position of the paper broker is what its filled orders add up to; the   *)
(* reports on a finished backtest account for all of it.                   *)
(***************************************************************************)
EXTENDS Backtest, Research, PaperBroker, Robustness, Operators_proofs, FiniteSetTheorems

-----------------------------------------------------------------------------
(* The strategies of the backtest.                                         *)

\* The state of a strategy is a record with the fields of Idle.
IsStrategy(s) ==
    /\ s = [f \in DOMAIN Idle |-> s[f]]
    /\ s.in \in BOOLEAN /\ s.trailing \in BOOLEAN

\* A bar moves the stop of a strategy, and never lets it leave or enter.
LEMMA BarStopKeeps ==
    ASSUME NEW s, IsStrategy(s), NEW k, NEW b
    PROVE  IsStrategy(BarStop(k, s, b)) /\ BarStop(k, s, b).in = s.in
<1>1. /\ IsStrategy(High(s, b)) /\ High(s, b).in = s.in
  BY DEF IsStrategy, High, Idle
<1>2. ASSUME NEW t, IsStrategy(t), NEW stops
      PROVE  IsStrategy(Raised(t, stops)) /\ Raised(t, stops).in = t.in
  BY <1>2 DEF IsStrategy, Raised, Idle
<1>3. ASSUME NEW t, IsStrategy(t)
      PROVE  /\ IsStrategy([t EXCEPT !.trailing = TRUE])
             /\ [t EXCEPT !.trailing = TRUE].in = t.in
  BY <1>3 DEF IsStrategy, Idle
<1> QED BY <1>1, <1>2, <1>3 DEF BarStop, StopV2, StopV3, StopV4

\* One turn of the loop decides LONG only outside and CLOSE only inside, and the
\* strategy is inside afterwards unless it closed or stayed outside.
LEMMA DecideMoves ==
    ASSUME NEW k, NEW s, IsStrategy(s), NEW b, NEW mult
    PROVE  LET d == Decide(k, s, b, mult)
           IN  /\ IsStrategy(d.state)
               /\ d.signal \in {"LONG", "CLOSE", "HOLD"}
               /\ d.signal = "LONG" => ~s.in /\ d.state.in
               /\ d.signal = "CLOSE" => s.in /\ ~d.state.in
               /\ d.signal = "HOLD" => d.state.in = s.in
<1>1. CASE ~s.in /\ Entry(k, b)
  <2>1. Decide(k, s, b, mult) = [state |-> Entered(k, b, mult), signal |-> "LONG"]
    BY <1>1 DEF Decide
  <2>2. IsStrategy(Entered(k, b, mult)) /\ Entered(k, b, mult).in = TRUE
    BY DEF Entered, IsStrategy, Idle
  <2> QED BY <1>1, <2>1, <2>2
<1>2. CASE s.in /\ Exit(k, s, b)
  <2>1. Decide(k, s, b, mult) = [state |-> Idle, signal |-> "CLOSE"]
    BY <1>2 DEF Decide
  <2>2. IsStrategy(Idle) /\ Idle.in = FALSE
    BY DEF IsStrategy, Idle
  <2> QED BY <1>2, <2>1, <2>2
<1>3. CASE s.in /\ ~Exit(k, s, b)
  <2>1. Decide(k, s, b, mult) = [state |-> BarStop(k, s, b), signal |-> "HOLD"]
    BY <1>3 DEF Decide
  <2> QED BY <2>1, BarStopKeeps
<1>4. CASE ~s.in /\ ~Entry(k, b)
  <2>1. Decide(k, s, b, mult) = [state |-> s, signal |-> "HOLD"]
    BY <1>4 DEF Decide
  <2> QED BY <2>1
<1> QED BY <1>1, <1>2, <1>3, <1>4 DEF IsStrategy

-----------------------------------------------------------------------------
(* The portfolio.                                                          *)

IsBook(b) ==
    /\ b \in [cash : Int, cost : Nat, entry : Nat, swap : Int]
    /\ Holding(b) => b.entry > 0

\* Profits are integers as long as a position has a price.
LEMMA TradePnlType ==
    ASSUME NEW b, IsBook(b), Holding(b), NEW price \in Nat
    PROVE  TradePnl(b, price) \in Int
<1>1. b.cost * (price - Slip - b.entry) \in Int
  BY BacktestAssumption DEF IsBook, BacktestAssumption
<1>2. \A m \in Int, n \in Nat : n > 0 => m \div n \in Int
  OBVIOUS
<1>3. (b.cost * (price - Slip - b.entry)) \div b.entry \in Int
  BY <1>1, <1>2 DEF IsBook
<1> QED BY <1>3, BacktestAssumption DEF TradePnl, BacktestAssumption

\* What a trade may use is an integer.
LEMMA CapitalType == ASSUME NEW b, IsBook(b) PROVE CapitalToUse(b) \in Int
<1>1. b.cash * SizePct \in Int
  BY BacktestAssumption DEF IsBook, BacktestAssumption
<1> QED BY <1>1 DEF CapitalToUse

\* An entry takes one commission out of the books and nothing else; it fails
\* exactly when there is a position or the capital does not pay for more than
\* the commission.
LEMMA OpenTradeBalance ==
    ASSUME NEW b, IsBook(b), NEW price \in Nat \ {0}
    PROVE  LET o == OpenTrade(b, price)
           IN  /\ IsBook(o)
               /\ Holding(b) => o = b
               /\ ~Holding(b) /\ Holding(o) => o.cash + o.cost = b.cash + b.cost - Fee
               /\ ~Holding(o) => o = b /\ CapitalToUse(b) <= Fee
<1>1. CapitalToUse(b) \in Int /\ Fee \in Nat /\ Slip \in Nat
  BY CapitalType, BacktestAssumption DEF BacktestAssumption
<1>2. CASE Holding(b) \/ CapitalToUse(b) - Fee <= 0
  <2>1. OpenTrade(b, price) = b
    BY <1>2 DEF OpenTrade
  <2> QED BY <1>1, <1>2, <2>1
<1>3. CASE ~Holding(b) /\ CapitalToUse(b) - Fee > 0
  <2> DEFINE use == CapitalToUse(b)
  <2>1. OpenTrade(b, price) = [cash |-> b.cash - use, cost |-> use - Fee,
                               entry |-> price + Slip, swap |-> 0]
    BY <1>1, <1>3 DEF OpenTrade
  <2>2. b.cash \in Int /\ b.cost = 0
    BY <1>3 DEF IsBook, Holding
  <2> HIDE DEF use
  <2>3. use \in Int /\ use - Fee > 0
    BY <1>1, <1>3 DEF use
  <2> QED BY <1>1, <1>3, <2>1, <2>2, <2>3 DEF IsBook, Holding
<1> QED BY <1>1, <1>2, <1>3

\* A close turns the position into cash and adds its profit.
LEMMA CloseTradeBalance ==
    ASSUME NEW b, IsBook(b), Holding(b), NEW price \in Nat
    PROVE  LET c == CloseTrade(b, price)
           IN  /\ IsBook(c) /\ ~Holding(c)
               /\ c.cash + c.cost = b.cash + b.cost + TradePnl(b, price)
<1>1. TradePnl(b, price) \in Int
  BY TradePnlType
<1> HIDE DEF TradePnl
<1> QED BY <1>1 DEF CloseTrade, IsBook, Holding

\* The swap of a night changes neither cash nor cost.
LEMMA NightBook ==
    ASSUME NEW b, IsBook(b), NEW night \in Int
    PROVE  LET h == IF Holding(b) THEN [b EXCEPT !.swap = @ + night] ELSE b
           IN  /\ IsBook(h) /\ h.cash = b.cash /\ h.cost = b.cost
               /\ Holding(h) = Holding(b) /\ CapitalToUse(h) = CapitalToUse(b)
  BY DEF IsBook, Holding, CapitalToUse

-----------------------------------------------------------------------------
(* The backtest.                                                           *)

\* Cash and cost are the capital, the profits and one commission per entry.
Balanced == book.cash + book.cost = Capital + pnlSum - Fee * entriesMade

\* A position is one the strategy is in; a strategy that is in without one
\* could not pay the commission, and still cannot.
SameView ==
    ~over => /\ Holding(book) => strategy.in
             /\ strategy.in /\ ~Holding(book) => CapitalToUse(book) <= Fee

BooksInv ==
    /\ BacktestTypeOK /\ IsStrategy(strategy) /\ IsBook(book)
    /\ entriesMade <= bars
    /\ Balanced /\ SameView

\* A backtest begins with its capital in cash.
LEMMA BooksInit == BacktestInit => BooksInv
<1> SUFFICES ASSUME BacktestInit PROVE BooksInv
  OBVIOUS
<1>1. Capital \in Nat /\ Fee \in Nat /\ MaxBars \in Nat
  BY BacktestAssumption DEF BacktestAssumption
<1>2. Fee * entriesMade = 0
  BY <1>1 DEF BacktestInit
<1>3. BacktestTypeOK
  <2>1. book.cash \in Int /\ book.cost \in Nat /\ book.swap \in Int
    BY <1>1 DEF BacktestInit
  <2>2. strategy.in \in BOOLEAN /\ strategy.trailing \in BOOLEAN
    BY DEF BacktestInit, Idle
  <2>3. bars \in 0..MaxBars /\ entriesMade \in 0..MaxBars /\ pnlSum \in Int
    BY <1>1 DEF BacktestInit
  <2>4. over \in BOOLEAN
    BY DEF BacktestInit
  <2> QED BY <2>1, <2>2, <2>3, <2>4 DEF BacktestInit, BacktestTypeOK
<1>4. IsStrategy(strategy)
  BY DEF BacktestInit, IsStrategy, Idle
<1>5. IsBook(book) /\ ~Holding(book)
  BY <1>1 DEF BacktestInit, IsBook, Holding
<1>6. Balanced
  BY <1>1, <1>2 DEF BacktestInit, Balanced
<1>7. SameView
  BY <1>5 DEF BacktestInit, SameView, Idle
<1>8. entriesMade <= bars
  BY DEF BacktestInit
<1> QED BY <1>3, <1>4, <1>5, <1>6, <1>7, <1>8 DEF BooksInv

\* A counter raised by at most one stays a count, and its commissions with it.
LEMMA OneMoreEntry ==
    ASSUME BooksInv
    PROVE  /\ Fee * entriesMade \in Int /\ Fee \in Nat /\ entriesMade \in Nat
           /\ Fee * (entriesMade + 1) = Fee * entriesMade + Fee
<1>1. Fee \in Nat /\ entriesMade \in Nat
  BY BacktestAssumption DEF BooksInv, BacktestTypeOK, BacktestAssumption
<1> QED BY <1>1

\* A bar keeps the books, whatever the strategy decides.
LEMMA BooksBar == ASSUME BooksInv, NextBar PROVE BooksInv'
<1>1. PICK b \in Bar, mult, night \in Int : WalkBar(b, mult, night)
  BY DEF NextBar
<1> DEFINE d    == Decide(kind, strategy, b, mult)
           held == IF Holding(book) THEN [book EXCEPT !.swap = @ + night] ELSE book
<1>2. /\ IsStrategy(d.state)
      /\ d.signal \in {"LONG", "CLOSE", "HOLD"}
      /\ d.signal = "LONG" => ~strategy.in /\ d.state.in
      /\ d.signal = "CLOSE" => strategy.in /\ ~d.state.in
      /\ d.signal = "HOLD" => d.state.in = strategy.in
  BY DecideMoves DEF BooksInv
<1>3. /\ IsBook(held) /\ held.cash = book.cash /\ held.cost = book.cost
      /\ Holding(held) = Holding(book) /\ CapitalToUse(held) = CapitalToUse(book)
  BY NightBook DEF BooksInv
<1>4. b.price \in Nat \ {0}
  BY BacktestAssumption DEF Bar, BacktestAssumption
<1>5. /\ strategy' = d.state /\ lastSignal' = d.signal
      /\ book' = CASE d.signal = "LONG" -> OpenTrade(held, b.price)
                   [] d.signal = "CLOSE" /\ Holding(held) -> CloseTrade(held, b.price)
                   [] OTHER -> held
      /\ entriesMade' = IF Holding(book') /\ ~Holding(held) THEN entriesMade + 1
                        ELSE entriesMade
      /\ pnlSum' = IF Holding(held) /\ ~Holding(book')
                   THEN pnlSum + TradePnl(held, b.price) ELSE pnlSum
  BY <1>1 DEF WalkBar
<1>6. /\ bars' = bars + 1 /\ bars < MaxBars /\ ~over /\ UNCHANGED <<kind, regime, over>>
      /\ bars \in Nat /\ MaxBars \in Nat /\ pnlSum \in Int /\ Capital \in Nat
      /\ strategy.in \in BOOLEAN /\ d.state.in \in BOOLEAN
      /\ held.cash \in Int /\ held.cost \in Int
  BY <1>2, <1>3, BacktestAssumption
     DEF NextBar, BooksInv, BacktestTypeOK, BacktestAssumption, IsBook, IsStrategy
<1> HIDE DEF d, held
<1>7. CASE d.signal = "LONG"
  <2> DEFINE o == OpenTrade(held, b.price)
  <2>1. /\ IsBook(o)
        /\ Holding(held) => o = held
        /\ ~Holding(held) /\ Holding(o) => o.cash + o.cost = held.cash + held.cost - Fee
        /\ ~Holding(o) => o = held /\ CapitalToUse(held) <= Fee
    BY <1>3, <1>4, OpenTradeBalance
  <2>2. book' = o
    BY <1>5, <1>7
  <2> HIDE DEF o
  <2>3. ~Holding(held)
    BY <1>2, <1>3, <1>6, <1>7 DEF BooksInv, SameView
  <2>4. pnlSum' = pnlSum
    BY <1>5, <2>3
  <2>5. entriesMade' = IF Holding(o) THEN entriesMade + 1 ELSE entriesMade
    BY <1>5, <2>2, <2>3
  <2>6. Balanced'
    <3> DEFINE fees == Fee * entriesMade
               more == Fee * (entriesMade + 1)
    <3>1. fees \in Int /\ Fee \in Nat /\ more = fees + Fee
      BY OneMoreEntry
    <3>2. held.cash + held.cost = Capital + pnlSum - fees
      BY <1>3 DEF BooksInv, Balanced
    <3>3. o.cash \in Int /\ o.cost \in Int
      BY <2>1 DEF IsBook
    <3> HIDE DEF fees, more
    <3>4. CASE Holding(o)
      <4>3. o.cash + o.cost = held.cash + held.cost - Fee
        BY <2>1, <2>3, <3>4
      <4>4. Capital \in Int /\ pnlSum \in Int /\ held.cash \in Int /\ held.cost \in Int
        BY <1>6
      <4>1. o.cash + o.cost = Capital + pnlSum - more
        BY <3>1, <3>2, <4>3, <4>4
      <4>2. entriesMade' = entriesMade + 1
        BY <2>5, <3>4
      <4> QED BY <1>6, <2>2, <2>4, <4>1, <4>2 DEF Balanced, more
    <3>5. CASE ~Holding(o)
      <4>1. o = held /\ entriesMade' = entriesMade
        BY <2>1, <2>5, <3>5
      <4> QED BY <2>2, <2>4, <3>2, <4>1 DEF Balanced, fees
    <3> QED BY <3>4, <3>5
  <2>7. SameView'
    BY <1>2, <1>5, <1>6, <1>7, <2>1, <2>2, <2>3 DEF SameView, CapitalToUse
  <2> QED BY <1>2, <1>5, <1>6, <2>1, <2>2, <2>4, <2>5, <2>6, <2>7, OneMoreEntry
          DEF BooksInv, BacktestTypeOK, IsStrategy, IsBook
<1>8. CASE d.signal = "CLOSE" /\ Holding(held)
  <2> DEFINE c == CloseTrade(held, b.price)
  <2>1. /\ IsBook(c) /\ ~Holding(c)
        /\ c.cash + c.cost = held.cash + held.cost + TradePnl(held, b.price)
    BY <1>3, <1>4, <1>8, CloseTradeBalance
  <2>2. book' = c
    BY <1>5, <1>8
  <2>3. TradePnl(held, b.price) \in Int
    BY <1>3, <1>4, <1>8, TradePnlType
  <2> HIDE DEF c
  <2>4. pnlSum' = pnlSum + TradePnl(held, b.price) /\ entriesMade' = entriesMade
    BY <1>5, <1>8, <2>1, <2>2
  <2>5. Balanced'
    BY <1>3, <1>6, <2>1, <2>2, <2>3, <2>4, OneMoreEntry DEF BooksInv, Balanced
  <2>6. SameView'
    BY <1>2, <1>5, <1>8, <2>1, <2>2 DEF SameView
  <2> QED BY <1>2, <1>5, <1>6, <2>1, <2>2, <2>3, <2>4, <2>5, <2>6, OneMoreEntry
          DEF BooksInv, BacktestTypeOK, IsStrategy, IsBook
<1>9. CASE d.signal # "LONG" /\ ~(d.signal = "CLOSE" /\ Holding(held))
  <2>1. book' = held /\ pnlSum' = pnlSum /\ entriesMade' = entriesMade
    BY <1>5, <1>9
  <2>2. Balanced'
    BY <1>3, <2>1 DEF BooksInv, Balanced
  <2>3. SameView'
    BY <1>2, <1>3, <1>5, <1>6, <1>9, <2>1 DEF BooksInv, SameView
  <2> QED BY <1>2, <1>3, <1>5, <1>6, <2>1, <2>2, <2>3, OneMoreEntry
          DEF BooksInv, BacktestTypeOK, IsStrategy, IsBook
<1> QED BY <1>7, <1>8, <1>9

\* The end of the run closes what remains, and may leave the strategy behind.
LEMMA BooksEnd == ASSUME BooksInv, EndOfBacktest PROVE BooksInv'
<1>1. PICK price \in Closes :
          IF Holding(book)
          THEN book' = CloseTrade(book, price) /\ pnlSum' = pnlSum + TradePnl(book, price)
          ELSE UNCHANGED <<book, pnlSum>>
  BY DEF EndOfBacktest
<1>2. /\ over' = TRUE /\ price \in Nat
      /\ UNCHANGED <<kind, regime, bars, lastSignal, entriesMade>>
      /\ IsStrategy(strategy')
  BY BacktestAssumption DEF EndOfBacktest, BacktestAssumption, BooksInv, IsStrategy, Idle
<1>3. CASE ~Holding(book)
  BY <1>1, <1>2, <1>3 DEF BooksInv, BacktestTypeOK, Balanced, SameView, IsStrategy
<1>4. CASE Holding(book)
  <2>1. /\ IsBook(book') /\ pnlSum' = pnlSum + TradePnl(book, price)
        /\ book'.cash + book'.cost = book.cash + book.cost + TradePnl(book, price)
    BY <1>1, <1>2, <1>4, CloseTradeBalance DEF BooksInv
  <2>2. TradePnl(book, price) \in Int
    BY <1>2, <1>4, TradePnlType DEF BooksInv
  <2>3. Balanced'
    BY <1>2, <2>1, <2>2, OneMoreEntry, BacktestAssumption
       DEF BooksInv, BacktestTypeOK, Balanced, BacktestAssumption, IsBook
  <2> QED BY <1>2, <2>1, <2>2, <2>3
          DEF BooksInv, BacktestTypeOK, SameView, IsStrategy, IsBook
<1> QED BY <1>3, <1>4

\* Every step keeps BooksInv.
LEMMA BooksStep ==
    ASSUME BooksInv, [BacktestNext]_backtestVars PROVE BooksInv'
<1>1. CASE DetectRegime \/ UNCHANGED backtestVars
  BY <1>1 DEF DetectRegime, backtestVars, BooksInv, BacktestTypeOK, Balanced, SameView
<1> QED BY <1>1, BooksBar, BooksEnd DEF BacktestNext

\* For every capital, fee, slippage, price and strategy: no money appears in a
\* backtest or is lost in it, and portfolio and strategy, which never see each
\* other, agree on whether there is a position while the capital pays the fee.
THEOREM BooksAlwaysBalance == BacktestSpec => []BooksBalance
<1>1. BooksInv => BooksBalance
  <2> SUFFICES ASSUME BooksInv PROVE BooksBalance
    OBVIOUS
  <2>1. CapitalToUse(book) \in Int /\ Fee \in Nat
    BY CapitalType, BacktestAssumption DEF BooksInv, BacktestAssumption
  <2> QED BY <2>1 DEF BooksInv, Balanced, SameView, BooksBalance
<1>2. BooksInv /\ [BacktestNext]_backtestVars => BooksInv'
  BY BooksStep
<1> QED BY BooksInit, <1>1, <1>2, PTL DEF BacktestSpec

-----------------------------------------------------------------------------
(* Research: weeks, their bars and the parameters of a window.             *)

\* The sum of the closes of some weeks, as WeeklyTrend forms it.
SumOfCloses(h, L) == MapThenSumSet(LAMBDA v : WeeklyClose(h, v), L)

\* It is the same for two histories that close these weeks alike: the fold is
\* the same recursive function of both.
LEMMA SumSame ==
    ASSUME NEW L, NEW g, NEW h,
           \A v \in L : WeeklyClose(g, v) = WeeklyClose(h, v)
    PROVE  SumOfCloses(g, L) = SumOfCloses(h, L)
<1> DEFINE one(s) == CHOOSE x \in s : TRUE
           body(k, f) == [s \in SUBSET L |-> IF s = {} THEN 0
                             ELSE WeeklyClose(k, one(s)) + f[s \ {one(s)}]]
<1>1. ASSUME NEW s \in SUBSET L, s # {} PROVE one(s) \in L
  BY <1>1
<1> HIDE DEF one
<1>2. ASSUME NEW f PROVE body(g, f) = body(h, f)
  BY <1>1
<1> HIDE DEF body
<1>3. (CHOOSE f : f = body(g, f)) = (CHOOSE f : f = body(h, f))
  BY <1>2, Zenon
<1>4. SumOfCloses(g, L) = (CHOOSE f : f = body(g, f))[L]
  BY Zenon DEF SumOfCloses, MapThenSumSet, MapThenFoldSet, body, one
<1>5. SumOfCloses(h, L) = (CHOOSE f : f = body(h, f))[L]
  BY Zenon DEF SumOfCloses, MapThenSumSet, MapThenFoldSet, body, one
<1> QED BY <1>3, <1>4, <1>5

\* A week ends on the day of each of its bars, or later.
LEMMA WeekEndAfter ==
    ASSUME NEW d \in Nat PROVE d <= WeekEnd(d) /\ WeekEnd(d) \in Int
<1>1. WeekDays \in Nat \ {0}
  BY ResearchAssumption DEF ResearchAssumption
<1> DEFINE n == d + (WeekDays - 1)
           q == n \div WeekDays
           r == n % WeekDays
<1>2. n \in Int
  BY <1>1
<1> HIDE DEF n
<1>3. q \in Int /\ n = WeekDays * q + r /\ r \in 0..(WeekDays - 1)
  BY <1>1, <1>2
<1>4. WeekEnd(d) = q * WeekDays
  BY <1>1 DEF WeekEnd, n
<1> HIDE DEF q, r
<1>5. WeekEnd(d) = n - r /\ WeekEnd(d) \in Int
  BY <1>1, <1>3, <1>4
<1> QED BY <1>1, <1>2, <1>3, <1>5 DEF n

\* A history has a price for some of the days.
IsHistory(h) == DOMAIN h \subseteq 1..HistoryDays /\ h \in [DOMAIN h -> DayCloses]

\* Two histories of the same days that cannot be told apart before day n.
AgreeBefore(g, h, n) ==
    DOMAIN g = DOMAIN h /\ \A d \in DOMAIN g : d < n => g[d] = h[d]

\* The close of a week is the price of one of its bars, of no later day.
LEMMA WeeklyCloseSame ==
    ASSUME NEW g, IsHistory(g), NEW h, IsHistory(h), NEW n \in Int, AgreeBefore(g, h, n),
           NEW w \in WeeksOf(g), w < n
    PROVE  WeeklyClose(g, w) = WeeklyClose(h, w)
<1> DEFINE taken == BarsOfWeek(g, w)
<1>0. HistoryDays \in Nat
  BY ResearchAssumption DEF ResearchAssumption
<1>1. taken \in SUBSET Int /\ taken # {} /\ \A d \in taken : d <= HistoryDays /\ d \in Nat
  BY <1>0 DEF BarsOfWeek, WeeksOf, IsHistory
<1>2. Max(taken) \in taken
  <2> HIDE DEF taken
  <2> QED BY <1>0, <1>1, MaxIsLargest
<1>3. BarsOfWeek(h, w) = taken
  BY DEF BarsOfWeek, AgreeBefore
<1>4. \A d \in taken : WeekEnd(d) = w /\ d \in DOMAIN g
  BY DEF BarsOfWeek
<1>5. Max(taken) <= w /\ w \in Int /\ Max(taken) \in Int
  BY <1>1, <1>2, <1>4, WeekEndAfter
<1>6. g[Max(taken)] = h[Max(taken)]
  BY <1>2, <1>4, <1>5 DEF AgreeBefore
<1> QED BY <1>3, <1>6 DEF WeeklyClose

\* What is merged into a bar is the same in both: it comes from weeks that
\* ended before the bar.
LEMMA MergedBarSame ==
    ASSUME NEW g, IsHistory(g), NEW h, IsHistory(h), NEW d \in Nat, AgreeBefore(g, h, d)
    PROVE  MergedBar(g, d) = MergedBar(h, d)
<1>0. HistoryDays \in Nat
  BY ResearchAssumption DEF ResearchAssumption
<1>1. WeeksOf(g) = WeeksOf(h) /\ ValidWeeks(g, d) = ValidWeeks(h, d)
  BY DEF WeeksOf, ValidWeeks, AgreeBefore
<1>2. CASE ValidWeeks(g, d) = {}
  BY <1>1, <1>2 DEF MergedBar
<1>3. CASE ValidWeeks(g, d) # {}
  <2> DEFINE w == Max(ValidWeeks(g, d))
  <2>1. WeeksOf(g) \subseteq Int
    BY <1>0, WeekEndAfter DEF WeeksOf, IsHistory
  <2>2. w \in ValidWeeks(g, d)
    <3>1. ValidWeeks(g, d) \in SUBSET Int /\ \A v \in ValidWeeks(g, d) : v <= d
      BY <2>1 DEF ValidWeeks
    <3> QED BY <1>3, <3>1, MaxIsLargest
  <2> HIDE DEF w
  <2>3. w \in WeeksOf(g) /\ w < d /\ w \in Int
    BY <2>1, <2>2 DEF ValidWeeks
  <2>4. \A v \in WeeksOf(g) : v < d => WeeklyClose(g, v) = WeeklyClose(h, v)
    BY WeeklyCloseSame
  <2>5. WeeklyTrend(g, w) = WeeklyTrend(h, w)
    <3>1. LastWeeks(g, w) = LastWeeks(h, w)
      BY <1>1 DEF LastWeeks
    <3>2. \A v \in LastWeeks(g, w) : WeeklyClose(g, v) = WeeklyClose(h, v)
      BY <2>1, <2>3, <2>4 DEF LastWeeks
    <3>3. SumOfCloses(g, LastWeeks(g, w)) = SumOfCloses(h, LastWeeks(h, w))
      BY <3>1, <3>2, SumSame, ZenonT(40)
    <3>4. WeeklyClose(g, w) = WeeklyClose(h, w)
      BY <2>3, <2>4
    <3> QED BY <3>1, <3>3, <3>4, Zenon DEF WeeklyTrend, SumOfCloses
  <2>6. /\ BarsOfWeek(g, w) = BarsOfWeek(h, w)
        /\ \A b \in BarsOfWeek(g, w) : g[b] = h[b]
    <3>1. BarsOfWeek(g, w) = BarsOfWeek(h, w)
      BY DEF BarsOfWeek, AgreeBefore
    <3>2. ASSUME NEW b \in BarsOfWeek(g, w) PROVE b \in DOMAIN g /\ b < d
      BY <1>0, <2>3, WeekEndAfter DEF BarsOfWeek, IsHistory
    <3> QED BY <3>1, <3>2 DEF AgreeBefore
  <2>7. {g[b] : b \in BarsOfWeek(g, w)} = {h[b] : b \in BarsOfWeek(h, w)}
    BY <2>6
  <2>8. WeeklyClose(g, w) = WeeklyClose(h, w)
    BY <2>3, <2>4
  <2>9. w = Max(ValidWeeks(h, d))
    BY <1>1 DEF w
  <2> QED BY <1>1, <1>3, <2>5, <2>7, <2>8, <2>9, Zenon DEF MergedBar, w
<1> QED BY <1>2, <1>3

\* The parameters that are best on some days are the same in both.
LEMMA BestParamsSame ==
    ASSUME NEW g, IsHistory(g), NEW h, IsHistory(h), NEW n \in Int, AgreeBefore(g, h, n),
           NEW days \in SUBSET DOMAIN g, days # {}, \A d \in days : d < n
    PROVE  BestParams(g, days) = BestParams(h, days)
<1>0. HistoryDays \in Nat
  BY ResearchAssumption DEF ResearchAssumption
<1>1. /\ days \in SUBSET Int
      /\ \A d \in days : d <= HistoryDays
      /\ \A d \in days : 1 <= d
  BY <1>0 DEF IsHistory
<1>2. Max(days) \in days
  <2>1. HistoryDays \in Int
    BY <1>0
  <2> QED BY <2>1, <1>1, MaxIsLargest
<1>4. Min(days) \in days
  BY <1>1, MinIsSmallest
<1>3. g[Max(days)] = h[Max(days)] /\ g[Min(days)] = h[Min(days)]
  BY <1>2, <1>4 DEF AgreeBefore
<1>5. \A p : SharpeOf(g, days, p) = SharpeOf(h, days, p)
  BY <1>3 DEF SharpeOf
<1> QED BY <1>5 DEF BestParams

-----------------------------------------------------------------------------
(* The research never looks ahead.                                         *)

\* The results that windows of a history can have.
Results(h) == {WindowResult(h, start, number) :
                   start \in {s \in Nat : EnoughBars(h, s)}, number \in Nat}

\* The two histories agree up to the horizon; every merged bar and every window
\* is what the whole history gives for it.
ResearchInv ==
    /\ DOMAIN history = Sides /\ \A s \in Sides : IsHistory(history[s])
    /\ AgreeBefore(history["left"], history["right"], Horizon + 1)
    /\ DOMAIN context["left"] = DOMAIN context["right"]
    /\ \A s \in Sides : \A d \in DOMAIN context[s] :
           d \in Nat /\ context[s][d] = MergedBar(history[s], d)
    /\ \A s \in Sides : found[s] \in Seq(Results(history[s]))
    /\ today \in Nat /\ current \in Nat

\* The analysis begins with nothing merged and no window tried.
LEMMA ResearchStart == ResearchInit => ResearchInv
<1> SUFFICES ASSUME ResearchInit PROVE ResearchInv
  OBVIOUS
<1>1. PICK free \in Holidays :
         \E left, right \in [(1..HistoryDays) \ free -> DayCloses] :
               /\ \A d \in DOMAIN left : d <= Horizon => left[d] = right[d]
               /\ history = [s \in Sides |-> IF s = "left" THEN left ELSE right]
  BY DEF ResearchInit
<1>2. PICK left, right \in [(1..HistoryDays) \ free -> DayCloses] :
         /\ \A d \in DOMAIN left : d <= Horizon => left[d] = right[d]
         /\ history = [s \in Sides |-> IF s = "left" THEN left ELSE right]
  BY <1>1
<1>3. HistoryDays \in Nat /\ Horizon \in Nat
  BY ResearchAssumption DEF ResearchAssumption
<1>4. DOMAIN history = Sides /\ history["left"] = left /\ history["right"] = right
  BY <1>2 DEF Sides
<1>5. IsHistory(left) /\ IsHistory(right)
  BY <1>2 DEF IsHistory
<1>6. AgreeBefore(left, right, Horizon + 1)
  BY <1>2, <1>3 DEF AgreeBefore
<1>7. \A s \in Sides : found[s] = <<>> /\ DOMAIN context[s] = {}
  BY DEF ResearchInit
<1>8. ASSUME NEW s \in Sides PROVE found[s] \in Seq(Results(history[s]))
  <2>1. \A T : <<>> \in Seq(T)
    OBVIOUS
  <2> QED BY <1>7, <2>1
<1> QED BY <1>4, <1>5, <1>6, <1>7, <1>8 DEF ResearchInv, Sides, ResearchInit

\* Every step keeps ResearchInv; the histories never change.
LEMMA ResearchStep ==
    ASSUME ResearchInv, [ResearchNext]_researchVars PROVE ResearchInv'
<1>1. CASE MergeDay
  <2>1. /\ today \in Nat /\ today' = today + 1
        /\ UNCHANGED <<history, current, found>>
        /\ context' = [s \in Sides |->
                      IF today \notin DOMAIN history[s] THEN context[s]
                      ELSE [d \in DOMAIN context[s] \cup {today} |->
                               IF d = today THEN MergedBar(history[s], today)
                               ELSE context[s][d]]]
    BY <1>1 DEF MergeDay, ResearchInv
  <2>2. \A s \in Sides : DOMAIN context'[s]
           = IF today \notin DOMAIN history[s] THEN DOMAIN context[s]
             ELSE DOMAIN context[s] \cup {today}
    BY <2>1
  <2>3. ASSUME NEW s \in Sides, NEW d \in DOMAIN context'[s]
        PROVE  d \in Nat /\ context'[s][d] = MergedBar(history[s], d)
    BY <2>1, <2>3 DEF ResearchInv
  <2>4. DOMAIN context'["left"] = DOMAIN context'["right"]
    BY <2>2 DEF ResearchInv, AgreeBefore, Sides
  <2> QED BY <2>1, <2>3, <2>4 DEF ResearchInv
<1>2. CASE TryWindow
  <2>1. /\ UNCHANGED <<history, context, today>> /\ current' = current + StepDays
        /\ current \in Nat /\ StepDays \in Nat
        /\ found' = [s \in Sides |->
                    IF EnoughBars(history[s], current)
                    THEN Append(found[s], WindowResult(history[s], current, Len(found[s])))
                    ELSE found[s]]
    BY <1>2, ResearchAssumption DEF TryWindow, ResearchInv, ResearchAssumption
  <2>2. ASSUME NEW s \in Sides PROVE found'[s] \in Seq(Results(history[s]))
    <3>1. found[s] \in Seq(Results(history[s]))
      BY DEF ResearchInv
    <3>2. Len(found[s]) \in Nat
      BY <3>1
    <3>3. EnoughBars(history[s], current) =>
            WindowResult(history[s], current, Len(found[s])) \in Results(history[s])
      BY <2>1, <3>2 DEF Results
    <3>4. found'[s] = IF EnoughBars(history[s], current)
                      THEN Append(found[s], WindowResult(history[s], current, Len(found[s])))
                      ELSE found[s]
      BY <2>1
    <3>5. \A T, q, e : q \in Seq(T) /\ e \in T => Append(q, e) \in Seq(T)
      OBVIOUS
    <3>6. CASE EnoughBars(history[s], current)
      BY <3>1, <3>3, <3>4, <3>5, <3>6, Zenon
    <3>7. CASE ~EnoughBars(history[s], current)
      BY <3>1, <3>4, <3>7
    <3> QED BY <3>6, <3>7
  <2> QED BY <2>1, <2>2 DEF ResearchInv
<1>3. CASE VerifyNoLookahead \/ ComparePaper \/ UNCHANGED researchVars
  BY <1>3 DEF VerifyNoLookahead, ComparePaper, researchVars, ResearchInv
<1> QED BY <1>1, <1>2, <1>3 DEF ResearchNext

\* For all histories, holidays, windows and parameters, whatever comes after the
\* horizon: no weekly column and no chosen parameter depends on it.
THEOREM ResearchNeverLooksAhead == ResearchSpec => []NoLookAhead
<1>1. ResearchInv => NoLookAhead
  <2> SUFFICES ASSUME ResearchInv PROVE NoLookAhead
    OBVIOUS
  <2> DEFINE g == history["left"]
             h == history["right"]
  <2>0. /\ IsHistory(g) /\ IsHistory(h) /\ AgreeBefore(g, h, Horizon + 1)
        /\ Horizon \in Nat /\ TrainDays \in Nat /\ MinTrainBars \in Nat \ {0}
        /\ "left" \in Sides /\ "right" \in Sides
    BY ResearchAssumption DEF ResearchInv, ResearchAssumption, Sides
  <2> HIDE DEF g, h
  <2>1. ASSUME NEW d \in DOMAIN context["left"], d <= Horizon + 1
        PROVE  context["left"][d] = context["right"][d]
    <3>1. /\ d \in Nat /\ context["left"][d] = MergedBar(g, d)
          /\ context["right"][d] = MergedBar(h, d)
      BY <2>0, <2>1 DEF ResearchInv, g, h
    <3>2. AgreeBefore(g, h, d)
      BY <2>0, <2>1, <3>1 DEF AgreeBefore, IsHistory
    <3> QED BY <2>0, <3>1, <3>2, MergedBarSame
  <2>2. ASSUME NEW i \in DOMAIN found["left"], NEW j \in DOMAIN found["right"],
               found["left"][i].start = found["right"][j].start,
               found["left"][i].trainEnd <= Horizon + 1
        PROVE  found["left"][i].best = found["right"][j].best
    <3>1. found["left"][i] \in Results(g) /\ found["right"][j] \in Results(h)
      BY <2>0 DEF ResearchInv, g, h
    <3>2. PICK a \in Nat, n \in Nat :
              EnoughBars(g, a) /\ found["left"][i] = WindowResult(g, a, n)
      BY <3>1 DEF Results
    <3>3. PICK b \in Nat, m \in Nat :
              EnoughBars(h, b) /\ found["right"][j] = WindowResult(h, b, m)
      BY <3>1 DEF Results
    <3> DEFINE days == BarsBetween(g, a, a + TrainDays)
    <3>4. a = b /\ a + TrainDays <= Horizon + 1
      BY <2>2, <3>2, <3>3 DEF WindowResult
    <3>5. /\ found["left"][i].best = BestParams(g, days)
          /\ found["right"][j].best = BestParams(h, BarsBetween(h, a, a + TrainDays))
      BY <3>2, <3>3, <3>4 DEF WindowResult
    <3>6. BarsBetween(h, a, a + TrainDays) = days
      BY <2>0 DEF BarsBetween, AgreeBefore
    <3>7. days # {}
      <4>1. Cardinality(days) >= MinTrainBars
        BY <3>2 DEF EnoughBars
      <4>2. Cardinality({}) = 0
        BY FS_EmptySet
      <4> QED BY <2>0, <4>1, <4>2
    <3>8. days \in SUBSET DOMAIN g /\ \A d \in days : d < Horizon + 1
      BY <2>0, <3>4 DEF BarsBetween, IsHistory
    <3> QED BY <2>0, <3>5, <3>6, <3>7, <3>8, BestParamsSame
  <2> QED BY <2>1, <2>2 DEF NoLookAhead
<1>2. ResearchInv /\ [ResearchNext]_researchVars => ResearchInv'
  BY ResearchStep
<1> QED BY ResearchStart, <1>1, <1>2, PTL DEF ResearchSpec

-----------------------------------------------------------------------------
(* The paper broker.  Its pass over the orders and the sum of its fills are *)
(* folds, of which Folds_proofs says what they compute.                     *)

\* The sum of the fills, and the pass over the pending orders.
Sums  == INSTANCE Folds_proofs WITH Op <- AddFill
Fills == INSTANCE Folds_proofs WITH Op <- TryFillOrder

\* An order of the book.  A market order has some level, which nothing reads.
Directions == {"BUY", "SELL"}
Levels == PaperPrices \cup {CHOOSE p \in PaperPrices : TRUE}
PaperOrder == [side : Directions, type : OrderTypes, quantity : Nat, level : Levels,
               status : {"SUBMITTED"} \cup Ended]

\* The units of all filled orders.
FilledUnits(orders) == FoldLeft(AddFill, 0, orders)

\* Both are what Folds_proofs is about.
LEMMA SumIsFold == \A orders : FilledUnits(orders) = Sums!Fold(0, orders)
  BY Zenon DEF FilledUnits, FoldLeft, Sums!Fold, Sums!FoldLeft, MapThenFoldSet, Sums!MapThenFoldSet, Max, Sums!Max

\* The same for the pass of execute_orders.
LEMMA FillsIsFold == \A s, l : FoldLeft(TryFillOrder, s, l) = Fills!Fold(s, l)
  BY Zenon DEF FoldLeft, Fills!Fold, Fills!FoldLeft, MapThenFoldSet, Fills!MapThenFoldSet, Max, Fills!Max

\* An empty book has no fills.
LEMMA FilledNothing == FilledUnits(<<>>) = 0
  BY SumIsFold, Sums!FoldEmpty, Zenon

\* A new order adds its units if it is filled.
LEMMA FilledAppend ==
    ASSUME NEW orders \in Seq(PaperOrder), NEW o \in PaperOrder
    PROVE  FilledUnits(Append(orders, o)) = AddFill(FilledUnits(orders), o)
<1>1. Sums!Fold(0, Append(orders, o)) = AddFill(Sums!Fold(0, orders), o)
  BY Sums!FoldAppend
<1> QED BY <1>1, SumIsFold, Zenon

\* The sums after each order of a book.
LEMMA FilledSteps ==
    ASSUME NEW orders \in Seq(PaperOrder)
    PROVE  \E st : /\ DOMAIN st = 0..Len(orders) /\ st[0] = 0
                   /\ \A k \in 1..Len(orders) : st[k] = AddFill(st[k - 1], orders[k])
                   /\ FilledUnits(orders) = st[Len(orders)]
<1> DEFINE n == Len(orders)
<1>1. n \in Nat /\ DOMAIN orders = 1..n
  OBVIOUS
<1> HIDE DEF n
<1>2. \E st : /\ DOMAIN st = 0..n /\ Sums!Steps(st, 0, orders, n)
                   /\ Sums!Fold(0, orders) = st[n]
  BY <1>1, Sums!FoldSteps, Zenon
<1> QED BY <1>2, SumIsFold, Zenon DEF Sums!Steps, n

\* What an order adds.
LEMMA AddFillIs ==
    ASSUME NEW sum \in Int, NEW o \in PaperOrder
    PROVE  /\ Signed(o.side, o.quantity) \in Int
           /\ AddFill(sum, o) \in Int
           /\ AddFill(sum, o) = sum + AddFill(0, o)
           /\ AddFill(0, o) \in Int
<1>1. o.quantity \in Nat /\ Signed(o.side, o.quantity) \in Int
  BY DEF PaperOrder, Signed
<1> HIDE DEF Signed
<1> QED BY <1>1 DEF AddFill

\* Two books that differ in one order differ in what it adds.
LEMMA FilledChanged ==
    ASSUME NEW orders \in Seq(PaperOrder), NEW after \in Seq(PaperOrder),
           Len(after) = Len(orders), NEW i \in DOMAIN orders,
           \A k \in DOMAIN orders : k # i => after[k] = orders[k]
    PROVE  /\ FilledUnits(orders) \in Int
           /\ FilledUnits(after) = FilledUnits(orders)
                                       + (AddFill(0, after[i]) - AddFill(0, orders[i]))
<1> DEFINE n == Len(orders)
           d == AddFill(0, after[i]) - AddFill(0, orders[i])
<1>1. /\ n \in Nat /\ DOMAIN orders = 1..n /\ DOMAIN after = 1..n
      /\ \A k \in 1..n : orders[k] \in PaperOrder /\ after[k] \in PaperOrder
  OBVIOUS
<1>2. d \in Int
  BY <1>1, AddFillIs
<1>3. PICK st : /\ st[0] = 0
                /\ \A k \in 1..n : st[k] = AddFill(st[k - 1], orders[k])
                /\ FilledUnits(orders) = st[n]
  BY FilledSteps
<1>4. PICK su : /\ su[0] = 0
                /\ \A k \in 1..n : su[k] = AddFill(su[k - 1], after[k])
                /\ FilledUnits(after) = su[n]
  BY <1>1, FilledSteps
<1> HIDE DEF n
<1> DEFINE Right(k) == /\ st[k] \in Int
                       /\ su[k] = st[k] + (IF k < i THEN 0 ELSE d)
           Wrong == {k \in 0..n : ~Right(k)}
<1>5. Wrong = {}
  <2>1. SUFFICES ASSUME Wrong # {} PROVE FALSE
    OBVIOUS
  <2>2. PICK m \in Wrong : \A k \in Wrong : m <= k
    <3>1. Wrong \in SUBSET Nat
      OBVIOUS
    <3> HIDE DEF Wrong
    <3> QED BY <2>1, <3>1, LeastNatural
  <2>3. m \in 0..n /\ ~Right(m)
    BY <2>2
  <2>4. m # 0
    BY <1>1, <1>3, <1>4, <2>3
  <2>5. m \in 1..n /\ m - 1 \in 0..n /\ m \in Int
    BY <1>1, <2>3, <2>4
  <2>6. Right(m - 1)
    <3>1. ~(m <= m - 1)
      BY <2>5
    <3>2. m - 1 \notin Wrong
      BY <2>2, <3>1
    <3> HIDE DEF Right
    <3> QED BY <2>5, <3>2
  <2>7. /\ st[m] = st[m - 1] + AddFill(0, orders[m]) /\ st[m] \in Int
        /\ su[m] = su[m - 1] + AddFill(0, after[m])
        /\ AddFill(0, orders[m]) \in Int /\ AddFill(0, after[m]) \in Int
    <3>1. st[m] = AddFill(st[m - 1], orders[m]) /\ su[m] = AddFill(su[m - 1], after[m])
      BY <1>3, <1>4, <2>5
    <3>2. st[m - 1] \in Int /\ su[m - 1] \in Int
      BY <1>2, <2>6
    <3>3. orders[m] \in PaperOrder /\ after[m] \in PaperOrder
      BY <1>1, <2>5
    <3>4. AddFill(st[m - 1], orders[m]) = st[m - 1] + AddFill(0, orders[m])
          /\ AddFill(0, orders[m]) \in Int
      BY <3>2, <3>3, AddFillIs
    <3>5. AddFill(su[m - 1], after[m]) = su[m - 1] + AddFill(0, after[m])
          /\ AddFill(0, after[m]) \in Int
      BY <3>2, <3>3, AddFillIs
    <3> QED BY <3>1, <3>2, <3>4, <3>5
  <2>8. i \in Int
    BY <1>1
  <2>9. CASE m = i
    BY <1>2, <2>3, <2>5, <2>6, <2>7, <2>8, <2>9
  <2>10. CASE m # i
    <3>1. after[m] = orders[m]
      BY <1>1, <2>5, <2>10
    <3> HIDE DEF d
    <3> QED BY <1>2, <2>3, <2>5, <2>6, <2>7, <2>8, <2>10, <3>1, SMTT(30)
  <2> QED BY <2>9, <2>10
<1>6. Right(n)
  <2> HIDE DEF Right
  <2> QED BY <1>1, <1>5
<1>7. ~(n < i)
  BY <1>1
<1> QED BY <1>3, <1>4, <1>6, <1>7

\* A position has units.
IsPosition(p) ==
    /\ p = [side |-> p.side, quantity |-> p.quantity, cost |-> p.cost,
            current |-> p.current, swap |-> p.swap]
    /\ p.side \in Directions /\ p.quantity \in Nat \ {0}

\* The signs of a position, and of none.
LEMMA SignedUnits ==
    ASSUME NEW side \in Directions, NEW u \in Int
    PROVE  Signed(side, u) = IF side = "BUY" THEN u ELSE 0 - u
  BY DEF Signed, Directions

\* No position has no units.
LEMMA FlatUnits == Signed(Flat.side, Flat.quantity) = 0
<1>1. Flat.side = "none" /\ Flat.quantity = 0 /\ "none" # "BUY"
  BY DEF Flat
<1>2. PICK u \in Int : u = Flat.quantity
  BY <1>1
<1>3. Signed(Flat.side, u) = 0 - u
  BY <1>1 DEF Signed
<1> QED BY <1>1, <1>2, <1>3

\* A fill moves the position by the units of its order.
LEMMA FillMoves ==
    ASSUME NEW p, p = Flat \/ IsPosition(p), NEW o \in PaperOrder, o.quantity # 0,
           NEW price
    PROVE  LET q == PositionFromFill(p, o, price).position
           IN  /\ q = Flat \/ IsPosition(q)
               /\ Signed(q.side, q.quantity)
                    = Signed(p.side, p.quantity) + Signed(o.side, o.quantity)
<1> DEFINE q == PositionFromFill(p, o, price).position
<1> SUFFICES /\ q = Flat \/ IsPosition(q)
             /\ Signed(q.side, q.quantity)
                  = Signed(p.side, p.quantity) + Signed(o.side, o.quantity)
  OBVIOUS
<1>1. o.side \in Directions /\ o.quantity \in Nat \ {0}
  BY DEF PaperOrder
<1>2. ASSUME NEW u \in Nat \ {0}
      PROVE  /\ IsPosition(NewPosition(o.side, u, price))
             /\ NewPosition(o.side, u, price).side = o.side
             /\ NewPosition(o.side, u, price).quantity = u
  BY <1>1 DEF IsPosition, NewPosition
<1>3. CASE p = Flat
  <2>1. q = NewPosition(o.side, o.quantity, price)
    BY <1>3 DEF PositionFromFill
  <2> QED BY <1>1, <1>2, <1>3, <2>1, FlatUnits DEF Signed
<1>4. CASE p # Flat /\ p.side = o.side
  <2>1. IsPosition(p)
    BY <1>4
  <2>2. q = [p EXCEPT !.quantity = @ + o.quantity, !.cost = @ + o.quantity * price]
    BY <1>4 DEF PositionFromFill
  <2>3. q = [side |-> p.side, quantity |-> p.quantity + o.quantity,
             cost |-> p.cost + o.quantity * price, current |-> p.current,
             swap |-> p.swap]
    BY <2>1, <2>2 DEF IsPosition
  <2>4. IsPosition(q) /\ q.side = p.side /\ q.quantity = p.quantity + o.quantity
    BY <1>1, <2>1, <2>3 DEF IsPosition
  <2> HIDE DEF q
  <2>5. p.quantity \in Nat \ {0} /\ p.side \in Directions
    BY <2>1 DEF IsPosition
  <2>6. /\ Signed(q.side, q.quantity)
             = IF p.side = "BUY" THEN p.quantity + o.quantity
               ELSE 0 - (p.quantity + o.quantity)
        /\ Signed(p.side, p.quantity)
             = IF p.side = "BUY" THEN p.quantity ELSE 0 - p.quantity
        /\ Signed(o.side, o.quantity)
             = IF o.side = "BUY" THEN o.quantity ELSE 0 - o.quantity
    BY <1>1, <2>4, <2>5, SignedUnits
  <2> QED BY <1>1, <1>4, <2>4, <2>5, <2>6
<1>5. CASE p # Flat /\ p.side # o.side /\ o.quantity >= p.quantity
  <2>1. IsPosition(p)
    BY <1>5
  <2>2. q = AfterClose(o, o.quantity - p.quantity, price)
    BY <1>5 DEF PositionFromFill
  <2>3. p.quantity \in Nat \ {0} /\ p.side \in Directions
    BY <2>1 DEF IsPosition
  <2>4. CASE o.quantity - p.quantity > 0
    <3>1. o.quantity - p.quantity \in Nat \ {0}
      BY <1>1, <2>3, <2>4
    <3>2. q = NewPosition(o.side, o.quantity - p.quantity, price)
      BY <2>2, <2>4 DEF AfterClose
    <3>3. IsPosition(q) /\ q.side = o.side /\ q.quantity = o.quantity - p.quantity
      BY <1>2, <3>1, <3>2
    <3> HIDE DEF q
    <3>4. /\ Signed(q.side, q.quantity)
             = IF o.side = "BUY" THEN o.quantity - p.quantity
               ELSE 0 - (o.quantity - p.quantity)
          /\ Signed(p.side, p.quantity)
             = IF p.side = "BUY" THEN p.quantity ELSE 0 - p.quantity
          /\ Signed(o.side, o.quantity)
             = IF o.side = "BUY" THEN o.quantity ELSE 0 - o.quantity
      BY <1>1, <2>3, <3>1, <3>3, SignedUnits
    <3> QED BY <1>1, <1>5, <2>3, <3>3, <3>4 DEF Directions
  <2>5. CASE ~(o.quantity - p.quantity > 0)
    <3>1. q = Flat /\ o.quantity = p.quantity
      BY <1>1, <1>5, <2>2, <2>3, <2>5 DEF AfterClose
    <3> HIDE DEF q
    <3>2. /\ Signed(p.side, p.quantity)
             = IF p.side = "BUY" THEN p.quantity ELSE 0 - p.quantity
          /\ Signed(o.side, o.quantity)
             = IF o.side = "BUY" THEN o.quantity ELSE 0 - o.quantity
      BY <1>1, <2>3, SignedUnits
    <3> QED BY <1>1, <1>5, <2>3, <3>1, <3>2, FlatUnits DEF Directions
  <2> QED BY <2>4, <2>5
<1>6. CASE p # Flat /\ p.side # o.side /\ ~(o.quantity >= p.quantity)
  <2>1. IsPosition(p)
    BY <1>6
  <2> DEFINE left == p.quantity - o.quantity
  <2>2. q = [p EXCEPT !.quantity = left, !.cost = (@ * left) \div p.quantity,
                      !.swap = (@ * left) \div p.quantity]
    BY <1>6 DEF PositionFromFill
  <2>3. p.quantity \in Nat \ {0} /\ p.side \in Directions
    BY <2>1 DEF IsPosition
  <2>4. left \in Nat \ {0} /\ left = p.quantity - o.quantity
    BY <1>1, <1>6, <2>3
  <2> HIDE DEF left
  <2>5. q = [side |-> p.side, quantity |-> left, cost |-> (p.cost * left) \div p.quantity,
             current |-> p.current, swap |-> (p.swap * left) \div p.quantity]
    BY <2>1, <2>2 DEF IsPosition
  <2>6. IsPosition(q) /\ q.side = p.side /\ q.quantity = left
    BY <2>3, <2>4, <2>5 DEF IsPosition
  <2> HIDE DEF q
  <2>7. /\ Signed(q.side, q.quantity) = IF p.side = "BUY" THEN left ELSE 0 - left
        /\ Signed(p.side, p.quantity)
             = IF p.side = "BUY" THEN p.quantity ELSE 0 - p.quantity
        /\ Signed(o.side, o.quantity)
             = IF o.side = "BUY" THEN o.quantity ELSE 0 - o.quantity
    BY <1>1, <2>3, <2>4, <2>6, SignedUnits
  <2> QED BY <1>1, <1>6, <2>3, <2>4, <2>6, <2>7 DEF Directions
<1> QED BY <1>3, <1>4, <1>5, <1>6

\* A book and a list of orders in it: none of the list is filled or cancelled,
\* and none is twice in it.
Tryable(o) == o.status \notin {"FILLED", "CANCELLED"} /\ o.quantity # 0

BookOK(orders, list) ==
    /\ orders \in Seq(PaperOrder) /\ list \in Seq(1..Len(orders))
    /\ \A j, k \in DOMAIN list : j # k => list[j] # list[k]
    /\ \A k \in DOMAIN list : Tryable(orders[list[k]])

\* The position is what the filled orders of the book add up to.
PositionIs(p, orders) ==
    /\ p = Flat \/ IsPosition(p)
    /\ Signed(p.side, p.quantity) = FilledUnits(orders)

\* The inductive invariant.
PaperInv == BookOK(orderBook, pendingOrders) /\ PositionIs(paperPosition, orderBook)

\* The account after the first n orders of the list.
Account(s, n) ==
    /\ s = [orders |-> s.orders, left |-> s.left, position |-> s.position,
            cash |-> s.cash, price |-> s.price, slip |-> s.slip]
    /\ Len(s.orders) = Len(orderBook) /\ BookOK(s.orders, s.left)
    /\ PositionIs(s.position, s.orders)
    /\ \A k \in (n + 1)..Len(pendingOrders) :
           s.orders[pendingOrders[k]] = orderBook[pendingOrders[k]]
    /\ \A j \in DOMAIN s.left : \E k \in 1..n : s.left[j] = pendingOrders[k]

\* An order of the book takes a new status.
WithStatus(orders, i, status) == [orders EXCEPT ![i].status = status]

\* A new status of one order, which no longer counts or counts for the first
\* time.
LEMMA NewStatus ==
    ASSUME NEW orders \in Seq(PaperOrder), NEW i \in 1..Len(orders),
           orders[i].status # "FILLED", NEW status \in {"SUBMITTED"} \cup Ended,
           NEW after, after = WithStatus(orders, i, status)
    PROVE  /\ after \in Seq(PaperOrder) /\ Len(after) = Len(orders)
           /\ \A k \in 1..Len(orders) : k # i => after[k] = orders[k]
           /\ after[i].status = status /\ after[i].quantity = orders[i].quantity
           /\ FilledUnits(after) =
                  IF status = "FILLED"
                  THEN FilledUnits(orders) + Signed(orders[i].side, orders[i].quantity)
                  ELSE FilledUnits(orders)
<1> DEFINE o == orders[i]
           changed == [o EXCEPT !.status = status]
<1>1. o \in PaperOrder
  OBVIOUS
<1>2. /\ changed \in PaperOrder /\ changed.side = o.side /\ changed.quantity = o.quantity
      /\ changed.status = status
  BY <1>1 DEF PaperOrder
<1> HIDE DEF changed
<1>3. /\ after \in Seq(PaperOrder) /\ Len(after) = Len(orders) /\ after[i] = changed
      /\ \A k \in 1..Len(orders) : k # i => after[k] = orders[k]
  <2>1. after = [orders EXCEPT ![i] = changed]
    BY DEF changed, WithStatus
  <2> QED BY <1>2, <2>1
<1>4. i \in DOMAIN orders /\ DOMAIN orders = 1..Len(orders)
  OBVIOUS
<1>5. /\ FilledUnits(orders) \in Int
      /\ FilledUnits(after) = FilledUnits(orders)
                                  + (AddFill(0, after[i]) - AddFill(0, orders[i]))
  BY <1>3, <1>4, FilledChanged
<1>6. AddFill(0, o) = 0
  BY DEF AddFill
<1>7. /\ Signed(o.side, o.quantity) \in Int
      /\ AddFill(0, changed) = IF status = "FILLED" THEN Signed(o.side, o.quantity) ELSE 0
  <2>1. Signed(o.side, o.quantity) \in Int
    BY <1>1 DEF Signed, PaperOrder
  <2> QED BY <1>2, <2>1 DEF AddFill
<1> QED BY <1>2, <1>3, <1>5, <1>6, <1>7

\* An order that ends without a fill adds nothing; one that fills adds its units.
LEMMA NotCounted ==
    ASSUME NEW orders \in Seq(PaperOrder), NEW i \in 1..Len(orders),
           orders[i].status # "FILLED", NEW status \in {"CANCELLED", "REJECTED"},
           NEW after, after = WithStatus(orders, i, status)
    PROVE  /\ after \in Seq(PaperOrder) /\ Len(after) = Len(orders)
           /\ \A k \in 1..Len(orders) : k # i => after[k] = orders[k]
           /\ after[i].status = status /\ after[i].quantity = orders[i].quantity
           /\ FilledUnits(after) = FilledUnits(orders)
<1>1. status \in {"SUBMITTED"} \cup Ended /\ status # "FILLED"
  BY DEF Ended
<1>2. /\ after \in Seq(PaperOrder) /\ Len(after) = Len(orders)
      /\ \A k \in 1..Len(orders) : k # i => after[k] = orders[k]
      /\ after[i].status = status /\ after[i].quantity = orders[i].quantity
      /\ FilledUnits(after) =
             IF status = "FILLED"
             THEN FilledUnits(orders) + Signed(orders[i].side, orders[i].quantity)
             ELSE FilledUnits(orders)
  BY <1>1, NewStatus
<1> QED BY <1>1, <1>2, Zenon

\* The same for a fill.
LEMMA NowCounted ==
    ASSUME NEW orders \in Seq(PaperOrder), NEW i \in 1..Len(orders),
           orders[i].status # "FILLED",
           NEW after, after = WithStatus(orders, i, "FILLED")
    PROVE  /\ after \in Seq(PaperOrder) /\ Len(after) = Len(orders)
           /\ \A k \in 1..Len(orders) : k # i => after[k] = orders[k]
           /\ FilledUnits(after) =
                  FilledUnits(orders) + Signed(orders[i].side, orders[i].quantity)
<1>1. PICK status \in {"SUBMITTED"} \cup Ended : status = "FILLED"
  BY DEF Ended
<1>2. after = WithStatus(orders, i, status)
  BY <1>1
<1>3. /\ after \in Seq(PaperOrder) /\ Len(after) = Len(orders)
      /\ \A k \in 1..Len(orders) : k # i => after[k] = orders[k]
      /\ after[i].status = status /\ after[i].quantity = orders[i].quantity
      /\ FilledUnits(after) =
             IF status = "FILLED"
             THEN FilledUnits(orders) + Signed(orders[i].side, orders[i].quantity)
             ELSE FilledUnits(orders)
  BY <1>2, NewStatus
<1> QED BY <1>1, <1>3, Zenon

\* Trying the next order of the list.
LEMMA TryStep ==
    ASSUME PaperInv, NEW n \in 1..Len(pendingOrders), NEW s, Account(s, n - 1)
    PROVE  Account(TryFillOrder(s, pendingOrders[n]), n)
<1> DEFINE i == pendingOrders[n]
           o == s.orders[i]
           t == TryFillOrder(s, i)
<1> SUFFICES Account(t, n)
  OBVIOUS
<1>1. /\ orderBook \in Seq(PaperOrder) /\ pendingOrders \in Seq(1..Len(orderBook))
      /\ s.orders \in Seq(PaperOrder) /\ Len(s.orders) = Len(orderBook)
      /\ s.left \in Seq(1..Len(s.orders))
      /\ s = [orders |-> s.orders, left |-> s.left, position |-> s.position,
              cash |-> s.cash, price |-> s.price, slip |-> s.slip]
  BY DEF PaperInv, BookOK, Account
<1>2. i \in 1..Len(s.orders) /\ n \in DOMAIN pendingOrders
  BY <1>1
<1>3. o = orderBook[i] /\ o \in PaperOrder /\ Tryable(o)
  <2>1. n \in ((n - 1) + 1)..Len(pendingOrders)
    BY <1>1
  <2> QED BY <1>1, <1>2, <2>1 DEF Account, PaperInv, BookOK
<1>4. \A j \in DOMAIN s.left : s.left[j] # i
  <2>1. SUFFICES ASSUME NEW j \in DOMAIN s.left PROVE s.left[j] # i
    OBVIOUS
  <2>2. PICK k \in 1..(n - 1) : s.left[j] = pendingOrders[k]
    BY <2>1 DEF Account
  <2>3. k \in DOMAIN pendingOrders /\ k # n
    BY <1>1
  <2> QED BY <1>2, <2>2, <2>3 DEF PaperInv, BookOK
\* The list of the orders that stay, with this one.
<1>5. ASSUME NEW orders \in Seq(PaperOrder), Len(orders) = Len(s.orders),
             \A k \in 1..Len(orders) : k # i => orders[k] = s.orders[k],
             NEW list, list \in {s.left, Append(s.left, i)},
             list # s.left => Tryable(orders[i])
      PROVE  /\ BookOK(orders, list)
             /\ \A j \in DOMAIN list : \E k \in 1..n : list[j] = pendingOrders[k]
             /\ \A k \in (n + 1)..Len(pendingOrders) :
                    orders[pendingOrders[k]] = orderBook[pendingOrders[k]]
  <2>1. \A j \in DOMAIN s.left : /\ s.left[j] \in 1..Len(orders) /\ s.left[j] # i
                                 /\ Tryable(orders[s.left[j]])
                                 /\ \E k \in 1..n : s.left[j] = pendingOrders[k]
    <3>1. SUFFICES ASSUME NEW j \in DOMAIN s.left
                   PROVE  /\ s.left[j] \in 1..Len(orders) /\ s.left[j] # i
                          /\ Tryable(orders[s.left[j]])
                          /\ \E k \in 1..n : s.left[j] = pendingOrders[k]
      OBVIOUS
    <3>2. s.left[j] \in 1..Len(orders) /\ s.left[j] # i
      BY <1>1, <1>4, <1>5, <3>1
    <3>3. Tryable(s.orders[s.left[j]])
      BY <3>1 DEF Account, BookOK
    <3>4. PICK k \in 1..(n - 1) : s.left[j] = pendingOrders[k]
      BY <3>1 DEF Account
    <3>5. k \in 1..n
      BY <1>1
    <3> QED BY <1>5, <3>2, <3>3, <3>4, <3>5
  <2>2. \A j, k \in DOMAIN s.left : j # k => s.left[j] # s.left[k]
    BY DEF Account, BookOK
  <2>3. \A k \in (n + 1)..Len(pendingOrders) :
            orders[pendingOrders[k]] = orderBook[pendingOrders[k]]
    <3>1. SUFFICES ASSUME NEW k \in (n + 1)..Len(pendingOrders)
                   PROVE  orders[pendingOrders[k]] = orderBook[pendingOrders[k]]
      OBVIOUS
    <3>2. k \in DOMAIN pendingOrders /\ k # n /\ k \in ((n - 1) + 1)..Len(pendingOrders)
      BY <1>1
    <3>3. pendingOrders[k] # i /\ pendingOrders[k] \in 1..Len(orders)
      BY <1>1, <1>2, <1>5, <3>2 DEF PaperInv, BookOK
    <3>4. s.orders[pendingOrders[k]] = orderBook[pendingOrders[k]]
      BY <3>2 DEF Account
    <3> QED BY <1>5, <3>3, <3>4
  <2>4. CASE list = s.left
    <3>1. list \in Seq(1..Len(orders))
      BY <1>1, <1>5, <2>4
    <3> QED BY <1>5, <2>1, <2>2, <2>3, <2>4, <3>1 DEF BookOK
  <2>5. CASE list = Append(s.left, i) /\ list # s.left
    <3> DEFINE m == Len(s.left)
    <3>1. /\ list \in Seq(1..Len(orders)) /\ DOMAIN list = 1..(m + 1)
          /\ m \in Nat /\ DOMAIN s.left = 1..m
          /\ list[m + 1] = i /\ \A j \in 1..m : list[j] = s.left[j]
      BY <1>1, <1>2, <1>5, <2>5
    <3> HIDE DEF m
    <3>2. \A j \in DOMAIN list : j = m + 1 \/ j \in DOMAIN s.left
      BY <3>1
    <3>3. \A j, k \in DOMAIN list : j # k => list[j] # list[k]
      BY <2>1, <2>2, <3>1, <3>2
    <3>4. \A j \in DOMAIN list : Tryable(orders[list[j]])
      BY <1>5, <2>1, <2>5, <3>1, <3>2
    <3>5. \A j \in DOMAIN list : \E k \in 1..n : list[j] = pendingOrders[k]
      <4>1. n \in 1..n /\ list[m + 1] = pendingOrders[n]
        BY <1>1, <3>1
      <4>2. \E k \in 1..n : list[m + 1] = pendingOrders[k]
        BY <4>1
      <4>3. \A j \in DOMAIN s.left : \E k \in 1..n : list[j] = pendingOrders[k]
        BY <2>1, <3>1
      <4> QED BY <3>2, <4>2, <4>3
    <3> QED BY <1>5, <2>3, <3>1, <3>3, <3>4, <3>5 DEF BookOK
  <2> QED BY <1>5, <2>4, <2>5
<1>6. PositionIs(s.position, s.orders)
  BY DEF Account
<1>7. CASE t = [s EXCEPT !.left = Append(@, i)]
  <2>1. t = [orders |-> s.orders, left |-> Append(s.left, i), position |-> s.position,
             cash |-> s.cash, price |-> s.price, slip |-> s.slip]
    BY <1>1, <1>7
  <2> HIDE DEF t, o
  <2> QED BY <1>1, <1>3, <1>5, <1>6, <2>1 DEF Account, o
<1>8. CASE t = [s EXCEPT !.left = Append(@, i), !.orders[i].status = "REJECTED"]
  <2>0. PICK after : after = [s.orders EXCEPT ![i].status = "REJECTED"]
    OBVIOUS
  <2>1. t = [orders |-> after, left |-> Append(s.left, i), position |-> s.position,
             cash |-> s.cash, price |-> s.price, slip |-> s.slip]
    BY <1>1, <1>8, <2>0
  <2>2. /\ after \in Seq(PaperOrder) /\ Len(after) = Len(s.orders)
        /\ \A k \in 1..Len(s.orders) : k # i => after[k] = s.orders[k]
        /\ after[i].status = "REJECTED" /\ after[i].quantity = o.quantity
        /\ FilledUnits(after) = FilledUnits(s.orders)
    <3>1. PICK status \in {"CANCELLED", "REJECTED"} : status = "REJECTED"
      OBVIOUS
    <3>2. PICK ledger : ledger = s.orders
      OBVIOUS
    <3>3. ledger \in Seq(PaperOrder) /\ i \in 1..Len(ledger) /\ ledger[i].status # "FILLED"
      BY <1>1, <1>2, <1>3, <3>2 DEF Tryable
    <3>4. after = WithStatus(ledger, i, status)
      BY <2>0, <3>1, <3>2 DEF WithStatus
    <3> HIDE DEF i, t, o
    <3>5. /\ after \in Seq(PaperOrder) /\ Len(after) = Len(ledger)
          /\ \A k \in 1..Len(ledger) : k # i => after[k] = ledger[k]
          /\ after[i].status = status /\ after[i].quantity = ledger[i].quantity
          /\ FilledUnits(after) = FilledUnits(ledger)
      BY <3>3, <3>4, NotCounted, SMTT(60)
    <3> QED BY <3>1, <3>2, <3>5 DEF o
  <2>3. Tryable(after[i])
    BY <1>3, <2>2 DEF Tryable
  <2> HIDE DEF t, o
  <2>4. PositionIs(s.position, after)
    BY <1>6, <2>2 DEF PositionIs
  <2> QED BY <1>1, <1>5, <2>1, <2>2, <2>3, <2>4 DEF Account
<1>9. ASSUME NEW price, NEW cash,
             t = [s EXCEPT !.orders[i].status = "FILLED",
                           !.position = PositionFromFill(s.position, o, price).position,
                           !.cash = cash]
      PROVE  Account(t, n)
  <2> DEFINE after == [s.orders EXCEPT ![i].status = "FILLED"]
             q == PositionFromFill(s.position, o, price).position
  <2>1. t = [orders |-> after, left |-> s.left, position |-> q,
             cash |-> cash, price |-> s.price, slip |-> s.slip]
    BY <1>1, <1>9
  <2>2. /\ after \in Seq(PaperOrder) /\ Len(after) = Len(s.orders)
        /\ \A k \in 1..Len(s.orders) : k # i => after[k] = s.orders[k]
        /\ FilledUnits(after) = FilledUnits(s.orders) + Signed(o.side, o.quantity)
    <3>1. PICK ledger : ledger = s.orders
      OBVIOUS
    <3>2. ledger \in Seq(PaperOrder) /\ i \in 1..Len(ledger) /\ ledger[i].status # "FILLED"
      BY <1>1, <1>2, <1>3, <3>1 DEF Tryable
    <3>3. after = WithStatus(ledger, i, "FILLED")
      BY <3>1 DEF WithStatus
    <3> HIDE DEF i, t, after
    <3>4. /\ after \in Seq(PaperOrder) /\ Len(after) = Len(ledger)
          /\ \A k \in 1..Len(ledger) : k # i => after[k] = ledger[k]
          /\ FilledUnits(after) = FilledUnits(ledger) + Signed(ledger[i].side, ledger[i].quantity)
      BY <3>2, <3>3, NowCounted
    <3> QED BY <3>1, <3>4
  <2>3. /\ q = Flat \/ IsPosition(q)
        /\ Signed(q.side, q.quantity)
             = Signed(s.position.side, s.position.quantity) + Signed(o.side, o.quantity)
    <3>1. o.quantity # 0
      BY <1>3 DEF Tryable
    <3>2. s.position = Flat \/ IsPosition(s.position)
      BY <1>6 DEF PositionIs
    <3> QED BY <1>3, <3>1, <3>2, FillMoves
  <2> HIDE DEF after, q, t, o
  <2>4. PositionIs(q, after)
    BY <1>6, <2>2, <2>3 DEF PositionIs
  <2> QED BY <1>1, <1>5, <2>1, <2>2, <2>4 DEF Account
<1>10. \/ t = [s EXCEPT !.left = Append(@, i)]
       \/ t = [s EXCEPT !.left = Append(@, i), !.orders[i].status = "REJECTED"]
       \/ \E price, cash :
            t = [s EXCEPT !.orders[i].status = "FILLED",
                          !.position = PositionFromFill(s.position, o, price).position,
                          !.cash = cash]
  BY Zenon DEF TryFillOrder
<1> QED BY <1>7, <1>8, <1>9, <1>10

\* Another market price leaves the units of a position alone.
LEMMA PriceKeepsUnits ==
    ASSUME NEW p, NEW orders, PositionIs(p, orders), NEW price,
           NEW q, q = IF p = Flat THEN Flat ELSE [p EXCEPT !.current = price]
    PROVE  PositionIs(q, orders)
<1>1. CASE p = Flat
  BY <1>1, Zenon
<1>2. CASE p # Flat
  <2>1. IsPosition(p)
    BY <1>2 DEF PositionIs
  <2>2. q = [side |-> p.side, quantity |-> p.quantity, cost |-> p.cost,
             current |-> price, swap |-> p.swap]
    BY <1>2, <2>1 DEF IsPosition
  <2>3. IsPosition(q) /\ q.side = p.side /\ q.quantity = p.quantity
    BY <2>1, <2>2 DEF IsPosition
  <2> QED BY <2>3 DEF PositionIs
<1> QED BY <1>1, <1>2

\* One pass over the list keeps the books, whatever the price.
LEMMA ExecuteKeeps ==
    ASSUME PaperInv, NEW price, NEW slip, ExecuteOrders(price, slip)
    PROVE  PaperInv'
<1> DEFINE n == Len(pendingOrders)
           start == [orders |-> orderBook, left |-> <<>>, position |-> paperPosition,
                     cash |-> balance, price |-> price, slip |-> slip]
           end == FoldLeft(TryFillOrder, start, pendingOrders)
<1>1. /\ n \in Nat /\ DOMAIN pendingOrders = 1..n
      /\ orderBook \in Seq(PaperOrder) /\ pendingOrders \in Seq(1..Len(orderBook))
  BY DEF PaperInv, BookOK
<1>2. /\ orderBook' = end.orders /\ pendingOrders' = end.left
      /\ paperPosition' = IF end.position = Flat THEN Flat
                          ELSE [end.position EXCEPT !.current = price]
  BY DEF ExecuteOrders
<1>3. Account(start, 0)
  <2>1. BookOK(orderBook, <<>>)
    BY <1>1 DEF BookOK
  <2> QED BY <2>1 DEF Account, PaperInv
<1> HIDE DEF start, n, end
<1>4. PICK st : /\ Fills!Steps(st, start, pendingOrders, n)
                /\ Fills!Fold(start, pendingOrders) = st[n]
  BY <1>1, Fills!FoldSteps, Zenon
<1>5. end = st[n]
  BY <1>4, FillsIsFold, Zenon DEF end
<1> DEFINE Wrong == {k \in 0..n : ~Account(st[k], k)}
<1>6. Wrong = {}
  <2>1. SUFFICES ASSUME Wrong # {} PROVE FALSE
    OBVIOUS
  <2>2. PICK m \in Wrong : \A k \in Wrong : m <= k
    <3>1. Wrong \in SUBSET Nat
      OBVIOUS
    <3> HIDE DEF Wrong
    <3> QED BY <2>1, <3>1, LeastNatural
  <2>3. m \in 0..n /\ ~Account(st[m], m)
    BY <2>2
  <2>4. m # 0
    BY <1>3, <1>4, <2>3, Zenon DEF Fills!Steps
  <2>5. m \in 1..n /\ m - 1 \in 0..n /\ ~(m <= m - 1)
    BY <1>1, <2>3, <2>4
  <2>6. Account(st[m - 1], m - 1)
    BY <2>2, <2>5, Zenon
  <2>7. st[m] = TryFillOrder(st[m - 1], pendingOrders[m])
    BY <1>4, <2>5, Zenon DEF Fills!Steps
  <2>8. Account(TryFillOrder(st[m - 1], pendingOrders[m]), m)
    BY <2>5, <2>6, TryStep, Zenon DEF n
  <2> QED BY <2>3, <2>7, <2>8, Zenon
<1>7. Account(end, n)
  <2>1. n \in 0..n
    BY <1>1
  <2> QED BY <1>5, <1>6, <2>1, Zenon
<1>8. BookOK(end.orders, end.left) /\ PositionIs(end.position, end.orders)
  BY <1>7, Zenon DEF Account
<1>9. PositionIs(paperPosition', end.orders)
  BY <1>2, <1>8, PriceKeepsUnits, Zenon
<1> QED BY <1>2, <1>8, <1>9, Zenon DEF PaperInv

\* A new order adds nothing, and is in the list at most once.
LEMMA SubmitKeeps ==
    ASSUME PaperInv, NEW side \in Directions, NEW type \in OrderTypes, NEW lots \in Nat,
           NEW level \in Levels, Submit(side, type, lots, level)
    PROVE  PaperInv'
<1> DEFINE n == Len(orderBook)
           m == Len(pendingOrders)
           o == [side |-> side, type |-> type, quantity |-> lots, level |-> level,
                 status |-> IF lots = 0 THEN "REJECTED" ELSE "SUBMITTED"]
<1>1. /\ orderBook \in Seq(PaperOrder) /\ pendingOrders \in Seq(1..n)
      /\ n \in Nat /\ m \in Nat /\ DOMAIN pendingOrders = 1..m
      /\ \A j \in 1..m : pendingOrders[j] \in 1..n
  BY DEF PaperInv, BookOK
<1>2. o \in PaperOrder /\ o.status # "FILLED" /\ (lots # 0 => Tryable(o))
  BY DEF PaperOrder, Ended, Tryable
<1>3. /\ orderBook' = Append(orderBook, o) /\ paperPosition' = paperPosition
      /\ pendingOrders' = IF lots = 0 THEN pendingOrders ELSE Append(pendingOrders, n + 1)
  BY DEF Submit
<1> HIDE DEF o
<1>4. PositionIs(paperPosition', orderBook')
  <2>1. FilledUnits(orderBook') = FilledUnits(orderBook)
    <3>1. FilledUnits(Append(orderBook, o)) = AddFill(FilledUnits(orderBook), o)
      BY <1>1, <1>2, FilledAppend
    <3> QED BY <1>2, <1>3, <3>1, Zenon DEF AddFill
  <2> QED BY <1>3, <2>1, Zenon DEF PaperInv, PositionIs
<1>5. /\ orderBook' \in Seq(PaperOrder) /\ Len(orderBook') = n + 1
      /\ orderBook'[n + 1] = o /\ \A k \in 1..n : orderBook'[k] = orderBook[k]
  BY <1>1, <1>2, <1>3
<1>6. /\ \A j, k \in 1..m : j # k => pendingOrders[j] # pendingOrders[k]
      /\ \A j \in 1..m : Tryable(orderBook'[pendingOrders[j]])
  <2>1. /\ \A j, k \in 1..m : j # k => pendingOrders[j] # pendingOrders[k]
        /\ \A j \in 1..m : Tryable(orderBook[pendingOrders[j]])
    BY <1>1, Zenon DEF PaperInv, BookOK
  <2> QED BY <1>1, <1>5, <2>1, Zenon
<1>7. CASE lots = 0
  <2>1. pendingOrders' = pendingOrders /\ pendingOrders' \in Seq(1..(n + 1))
    BY <1>1, <1>3, <1>7
  <2>2. BookOK(orderBook', pendingOrders')
    BY <1>1, <1>5, <1>6, <2>1, Zenon DEF BookOK
  <2> QED BY <1>4, <2>2, Zenon DEF PaperInv
<1>8. CASE lots # 0
  <2>1. /\ pendingOrders' \in Seq(1..(n + 1)) /\ DOMAIN pendingOrders' = 1..(m + 1)
        /\ pendingOrders'[m + 1] = n + 1
        /\ \A j \in 1..m : pendingOrders'[j] = pendingOrders[j]
    BY <1>1, <1>3, <1>8
  <2> HIDE DEF n, m
  <2>2. /\ \A j \in 1..(m + 1) : j = m + 1 \/ j \in 1..m
        /\ \A j \in 1..m : pendingOrders[j] # n + 1
    BY <1>1
  <2>3. \A j, k \in 1..(m + 1) : j # k => pendingOrders'[j] # pendingOrders'[k]
    BY <1>6, <2>1, <2>2
  <2>4. \A j \in 1..(m + 1) : Tryable(orderBook'[pendingOrders'[j]])
    BY <1>2, <1>5, <1>6, <1>8, <2>1, <2>2
  <2>5. BookOK(orderBook', pendingOrders')
    BY <1>5, <2>1, <2>3, <2>4, Zenon DEF BookOK
  <2> QED BY <1>4, <2>5, Zenon DEF PaperInv
<1> QED BY <1>7, <1>8

\* A list without its k-th element.
LEMMA RemovedAt ==
    ASSUME NEW S, NEW list \in Seq(S), NEW k \in DOMAIN list
    PROVE  /\ RemoveAt(list, k) \in Seq(S)
           /\ DOMAIN RemoveAt(list, k) = 1..(Len(list) - 1)
           /\ \A j \in 1..(Len(list) - 1) :
                  RemoveAt(list, k)[j] = list[IF j < k THEN j ELSE j + 1]
<1> DEFINE n == Len(list)
           front == SubSeq(list, 1, k - 1)
           back == SubSeq(list, k + 1, n)
<1>1. n \in Nat /\ k \in 1..n /\ DOMAIN list = 1..n
  OBVIOUS
<1>2. /\ front \in Seq(S) /\ Len(front) = k - 1
      /\ \A j \in 1..(k - 1) : front[j] = list[j]
  BY <1>1
<1>3. /\ back \in Seq(S) /\ Len(back) = n - k
      /\ \A j \in 1..(n - k) : back[j] = list[k + j]
  BY <1>1
<1>4. RemoveAt(list, k) = front \o back
  BY DEF RemoveAt
<1> HIDE DEF front, back, n
<1>5. /\ front \o back \in Seq(S) /\ DOMAIN (front \o back) = 1..(n - 1)
      /\ \A j \in 1..(n - 1) :
             (front \o back)[j] = IF j <= k - 1 THEN front[j] ELSE back[j - (k - 1)]
  BY <1>1, <1>2, <1>3
<1>6. ASSUME NEW j \in 1..(n - 1)
      PROVE  (front \o back)[j] = list[IF j < k THEN j ELSE j + 1]
  <2>1. CASE j < k
    BY <1>1, <1>2, <1>5, <2>1
  <2>2. CASE ~(j < k)
    <3>1. j - (k - 1) \in 1..(n - k) /\ k + (j - (k - 1)) = j + 1 /\ ~(j <= k - 1)
      BY <1>1, <2>2
    <3> QED BY <1>1, <1>3, <1>5, <2>2, <3>1
  <2> QED BY <2>1, <2>2
<1> QED BY <1>4, <1>5, <1>6 DEF n

\* A cancelled order adds nothing and leaves the list.
LEMMA CancelKeeps == ASSUME PaperInv, CancelOrder PROVE PaperInv'
<1>1. PICK k \in DOMAIN pendingOrders :
          /\ orderBook[pendingOrders[k]].status = "SUBMITTED"
          /\ orderBook' = [orderBook EXCEPT ![pendingOrders[k]].status = "CANCELLED"]
          /\ pendingOrders' = RemoveAt(pendingOrders, k)
          /\ paperPosition' = paperPosition
  BY Zenon DEF CancelOrder
<1> DEFINE i == pendingOrders[k]
           m == Len(pendingOrders)
<1>2. /\ orderBook \in Seq(PaperOrder) /\ pendingOrders \in Seq(1..Len(orderBook))
      /\ m \in Nat /\ DOMAIN pendingOrders = 1..m /\ k \in 1..m
      /\ \A j \in 1..m : pendingOrders[j] \in 1..Len(orderBook)
      /\ orderBook[i].status # "FILLED"
  BY <1>1 DEF PaperInv, BookOK
<1>3. PICK status \in {"CANCELLED", "REJECTED"} : status = "CANCELLED"
  OBVIOUS
<1>4. orderBook' = WithStatus(orderBook, i, status)
  BY <1>1, <1>3 DEF WithStatus
<1>5. i \in 1..Len(orderBook)
  BY <1>2
<1> HIDE DEF i
<1>6. /\ orderBook' \in Seq(PaperOrder) /\ Len(orderBook') = Len(orderBook)
      /\ \A j \in 1..Len(orderBook) : j # i => orderBook'[j] = orderBook[j]
      /\ FilledUnits(orderBook') = FilledUnits(orderBook)
  <2>1. PICK ledger : ledger = orderBook
    OBVIOUS
  <2>2. PICK after : after = orderBook'
    OBVIOUS
  <2>3. /\ ledger \in Seq(PaperOrder) /\ i \in 1..Len(ledger) /\ ledger[i].status # "FILLED"
        /\ after = WithStatus(ledger, i, status)
    BY <1>2, <1>4, <1>5, <2>1, <2>2
  <2>4. /\ after \in Seq(PaperOrder) /\ Len(after) = Len(ledger)
        /\ \A j \in 1..Len(ledger) : j # i => after[j] = ledger[j]
        /\ FilledUnits(after) = FilledUnits(ledger)
    BY <2>3, NotCounted
  <2> QED BY <2>1, <2>2, <2>4
<1>7. PositionIs(paperPosition', orderBook')
  BY <1>1, <1>6, Zenon DEF PaperInv, PositionIs
<1>8. /\ \A j, l \in 1..m : j # l => pendingOrders[j] # pendingOrders[l]
      /\ \A j \in 1..m : Tryable(orderBook[pendingOrders[j]])
  BY <1>2, Zenon DEF PaperInv, BookOK
<1> DEFINE at(j) == IF j < k THEN j ELSE j + 1
<1>9. /\ pendingOrders' \in Seq(1..Len(orderBook)) /\ DOMAIN pendingOrders' = 1..(m - 1)
      /\ \A j \in 1..(m - 1) : pendingOrders'[j] = pendingOrders[at(j)]
  BY <1>1, <1>2, RemovedAt
<1>10. \A j \in 1..(m - 1) : at(j) \in 1..m /\ at(j) # k
  BY <1>2
<1>11. \A j, l \in 1..(m - 1) : j # l => at(j) # at(l)
  BY <1>2, SMTT(30)
<1> HIDE DEF m, at
<1>12. \A j, l \in 1..(m - 1) : j # l => pendingOrders'[j] # pendingOrders'[l]
  BY <1>8, <1>9, <1>10, <1>11, Zenon
<1>13. \A j \in 1..(m - 1) : Tryable(orderBook'[pendingOrders'[j]])
  <2>1. SUFFICES ASSUME NEW j \in 1..(m - 1) PROVE Tryable(orderBook'[pendingOrders'[j]])
    BY Zenon
  <2>2. pendingOrders'[j] = pendingOrders[at(j)] /\ at(j) \in 1..m /\ at(j) # k
    BY <1>9, <1>10, Zenon
  <2>3. pendingOrders[at(j)] # i /\ pendingOrders[at(j)] \in 1..Len(orderBook)
    BY <1>2, <1>8, <2>2, Zenon DEF i
  <2> QED BY <1>6, <1>8, <2>2, <2>3, Zenon
<1>14. BookOK(orderBook', pendingOrders')
  BY <1>6, <1>9, <1>12, <1>13, Zenon DEF BookOK
<1> QED BY <1>7, <1>14, Zenon DEF PaperInv

\* The empty book of a new simulator satisfies it.
LEMMA PaperInitInv == PaperInit => PaperInv
<1> SUFFICES ASSUME PaperInit PROVE PaperInv
  OBVIOUS
<1>1. BookOK(<<>>, <<>>)
  BY DEF BookOK
<1>2. PositionIs(Flat, <<>>)
  BY FlatUnits, FilledNothing DEF PositionIs
<1> QED BY <1>1, <1>2 DEF PaperInit, PaperInv

\* Every operation keeps it.
LEMMA PaperStep == PaperInv /\ [PaperNext]_paperVars => PaperInv'
<1> SUFFICES ASSUME PaperInv, [PaperNext]_paperVars PROVE PaperInv'
  OBVIOUS
<1>1. CASE SubmitOrder
  <2>1. PICK side \in {"BUY", "SELL"}, type \in OrderTypes, lots \in Lots,
             level \in PaperPrices : Submit(side, type, lots, level)
    BY <1>1 DEF SubmitOrder
  <2>2. side \in Directions /\ lots \in Nat /\ level \in Levels
    BY PaperAssumption DEF Directions, Levels
  <2> QED BY <2>1, <2>2, SubmitKeeps
<1>2. CASE SubmitClose
  <2> DEFINE side == Opposite[paperPosition.side]
             lots == paperPosition.quantity
             level == CHOOSE p \in PaperPrices : TRUE
  <2>1. Submit(side, "MARKET", lots, level) /\ paperPosition # Flat
    BY <1>2 DEF SubmitClose
  <2>2. IsPosition(paperPosition)
    BY <2>1 DEF PaperInv, PositionIs
  <2>3. side \in Directions /\ lots \in Nat /\ level \in Levels /\ "MARKET" \in OrderTypes
    BY <2>2 DEF IsPosition, Directions, Opposite, Levels, OrderTypes
  <2> HIDE DEF side, lots, level
  <2> QED BY <2>1, <2>3, SubmitKeeps
<1>3. CASE CancelOrder
  BY <1>3, CancelKeeps
<1>4. CASE PriceUpdate
  BY <1>4, ExecuteKeeps DEF PriceUpdate
<1>5. CASE AccrueSwap
  <2> DEFINE more == paperPosition.swap
                       + Signed(paperPosition.side, SwapRate * paperPosition.quantity)
  <2>1. /\ paperPosition # Flat /\ orderBook' = orderBook /\ pendingOrders' = pendingOrders
        /\ paperPosition' = [paperPosition EXCEPT !.swap = more]
    BY <1>5 DEF AccrueSwap
  <2> HIDE DEF more
  <2>2. IsPosition(paperPosition)
    BY <2>1 DEF PaperInv, PositionIs
  <2>3. paperPosition' = [side |-> paperPosition.side, quantity |-> paperPosition.quantity,
                          cost |-> paperPosition.cost, current |-> paperPosition.current,
                          swap |-> more]
    BY <2>1, <2>2 DEF IsPosition
  <2>4. /\ IsPosition(paperPosition') /\ paperPosition'.side = paperPosition.side
        /\ paperPosition'.quantity = paperPosition.quantity
    BY <2>2, <2>3 DEF IsPosition
  <2> QED BY <2>1, <2>4, Zenon DEF PaperInv, PositionIs
<1>6. CASE UNCHANGED paperVars
  BY <1>6, Zenon DEF PaperInv, paperVars
<1> QED BY <1>1, <1>2, <1>3, <1>4, <1>5, <1>6 DEF PaperNext

\* It says what the property says.
LEMMA PaperInvSays == PaperInv => NetPositionIsFills
<1> SUFFICES ASSUME PaperInv PROVE NetPositionIsFills
  OBVIOUS
<1>1. Signed(paperPosition.side, paperPosition.quantity) = FoldLeft(AddFill, 0, orderBook)
  BY Zenon DEF PaperInv, PositionIs, FilledUnits
<1>2. \A i \in ToSet(pendingOrders) : orderBook[i].status \notin {"FILLED", "CANCELLED"}
  BY Zenon DEF PaperInv, BookOK, ToSet, Tryable
<1> QED BY <1>1, <1>2, Zenon DEF NetPositionIsFills

\* The position of the paper broker is at all times the sum of its filled
\* orders, whatever the prices, sizes, types and levels of the orders and
\* however long the list that one price update walks through; and an order that
\* was filled or cancelled has left the list, so none fills twice.
THEOREM NetPositionKept == PaperSpec => []NetPositionIsFills
<1>1. PaperSpec => []PaperInv
  BY PaperInitInv, PaperStep, PTL DEF PaperSpec
<1> QED BY <1>1, PaperInvSays, PTL

-----------------------------------------------------------------------------
(* The reports.  A walk along a curve is right about the samples it has    *)
(* seen: which drawdown is open, and which have ended.                     *)

\* The samples at which a drawdown begins.
Begins(c) == {i \in DOMAIN c : Underwater(c, i) /\ (i = 1 \/ ~Underwater(c, i - 1))}

\* The first sample at a new high from sample i on, or the last sample.
EndFrom(c, i) == Min({Len(c)} \cup {j \in i..Len(c) : ~Underwater(c, j)})

SpanFrom(c, i) == c[EndFrom(c, i)].day - c[i].day

\* Those that ended within the first k samples.
EndedBy(c, k) == {i \in Begins(c) : \E j \in i..k : ~Underwater(c, j)}

\* What the walk has noted of some drawdowns.
Notes(c, w, ended) ==
    /\ w.spans \in Seq(Int) /\ Range(w.spans) = {SpanFrom(c, i) : i \in ended}
    /\ (\E S : w.events \in Seq(S)) /\ Len(w.events) = Cardinality(ended)

\* The drawdown that is open after k samples, 0 if none is.
OpenAfter(c, start, k) ==
    IF start = 0 THEN k = 0 \/ ~Underwater(c, k)
    ELSE start \in Begins(c) /\ start <= k /\ \A j \in start..k : Underwater(c, j)

\* Under way the walk has noted what ended so far, at its end everything.
WalkRight(c, w) ==
    /\ DOMAIN w = {"next", "start", "spans", "events"}
    /\ \/ /\ w.next \in 1..(Len(c) + 1)
          /\ OpenAfter(c, w.start, w.next - 1)
          /\ Notes(c, w, EndedBy(c, w.next - 1))
       \/ w.next = Len(c) + 2 /\ Notes(c, w, Begins(c))

\* Every sample of a curve is of one of its days.
IsCurve(c) ==
    /\ Len(c) \in Nat /\ DOMAIN c = 1..Len(c)
    /\ \A i \in DOMAIN c : c[i].day \in 1..CurveDays

Sample == [day : 1..CurveDays, equity : Int]

\* What trade k has paid by the close of day n, and whether it is held then.
PaidBy(k, n) ==
    IF k \in DOMAIN dealt /\ dealt[k].exit <= n THEN dealt[k].pnl + dealt[k].swap ELSE 0

HeldAt(k, n) == dealt[k].entry <= n /\ n < dealt[k].exit

\* After n days the rebuilt account holds the trade of that day and has been
\* paid by those that were closed.
RebuiltRight(r, n) ==
    /\ DOMAIN r = {"cash", "holding", "equity"}
    /\ r.holding \in {0} \cup DOMAIN dealt
    /\ \A k \in DOMAIN dealt : r.holding = k <=> HeldAt(k, n)
    /\ r.cash = PortfolioCapital + PaidBy(1, n) + PaidBy(2, n)
    /\ r.equity \in Int /\ (r.holding = 0 => r.equity = r.cash)

\* The curve is the one that the study builds.
CurveRight ==
    \/ study = "portfolio" /\ curve \in {<<>>, LoadFromMultiPair(streams)}
    \/ /\ study = "stress" /\ dealt \in TradeLists /\ curve \in Seq(Sample)
       /\ Len(curve) <= CurveDays /\ RebuiltRight(rebuilt, Len(curve))
       /\ \A i \in DOMAIN curve : curve[i].day = i
       /\ curve # <<>> => curve[Len(curve)].equity = rebuilt.equity

SuiteRight ==
    /\ DOMAIN verdicts # {} => Built /\ Walked(curve, walk)
    /\ "max_dd_duration" \in DOMAIN verdicts =>
           verdicts["max_dd_duration"] = (MaxDuration(walk) < DurationLimit)

ReportsInv ==
    /\ study = "portfolio" => \A p \in TwoPairs : DOMAIN streams[p] \subseteq 1..CurveDays
    /\ IsCurve(curve) /\ CurveRight
    /\ WalkRight(curve, walk) /\ (~Built => walk = StartOfWalk)
    /\ SuiteRight

-----------------------------------------------------------------------------
\* The days and samples of a curve.
LEMMA CurveShape ==
    ASSUME NEW c, IsCurve(c)
    PROVE  /\ Len(c) \in Nat /\ DOMAIN c = 1..Len(c)
           /\ \A i \in DOMAIN c : c[i].day \in 1..CurveDays
  BY DEF IsCurve

\* A drawdown ends at a sample of the curve, not before it began; where it ends
\* follows from the samples up to there.
LEMMA EndOfDrawdown ==
    ASSUME NEW c, IsCurve(c), NEW i \in DOMAIN c
    PROVE  /\ EndFrom(c, i) \in i..Len(c)
           /\ \A k \in i..Len(c) :
                 ~Underwater(c, k) /\ (\A j \in i..k : j # k => Underwater(c, j))
                     => EndFrom(c, i) = k
           /\ (\A j \in i..Len(c) : Underwater(c, j)) => EndFrom(c, i) = Len(c)
<1>0. Len(c) \in Nat /\ i \in 1..Len(c)
  BY CurveShape
<1> DEFINE ends == {Len(c)} \cup {j \in i..Len(c) : ~Underwater(c, j)}
<1>1. ends \in SUBSET Int /\ ends # {} /\ i \in Int /\ \A j \in ends : i <= j
  BY <1>0
<1>2. Min(ends) \in ends /\ \A j \in ends : Min(ends) <= j
  <2> HIDE DEF ends
  <2> QED BY <1>1, MinIsSmallest
<1>3. PICK e : e = EndFrom(c, i)
  OBVIOUS
<1>4. e \in ends /\ \A j \in ends : e <= j
  BY <1>2, <1>3 DEF EndFrom
<1>5. e \in i..Len(c)
  BY <1>0, <1>4
<1>6. ASSUME NEW k \in i..Len(c), ~Underwater(c, k),
             \A j \in i..k : j # k => Underwater(c, j)
      PROVE  e = k
  <2>1. k \in ends
    BY <1>6
  <2>2. e <= k
    BY <1>4, <2>1
  <2>3. e \in i..k
    BY <1>0, <1>5, <2>2
  <2>4. CASE e = Len(c)
    BY <1>0, <2>2, <2>4
  <2>5. CASE ~Underwater(c, e)
    BY <1>6, <2>3, <2>5
  <2> QED BY <1>4, <2>4, <2>5
<1>7. ASSUME \A j \in i..Len(c) : Underwater(c, j) PROVE e = Len(c)
  BY <1>4, <1>7
<1> QED BY <1>3, <1>5, <1>6, <1>7

\* The drawdowns of a curve are finitely many.
LEMMA BeginsFinite ==
    ASSUME NEW c, IsCurve(c)
    PROVE  /\ IsFiniteSet(Begins(c))
           /\ \A k : EndedBy(c, k) \subseteq Begins(c) /\ IsFiniteSet(EndedBy(c, k))
                     /\ Cardinality(EndedBy(c, k)) \in Nat
<1>1. IsFiniteSet(1..Len(c)) /\ Begins(c) \in SUBSET (1..Len(c))
  <2>1. Len(c) \in Nat /\ Begins(c) \in SUBSET (1..Len(c))
    BY CurveShape DEF Begins
  <2> QED BY <2>1, FS_Interval
<1>2. IsFiniteSet(Begins(c))
  BY <1>1, FS_Subset
<1>3. ASSUME NEW k PROVE EndedBy(c, k) \in SUBSET Begins(c)
  BY DEF EndedBy
<1>4. ASSUME NEW k PROVE IsFiniteSet(EndedBy(c, k)) /\ Cardinality(EndedBy(c, k)) \in Nat
  BY <1>2, <1>3, FS_Subset, FS_CardinalityType
<1> QED BY <1>2, <1>3, <1>4

\* Two drawdowns never overlap: one that is open began where the other did.
LEMMA OneIsOpen ==
    ASSUME NEW c, IsCurve(c), NEW f \in Begins(c), NEW s \in Begins(c), NEW k \in Int,
           f <= k, s <= k, \A j \in f..k : Underwater(c, j),
           \A j \in s..k : Underwater(c, j)
    PROVE  f = s
<1>1. f \in Nat /\ s \in Nat /\ f >= 1 /\ s >= 1
  BY CurveShape DEF Begins
<1>2. ASSUME f < s PROVE FALSE
  <2>1. s - 1 \in f..k /\ s # 1
    BY <1>1, <1>2
  <2> QED BY <2>1 DEF Begins
<1>3. ASSUME s < f PROVE FALSE
  <2>1. f - 1 \in s..k /\ f # 1
    BY <1>1, <1>3
  <2> QED BY <2>1 DEF Begins
<1> QED BY <1>1, <1>2, <1>3

\* One drawdown more in the notes of a walk.
LEMMA OneMoreNote ==
    ASSUME NEW c, IsCurve(c), NEW w, NEW v, NEW ended, Notes(c, w, ended),
           IsFiniteSet(ended), NEW s, s \notin ended, NEW length,
           SpanFrom(c, s) \in Int,
           v.spans = Append(w.spans, SpanFrom(c, s)), v.events = Append(w.events, length)
    PROVE  Notes(c, v, ended \cup {s})
<1>1. PICK sp : sp = w.spans
  OBVIOUS
<1>2. PICK x \in Int : x = SpanFrom(c, s)
  OBVIOUS
<1>3. sp \in Seq(Int) /\ Range(sp) = {SpanFrom(c, i) : i \in ended}
  BY <1>1 DEF Notes
<1>4. /\ Append(sp, x) \in Seq(Int) /\ DOMAIN Append(sp, x) = 1..(Len(sp) + 1)
      /\ DOMAIN sp = 1..Len(sp) /\ Len(sp) \in Nat
      /\ \A i \in 1..Len(sp) : Append(sp, x)[i] = sp[i]
      /\ Append(sp, x)[Len(sp) + 1] = x
  BY <1>3
<1>5. \A i : i \in 1..(Len(sp) + 1) <=> i \in 1..Len(sp) \/ i = Len(sp) + 1
  BY <1>4
<1>6. Range(Append(sp, x)) = Range(sp) \cup {x}
  BY <1>4, <1>5, Zenon DEF Range
<1>7. Range(Append(sp, x)) = {SpanFrom(c, i) : i \in ended \cup {s}}
  BY <1>2, <1>3, <1>6
<1>8. PICK ev : ev = w.events
  OBVIOUS
<1>9. (\E S : ev \in Seq(S)) /\ Len(ev) = Cardinality(ended)
  BY <1>8 DEF Notes
<1>10. /\ \E S : Append(ev, length) \in Seq(S)
       /\ Len(Append(ev, length)) = Cardinality(ended) + 1
  <2>1. PICK S : ev \in Seq(S)
    BY <1>9
  <2>2. ev \in Seq(S \cup {length}) /\ length \in S \cup {length}
    BY <2>1
  <2>3. Append(ev, length) \in Seq(S \cup {length}) /\ Len(Append(ev, length)) = Len(ev) + 1
    BY <2>2
  <2> QED BY <1>9, <2>3
<1>11. Cardinality(ended \cup {s}) = Cardinality(ended) + 1
  BY FS_AddElement
<1> QED BY <1>1, <1>2, <1>4, <1>7, <1>8, <1>10, <1>11 DEF Notes

\* What a walk has noted does not depend on its counters.
LEMMA SameNotes ==
    ASSUME NEW c, NEW w, NEW v, NEW ended, Notes(c, w, ended),
           v.spans = w.spans, v.events = w.events
    PROVE  Notes(c, v, ended)
  BY Zenon DEF Notes

\* A walk that has seen nothing is right.
LEMMA WalkStarts ==
    ASSUME NEW c, IsCurve(c)
    PROVE  WalkRight(c, StartOfWalk)
<1>1. Len(c) \in Nat /\ 1 \in 1..(Len(c) + 1)
  BY CurveShape
<1>2. EndedBy(c, 0) = {}
  <2>1. \A i \in Begins(c) : i \in 1..Len(c)
    BY CurveShape DEF Begins
  <2>2. \A i \in Begins(c) : i..0 = {}
    BY <1>1, <2>1
  <2> QED BY <2>2 DEF EndedBy
<1>3. Notes(c, StartOfWalk, {})
  <2>1. <<>> \in Seq(Int) /\ Len(<<>>) = 0 /\ Range(<<>>) = {}
    BY DEF Range
  <2>2. Cardinality({}) = 0 /\ {SpanFrom(c, i) : i \in {}} = {}
    BY FS_EmptySet
  <2>3. StartOfWalk.spans = <<>> /\ StartOfWalk.events = <<>>
    BY DEF StartOfWalk
  <2> QED BY <2>1, <2>2, <2>3 DEF Notes
<1>4. OpenAfter(c, 0, 0)
  BY DEF OpenAfter
<1>5. StartOfWalk.next = 1 /\ StartOfWalk.start = 0
      /\ DOMAIN StartOfWalk = {"next", "start", "spans", "events"}
  BY DEF StartOfWalk
<1>6. StartOfWalk.next - 1 = 0
  BY <1>5
<1> HIDE DEF StartOfWalk
<1> QED BY <1>1, <1>2, <1>3, <1>4, <1>5, <1>6 DEF WalkRight

\* What ended by sample i, which is the next: nothing new while it is under
\* water or no drawdown was open, else the one that was.
LEMMA EndedAtSample ==
    ASSUME NEW c, IsCurve(c), NEW i \in 1..Len(c), NEW s, OpenAfter(c, s, i - 1)
    PROVE  EndedBy(c, i) = IF ~Underwater(c, i) /\ s # 0
                           THEN EndedBy(c, i - 1) \cup {s} ELSE EndedBy(c, i - 1)
<1>0. i \in Nat /\ Len(c) \in Nat /\ \A f \in Begins(c) : f \in 1..Len(c)
  BY CurveShape DEF Begins
<1>1. EndedBy(c, i - 1) \subseteq EndedBy(c, i)
  <2>1. ASSUME NEW f \in Begins(c), NEW j \in f..(i - 1) PROVE j \in f..i
    BY <1>0
  <2> QED BY <2>1 DEF EndedBy
<1>2. ASSUME NEW f \in EndedBy(c, i), f \notin EndedBy(c, i - 1)
      PROVE  ~Underwater(c, i) /\ f <= i - 1 /\ \A j \in f..(i - 1) : Underwater(c, j)
  <2>1. f \in Begins(c) /\ f \in Nat /\ Underwater(c, f)
    BY <1>0, <1>2 DEF EndedBy, Begins
  <2>2. PICK j \in f..i : ~Underwater(c, j)
    BY <1>2 DEF EndedBy
  <2>3. \A l \in f..(i - 1) : Underwater(c, l)
    BY <1>2, <2>1 DEF EndedBy
  <2>4. j = i
    BY <1>0, <2>1, <2>2, <2>3
  <2>5. f # i
    BY <2>1, <2>2, <2>4
  <2> QED BY <1>0, <2>1, <2>2, <2>3, <2>4, <2>5
<1>3. CASE s = 0
  <2>1. i - 1 = 0 \/ ~Underwater(c, i - 1)
    BY <1>3 DEF OpenAfter
  <2>2. ASSUME NEW f \in EndedBy(c, i), f \notin EndedBy(c, i - 1) PROVE FALSE
    <3>1. f <= i - 1 /\ f \in 1..Len(c) /\ \A j \in f..(i - 1) : Underwater(c, j)
      BY <1>0, <1>2, <2>2 DEF EndedBy
    <3>2. i - 1 \in f..(i - 1) /\ i - 1 # 0
      BY <1>0, <3>1
    <3> QED BY <2>1, <3>1, <3>2
  <2> QED BY <1>1, <1>3, <2>2
<1>4. CASE s # 0
  <2>1. s \in Begins(c) /\ s <= i - 1 /\ \A j \in s..(i - 1) : Underwater(c, j)
    BY <1>4 DEF OpenAfter
  <2>2. ASSUME NEW f \in EndedBy(c, i), f \notin EndedBy(c, i - 1)
        PROVE  f = s /\ ~Underwater(c, i)
    <3>1. f \in Begins(c) /\ i - 1 \in Int
      BY <1>0, <2>2 DEF EndedBy
    <3> QED BY <1>2, <2>1, <2>2, <3>1, OneIsOpen
  <2>3. CASE Underwater(c, i)
    BY <1>1, <2>2, <2>3
  <2>4. CASE ~Underwater(c, i)
    <3>1. i \in s..i
      BY <1>0, <2>1
    <3>2. s \in EndedBy(c, i)
      BY <2>1, <2>4, <3>1 DEF EndedBy
    <3> QED BY <1>1, <1>4, <2>2, <2>4, <3>2
  <2> QED BY <2>3, <2>4
<1> QED BY <1>3, <1>4

\* An open drawdown has not ended.
LEMMA OpenHasNotEnded ==
    ASSUME NEW c, NEW k, NEW s, s # 0, OpenAfter(c, s, k)
    PROVE  s \notin EndedBy(c, k)
  BY DEF OpenAfter, EndedBy

\* The length of a drawdown is a number of days.
LEMMA SpanInDays ==
    ASSUME NEW c, IsCurve(c), NEW i \in Begins(c)
    PROVE  SpanFrom(c, i) \in Int /\ SpanFrom(c, i) <= CurveDays
<1>1. i \in DOMAIN c
  BY DEF Begins
<1>2. EndFrom(c, i) \in DOMAIN c
  <2>1. EndFrom(c, i) \in i..Len(c) /\ i \in 1..Len(c) /\ Len(c) \in Nat
    BY <1>1, CurveShape, EndOfDrawdown
  <2>2. EndFrom(c, i) \in 1..Len(c)
    BY <2>1
  <2> QED BY <2>2, CurveShape
<1>3. PICK a \in 1..CurveDays : a = c[EndFrom(c, i)].day
  BY <1>2, CurveShape
<1>4. PICK b \in 1..CurveDays : b = c[i].day
  BY <1>1, CurveShape
<1>5. SpanFrom(c, i) = a - b
  BY <1>3, <1>4 DEF SpanFrom
<1> QED BY <1>5, RobustnessAssumption DEF RobustnessAssumption

\* One sample keeps the walk right.
LEMMA SampleStep ==
    ASSUME NEW c, IsCurve(c), NEW w, WalkRight(c, w), w.next <= Len(c)
    PROVE  WalkRight(c, WalkSample(c, w))
<1>0. Len(c) \in Nat
  BY CurveShape
<1>1. PICK i : i = w.next
  OBVIOUS
<1>2. PICK s : s = w.start
  OBVIOUS
<1>3. PICK v : v = WalkSample(c, w)
  OBVIOUS
<1>4. /\ i \in 1..Len(c) /\ OpenAfter(c, s, i - 1) /\ Notes(c, w, EndedBy(c, i - 1))
      /\ DOMAIN w = {"next", "start", "spans", "events"}
  <2>1. w.next # Len(c) + 2
    BY <1>0
  <2> QED BY <1>0, <1>1, <1>2, <2>1 DEF WalkRight
<1>5. v.next = i + 1 /\ DOMAIN v = {"next", "start", "spans", "events"}
  BY <1>1, <1>3, <1>4 DEF WalkSample, SpanEnded
<1>6. v.next \in 1..(Len(c) + 1) /\ v.next - 1 = i
  BY <1>0, <1>4, <1>5
<1>7. SUFFICES OpenAfter(c, v.start, i) /\ Notes(c, v, EndedBy(c, i))
  <2> SUFFICES ASSUME OpenAfter(c, v.start, i), Notes(c, v, EndedBy(c, i))
               PROVE  WalkRight(c, v)
    BY <1>3
  <2>1. OpenAfter(c, v.start, v.next - 1) /\ Notes(c, v, EndedBy(c, v.next - 1))
    BY <1>6
  <2> QED BY <1>5, <1>6, <2>1 DEF WalkRight
<1>8. CASE Underwater(c, i) /\ s = 0
  <2>1. v.start = i /\ v.spans = w.spans /\ v.events = w.events
    BY <1>1, <1>2, <1>3, <1>4, <1>8 DEF WalkSample
  <2>2. i \in Begins(c)
    <3>1. i = 1 \/ ~Underwater(c, i - 1)
      BY <1>4, <1>8 DEF OpenAfter
    <3>2. i \in DOMAIN c
      BY <1>4, CurveShape
    <3> QED BY <1>8, <3>1, <3>2 DEF Begins
  <2>3. OpenAfter(c, i, i)
    <3>1. i # 0 /\ i <= i /\ \A j \in i..i : j = i
      BY <1>4
    <3> QED BY <1>8, <2>2, <3>1 DEF OpenAfter
  <2>4. EndedBy(c, i) = EndedBy(c, i - 1)
    BY <1>4, <1>8, EndedAtSample
  <2> QED BY <1>4, <2>1, <2>3, <2>4, SameNotes
<1>9. CASE ~Underwater(c, i) /\ s # 0
  <2>1. PICK x : x = i - Trough(c, s, i - 1)
    OBVIOUS
  <2>2. /\ v.start = 0 /\ v.spans = Append(w.spans, c[i].day - c[s].day)
        /\ v.events = Append(w.events, x)
    BY <1>1, <1>2, <1>3, <1>4, <1>9, <2>1 DEF WalkSample, SpanEnded
  <2>3. s \in Begins(c) /\ s <= i - 1 /\ \A j \in s..(i - 1) : Underwater(c, j)
    BY <1>4, <1>9 DEF OpenAfter
  <2>4. s \in Nat /\ s \in DOMAIN c
    BY <2>3, CurveShape DEF Begins
  <2>5. EndFrom(c, s) = i
    <3>1. i \in s..Len(c) /\ \A j \in s..i : j # i => Underwater(c, j)
      BY <1>4, <2>3, <2>4
    <3> QED BY <1>9, <2>4, <3>1, EndOfDrawdown
  <2>6. v.spans = Append(w.spans, SpanFrom(c, s)) /\ SpanFrom(c, s) \in Int
    BY <2>2, <2>3, <2>5, SpanInDays DEF SpanFrom
  <2>7. s \notin EndedBy(c, i - 1) /\ IsFiniteSet(EndedBy(c, i - 1))
    BY <1>4, <1>9, OpenHasNotEnded, BeginsFinite
  <2>8. EndedBy(c, i) = EndedBy(c, i - 1) \cup {s}
    BY <1>4, <1>9, EndedAtSample
  <2>9. Notes(c, v, EndedBy(c, i - 1) \cup {s})
    BY <1>4, <2>2, <2>6, <2>7, OneMoreNote
  <2>10. OpenAfter(c, 0, i)
    BY <1>9 DEF OpenAfter
  <2> QED BY <2>2, <2>8, <2>9, <2>10
<1>10. CASE Underwater(c, i) <=> s # 0
  <2>1. v.start = s /\ v.spans = w.spans /\ v.events = w.events
    BY <1>1, <1>2, <1>3, <1>4, <1>10 DEF WalkSample
  <2>2. EndedBy(c, i) = EndedBy(c, i - 1)
    BY <1>4, <1>10, EndedAtSample
  <2>3. OpenAfter(c, s, i)
    <3>1. CASE s = 0
      BY <1>10, <3>1 DEF OpenAfter
    <3>2. CASE s # 0
      <4>1. s \in Begins(c) /\ s <= i - 1 /\ \A j \in s..(i - 1) : Underwater(c, j)
        BY <1>4, <3>2 DEF OpenAfter
      <4>2. s \in Nat
        BY <4>1, CurveShape DEF Begins
      <4>3. s <= i /\ \A j \in s..i : j \in s..(i - 1) \/ j = i
        BY <1>4, <4>1, <4>2
      <4> QED BY <1>10, <3>2, <4>1, <4>3 DEF OpenAfter
    <3> QED BY <3>1, <3>2
  <2> QED BY <1>4, <2>1, <2>2, <2>3, SameNotes
<1> QED BY <1>8, <1>9, <1>10

\* The end of the walk counts what is still open, and then nothing is missing.
LEMMA FinishStep ==
    ASSUME NEW c, IsCurve(c), NEW w, WalkRight(c, w), w.next = Len(c) + 1
    PROVE  WalkRight(c, FinishWalk(c, w)) /\ Walked(c, FinishWalk(c, w))
<1>0. Len(c) \in Nat
  BY CurveShape
<1>1. PICK s : s = w.start
  OBVIOUS
<1>2. PICK v : v = FinishWalk(c, w)
  OBVIOUS
<1>3. PICK n \in Nat : n = Len(c)
  BY <1>0
<1>4. /\ OpenAfter(c, s, n) /\ Notes(c, w, EndedBy(c, n))
      /\ DOMAIN w = {"next", "start", "spans", "events"}
  <2>1. w.next # Len(c) + 2 /\ w.next - 1 = n
    BY <1>0, <1>3
  <2> QED BY <1>1, <1>3, <2>1 DEF WalkRight
<1>5. v.next = n + 2 /\ DOMAIN v = {"next", "start", "spans", "events"}
  BY <1>2, <1>3, <1>4 DEF FinishWalk, Ongoing
<1>6. SUFFICES Notes(c, v, Begins(c))
  BY <1>2, <1>3, <1>5 DEF WalkRight, Walked
<1>7. \A f \in Begins(c) : f \in 1..n
  BY <1>3, CurveShape DEF Begins
<1>8. CASE s = 0
  <2>1. v.spans = w.spans /\ v.events = w.events
    BY <1>1, <1>2, <1>4, <1>8 DEF FinishWalk
  <2>2. EndedBy(c, n) = Begins(c)
    <3>1. ASSUME NEW f \in Begins(c) PROVE \E j \in f..n : ~Underwater(c, j)
      <4>1. n \in f..n /\ n # 0
        BY <1>7
      <4> QED BY <1>4, <1>8, <4>1 DEF OpenAfter
    <3> QED BY <3>1 DEF EndedBy
  <2> QED BY <1>4, <2>1, <2>2, SameNotes
<1>9. CASE s # 0
  <2>1. PICK x : x = Len(c) - Trough(c, s, Len(c)) + 1
    OBVIOUS
  <2>2. /\ v.spans = Append(w.spans, c[n].day - c[s].day)
        /\ v.events = Append(w.events, x)
    BY <1>1, <1>2, <1>3, <1>4, <1>9, <2>1 DEF FinishWalk, Ongoing
  <2>3. s \in Begins(c) /\ s <= n /\ \A j \in s..n : Underwater(c, j)
    BY <1>4, <1>9 DEF OpenAfter
  <2>4. EndFrom(c, s) = n
    <3>1. s \in DOMAIN c
      BY <2>3 DEF Begins
    <3> QED BY <1>3, <2>3, <3>1, EndOfDrawdown
  <2>5. v.spans = Append(w.spans, SpanFrom(c, s)) /\ SpanFrom(c, s) \in Int
    BY <2>2, <2>3, <2>4, SpanInDays DEF SpanFrom
  <2>6. s \notin EndedBy(c, n) /\ IsFiniteSet(EndedBy(c, n))
    BY <1>4, <1>9, OpenHasNotEnded, BeginsFinite
  <2>7. EndedBy(c, n) \cup {s} = Begins(c)
    <3>1. ASSUME NEW f \in Begins(c), f \notin EndedBy(c, n) PROVE f = s
      <4>1. f <= n /\ n \in Int /\ \A j \in f..n : Underwater(c, j)
        BY <1>7, <3>1 DEF EndedBy
      <4> QED BY <2>3, <4>1, OneIsOpen
    <3> QED BY <2>3, <3>1 DEF EndedBy
  <2>8. Notes(c, v, EndedBy(c, n) \cup {s})
    BY <1>4, <2>2, <2>5, <2>6, OneMoreNote
  <2> QED BY <2>7, <2>8
<1> QED BY <1>8, <1>9

\* The longest span of a walk that is finished.
LEMMA LongestOfWalk ==
    ASSUME NEW c, IsCurve(c), NEW w, WalkRight(c, w), Walked(c, w),
           NEW spans, spans = {SpanFrom(c, i) : i \in Begins(c)}
    PROVE  /\ MaxDuration(w) = Max({0} \cup spans)
           /\ Len(w.events) = Cardinality(Begins(c))
           /\ MaxDuration(w) < DurationLimit <=> \A n \in spans : n < DurationLimit
<1>0. Len(c) \in Nat /\ CurveDays \in Nat /\ DurationLimit \in Nat /\ DurationLimit > 0
  BY CurveShape, RobustnessAssumption DEF RobustnessAssumption
<1>1. Notes(c, w, Begins(c))
  <2>1. w.next \notin 1..(Len(c) + 1)
    BY <1>0 DEF Walked
  <2> QED BY <2>1 DEF WalkRight
<1>2. Range(w.spans) = spans /\ Len(w.events) = Cardinality(Begins(c))
  BY <1>1 DEF Notes
<1>3. \A n \in spans : n \in Int /\ n <= CurveDays
  BY SpanInDays
<1> DEFINE all == {0} \cup spans
<1>4. all \in SUBSET Int /\ all # {} /\ CurveDays \in Int /\ \A n \in all : n <= CurveDays
  BY <1>0, <1>3
<1>5. Max(all) \in all /\ \A n \in all : n <= Max(all)
  <2> HIDE DEF all
  <2> QED BY <1>4, MaxIsLargest
<1>6. PICK m : m = Max(all)
  OBVIOUS
<1>7. m < DurationLimit <=> \A n \in spans : n < DurationLimit
  <2>1. m \in Int /\ \A n \in all : n \in Int /\ n <= m
    BY <1>4, <1>5, <1>6
  <2>2. m = 0 \/ m \in spans
    BY <1>5, <1>6
  <2>3. \A n \in spans : n \in Int /\ n <= m
    BY <2>1
  <2>4. (\A n \in spans : n < DurationLimit) => m < DurationLimit
    BY <1>0, <2>2
  <2>5. ASSUME m < DurationLimit, NEW n \in spans PROVE n < DurationLimit
    <3>1. n \in Int /\ n <= m
      BY <2>3
    <3> QED BY <1>0, <2>1, <2>5, <3>1
  <2> QED BY <2>4, <2>5
<1>8. MaxDuration(w) = m
  BY <1>2, <1>6 DEF MaxDuration
<1> QED BY <1>2, <1>6, <1>7, <1>8

-----------------------------------------------------------------------------
(* The account that run_stress_test rebuilds from its trades.              *)

\* At most two trades, one after the other.
LEMMA DealtShape ==
    ASSUME dealt \in TradeLists
    PROVE  /\ DOMAIN dealt \subseteq {1, 2}
           /\ \A k \in DOMAIN dealt :
                 /\ dealt[k].entry \in 1..CurveDays /\ dealt[k].exit \in 1..CurveDays
                 /\ dealt[k].entry <= dealt[k].exit
                 /\ dealt[k].pnl \in Int /\ dealt[k].swap \in Int
           /\ 1 \in DOMAIN dealt /\ 2 \in DOMAIN dealt => dealt[1].exit < dealt[2].entry
<1> DEFINE some == {t \in Trade : Possible(t)}
<1>1. ASSUME NEW t \in some
      PROVE  /\ t.entry \in 1..CurveDays /\ t.exit \in 1..CurveDays /\ t.entry <= t.exit
             /\ t.pnl \in Int /\ t.swap \in Int
  <2>1. /\ t.entry \in 1..CurveDays /\ t.exit \in 1..CurveDays
        /\ t.pnl \in TradeResults /\ t.swap \in TradeSwaps
    BY <1>1 DEF Trade
  <2>2. t.pnl \in Int /\ t.swap \in Int
    BY <2>1, RobustnessAssumption DEF RobustnessAssumption
  <2> QED BY <1>1, <2>1, <2>2 DEF Possible
<1>2. \/ dealt = <<>> \/ \E t \in some : dealt = <<t>>
      \/ dealt \in some \X some /\ dealt[1].exit < dealt[2].entry
  BY DEF TradeLists
<1> HIDE DEF some
<1>3. CASE dealt = <<>>
  BY <1>3
<1>4. CASE \E t \in some : dealt = <<t>>
  <2>1. PICK t \in some : dealt = <<t>>
    BY <1>4
  <2>2. DOMAIN dealt = {1} /\ dealt[1] = t
    BY <2>1
  <2> QED BY <1>1, <2>1, <2>2
<1>5. CASE dealt \in some \X some /\ dealt[1].exit < dealt[2].entry
  <2>1. PICK t \in some, u \in some : dealt = <<t, u>>
    BY <1>5
  <2>2. DOMAIN dealt = {1, 2} /\ dealt[1] = t /\ dealt[2] = u
    BY <2>1
  <2>3. \A k \in DOMAIN dealt : dealt[k] = t \/ dealt[k] = u
    BY <2>2
  <2> QED BY <1>1, <1>5, <2>1, <2>2, <2>3
<1> QED BY <1>2, <1>3, <1>4, <1>5

\* Trade k is the one of day d: entered by then, and left then or later.
TradeOf(k, d) == k \in DOMAIN dealt /\ dealt[k].entry <= d /\ d <= dealt[k].exit

\* A day belongs to one trade at most.
LEMMA OneTradeOfDay ==
    ASSUME dealt \in TradeLists, NEW d \in Int, NEW j, NEW k, TradeOf(j, d), TradeOf(k, d)
    PROVE  j = k
<1>1. j \in {1, 2} /\ k \in {1, 2} /\ j \in DOMAIN dealt /\ k \in DOMAIN dealt
  BY DealtShape DEF TradeOf
<1>2. \A l \in DOMAIN dealt : dealt[l].entry \in Int /\ dealt[l].exit \in Int
  BY DealtShape
<1>3. 1 \in DOMAIN dealt /\ 2 \in DOMAIN dealt => dealt[1].exit < dealt[2].entry
  BY DealtShape
<1> QED BY <1>1, <1>2, <1>3 DEF TradeOf

\* The rebuilding finds it.
LEMMA EntersRight ==
    ASSUME dealt \in TradeLists, NEW r, NEW n \in Nat, RebuiltRight(r, n)
    PROVE  /\ EntersOn(r, n + 1) = 0 => \A k : ~TradeOf(k, n + 1)
           /\ EntersOn(r, n + 1) # 0 => TradeOf(EntersOn(r, n + 1), n + 1)
<1> DEFINE i == {k \in DOMAIN dealt : dealt[k].entry = n + 1}
<1>0. /\ DOMAIN dealt \subseteq {1, 2}
      /\ \A k \in DOMAIN dealt : dealt[k].entry \in Int /\ dealt[k].exit \in Int
                                 /\ dealt[k].entry <= dealt[k].exit
  BY DealtShape
<1>1. PICK h : h = r.holding
  OBVIOUS
<1>2. h \in {0} \cup DOMAIN dealt /\ \A k \in DOMAIN dealt : h = k <=> HeldAt(k, n)
  BY <1>1 DEF RebuiltRight
<1>3. EntersOn(r, n + 1) = IF h # 0 THEN h ELSE IF i = {} THEN 0 ELSE Min(i)
  BY <1>1 DEF EntersOn
<1>4. CASE h # 0
  <2>1. h \in DOMAIN dealt /\ HeldAt(h, n)
    BY <1>2, <1>4
  <2>2. TradeOf(h, n + 1)
    BY <1>0, <2>1 DEF TradeOf, HeldAt
  <2> QED BY <1>3, <1>4, <2>2
<1>5. CASE h = 0 /\ i = {}
  <2>1. ASSUME NEW k, TradeOf(k, n + 1) PROVE FALSE
    <3>1. k \in DOMAIN dealt /\ dealt[k].entry <= n + 1 /\ n + 1 <= dealt[k].exit
      BY <2>1 DEF TradeOf
    <3>2. dealt[k].entry # n + 1
      BY <1>5, <3>1
    <3>3. HeldAt(k, n)
      BY <1>0, <3>1, <3>2 DEF HeldAt
    <3>4. h = k /\ k # 0
      BY <1>0, <1>2, <3>1, <3>3
    <3> QED BY <1>5, <3>4
  <2> QED BY <1>3, <1>5, <2>1
<1>6. CASE h = 0 /\ i # {}
  <2>1. i \in SUBSET Int /\ 1 \in Int /\ \A k \in i : 1 <= k
    BY <1>0
  <2>2. Min(i) \in i
    <3> HIDE DEF i
    <3> QED BY <1>6, <2>1, MinIsSmallest
  <2>3. PICK k : k = Min(i)
    OBVIOUS
  <2>4. TradeOf(k, n + 1) /\ k # 0
    BY <1>0, <2>2, <2>3 DEF TradeOf
  <2>5. EntersOn(r, n + 1) = k
    BY <1>3, <1>6, <2>3
  <2> QED BY <2>4, <2>5
<1> QED BY <1>4, <1>5, <1>6

\* One day of the loop keeps the account right.
LEMMA RebuildStep ==
    ASSUME dealt \in TradeLists, NEW r, NEW n \in Nat, RebuiltRight(r, n), NEW mark \in Int
    PROVE  RebuiltRight(Rebuild(r, n + 1, mark), n + 1)
<1>0. /\ DOMAIN dealt \subseteq {1, 2}
      /\ \A k \in DOMAIN dealt : /\ dealt[k].entry \in Int /\ dealt[k].exit \in Int
                                 /\ dealt[k].entry <= dealt[k].exit
                                 /\ dealt[k].pnl \in Int /\ dealt[k].swap \in Int
  BY DealtShape
<1>1. PortfolioCapital \in Int
  BY RobustnessAssumption DEF RobustnessAssumption
<1>2. PICK k : k = EntersOn(r, n + 1)
  OBVIOUS
<1>3. PICK v : v = Rebuild(r, n + 1, mark)
  OBVIOUS
<1>4. /\ k = 0 => \A j : ~TradeOf(j, n + 1)
      /\ k # 0 => TradeOf(k, n + 1) /\ \A j : TradeOf(j, n + 1) => j = k
  <2>1. /\ k = 0 => \A j : ~TradeOf(j, n + 1)
        /\ k # 0 => TradeOf(k, n + 1)
    BY <1>2, EntersRight
  <2>2. ASSUME k # 0, NEW j, TradeOf(j, n + 1) PROVE j = k
    <3>1. TradeOf(k, n + 1) /\ n + 1 \in Int
      BY <2>1, <2>2
    <3> QED BY <2>2, <3>1, OneTradeOfDay
  <2> QED BY <2>1, <2>2
<1>5. \A j, m : PaidBy(j, m) \in Int
  BY <1>0 DEF PaidBy
<1>6. PICK a \in Int, b \in Int : a = PaidBy(1, n) /\ b = PaidBy(2, n)
  BY <1>5
<1>7. r.cash = PortfolioCapital + a + b /\ DOMAIN r = {"cash", "holding", "equity"}
  BY <1>6 DEF RebuiltRight
<1>8. \A j \in DOMAIN dealt : PaidBy(j, n + 1) = IF dealt[j].exit = n + 1
         THEN dealt[j].pnl + dealt[j].swap ELSE PaidBy(j, n)
  BY <1>0 DEF PaidBy
<1>9. \A j \in DOMAIN dealt : dealt[j].exit = n + 1 => TradeOf(j, n + 1)
  BY <1>0 DEF TradeOf
<1>10. \A j \in DOMAIN dealt : HeldAt(j, n + 1) <=> TradeOf(j, n + 1) /\ dealt[j].exit # n + 1
  BY <1>0 DEF TradeOf, HeldAt
<1>11. \A j : j \notin DOMAIN dealt => PaidBy(j, n + 1) = PaidBy(j, n)
  BY DEF PaidBy
<1>12. \A j : j # k => PaidBy(j, n + 1) = PaidBy(j, n)
  BY <1>4, <1>8, <1>9, <1>11
<1>13. CASE k = 0
  <2>1. v = [r EXCEPT !.holding = 0, !.equity = r.cash]
    BY <1>2, <1>3, <1>13 DEF Rebuild
  <2>2. v.cash = r.cash /\ v.holding = 0 /\ v.equity = r.cash
        /\ DOMAIN v = {"cash", "holding", "equity"}
    BY <1>7, <2>1
  <2>3. PaidBy(1, n + 1) = a /\ PaidBy(2, n + 1) = b
    BY <1>6, <1>12, <1>13
  <2>4. \A j \in DOMAIN dealt : j # 0 /\ ~HeldAt(j, n + 1)
    BY <1>0, <1>4, <1>10, <1>13
  <2>5. v.equity \in Int
    BY <1>1, <1>7, <2>2
  <2> QED BY <1>3, <1>7, <2>2, <2>3, <2>4, <2>5 DEF RebuiltRight
<1>14. CASE k # 0 /\ dealt[k].exit = n + 1
  <2>1. k \in DOMAIN dealt /\ k \in {1, 2}
    BY <1>0, <1>4, <1>14 DEF TradeOf
  <2>2. PICK p \in Int : p = dealt[k].pnl + dealt[k].swap
    BY <1>0, <2>1
  <2>3. v = [cash |-> r.cash + p, holding |-> 0, equity |-> r.cash + p]
    BY <1>2, <1>3, <1>14, <2>2 DEF Rebuild
  <2>4. PaidBy(k, n) = 0 /\ PaidBy(k, n + 1) = p
    <3>1. PaidBy(k, n + 1) = p
      BY <1>8, <1>14, <2>1, <2>2
    <3>2. PaidBy(k, n) = 0
      BY <1>14, <2>1 DEF PaidBy
    <3> QED BY <3>1, <3>2
  <2>5. PaidBy(1, n + 1) + PaidBy(2, n + 1) = a + b + p
    <3>1. CASE k = 1
      <4>1. a = 0 /\ PaidBy(1, n + 1) = p /\ PaidBy(2, n + 1) = b
        BY <1>6, <1>12, <2>4, <3>1
      <4> QED BY <4>1
    <3>2. CASE k = 2
      <4>1. b = 0 /\ PaidBy(2, n + 1) = p /\ PaidBy(1, n + 1) = a
        BY <1>6, <1>12, <2>4, <3>2
      <4> QED BY <4>1
    <3> QED BY <2>1, <3>1, <3>2
  <2>6. v.cash = PortfolioCapital + PaidBy(1, n + 1) + PaidBy(2, n + 1)
    <3>1. PICK x \in Int, y \in Int : x = PaidBy(1, n + 1) /\ y = PaidBy(2, n + 1)
      BY <1>5
    <3>2. x + y = a + b + p /\ v.cash = PortfolioCapital + a + b + p
      BY <1>7, <2>3, <2>5, <3>1
    <3>3. v.cash = PortfolioCapital + x + y
      BY <1>1, <3>2
    <3> QED BY <3>1, <3>3
  <2>7. \A j \in DOMAIN dealt : j # 0 /\ ~HeldAt(j, n + 1)
    BY <1>0, <1>4, <1>10, <1>14
  <2>8. v.holding = 0 /\ v.equity = v.cash /\ DOMAIN v = {"cash", "holding", "equity"}
        /\ v.equity \in Int
    BY <1>1, <1>7, <2>3
  <2> QED BY <1>3, <2>6, <2>7, <2>8 DEF RebuiltRight
<1>15. CASE k # 0 /\ dealt[k].exit # n + 1
  <2>1. k \in DOMAIN dealt
    BY <1>4, <1>15 DEF TradeOf
  <2>2. v = [r EXCEPT !.holding = k, !.equity = r.cash + mark]
    BY <1>2, <1>3, <1>15 DEF Rebuild
  <2>3. v.cash = r.cash /\ v.holding = k /\ v.equity = r.cash + mark
        /\ DOMAIN v = {"cash", "holding", "equity"}
    BY <1>7, <2>2
  <2>4. PaidBy(1, n + 1) = a /\ PaidBy(2, n + 1) = b
    <3>1. PaidBy(k, n + 1) = PaidBy(k, n)
      BY <1>8, <1>15, <2>1
    <3>2. \A j : PaidBy(j, n + 1) = PaidBy(j, n)
      BY <1>12, <3>1
    <3> QED BY <1>6, <3>2
  <2>5. \A j \in DOMAIN dealt : k = j <=> HeldAt(j, n + 1)
    BY <1>4, <1>10, <1>15
  <2>6. v.equity \in Int
    BY <1>1, <1>7, <2>3
  <2> QED BY <1>3, <1>7, <1>15, <2>1, <2>3, <2>4, <2>5, <2>6 DEF RebuiltRight
<1> QED BY <1>13, <1>14, <1>15

\* The profit and swap of all trades.
PaidInAll == MapThenSumSet(LAMBDA k : dealt[k].pnl + dealt[k].swap, DOMAIN dealt)

\* A sum over the trades is the sum of what each has paid: the fold has a
\* solution, which its choice must equal at every set of trades.
LEMMA AllPaid ==
    ASSUME dealt \in TradeLists
    PROVE  PaidInAll = PaidBy(1, CurveDays) + PaidBy(2, CurveDays)
<1> DEFINE L == DOMAIN dealt
           pay(k) == dealt[k].pnl + dealt[k].swap
           one(s) == CHOOSE x \in s : TRUE
           body(f) == [s \in SUBSET L |-> IF s = {} THEN 0
                             ELSE pay(one(s)) + f[s \ {one(s)}]]
           g == [s \in SUBSET L |-> (IF 1 \in s THEN pay(1) ELSE 0)
                                    + (IF 2 \in s THEN pay(2) ELSE 0)]
<1>1. L \subseteq {1, 2} /\ \A k \in L : pay(k) \in Int
  BY DealtShape
<1>2. \A s \in SUBSET L : s # {} => one(s) \in s
  OBVIOUS
<1>3. ASSUME NEW k \in L
      PROVE  PaidBy(k, CurveDays) = pay(k)
  <2>1. dealt[k].exit \in 1..CurveDays /\ CurveDays \in Int
    BY DealtShape, RobustnessAssumption DEF RobustnessAssumption
  <2>2. dealt[k].exit <= CurveDays
    BY <2>1
  <2> QED BY <2>2 DEF PaidBy
<1>4. \A k : k \notin L => PaidBy(k, CurveDays) = 0
  BY DEF PaidBy
<1>5. PaidInAll = (CHOOSE f : f = body(f))[L]
  BY Zenon DEF PaidInAll, MapThenSumSet, MapThenFoldSet, body, one, pay
<1> HIDE DEF one, pay, L
<1>6. g = body(g)
  <2>1. ASSUME NEW s \in SUBSET L
        PROVE  g[s] = IF s = {} THEN 0 ELSE pay(one(s)) + g[s \ {one(s)}]
    <3>1. CASE s = {}
      BY <3>1
    <3>2. CASE s # {}
      <4>1. PICK x \in s : x = one(s)
        BY <1>2, <3>2
      <4>2. s \ {x} \in SUBSET L /\ x \in L /\ x \in {1, 2}
        BY <1>1, <4>1
      <4>3. g[s \ {x}] = (IF 1 \in s /\ 1 # x THEN pay(1) ELSE 0)
                         + (IF 2 \in s /\ 2 # x THEN pay(2) ELSE 0)
        BY <4>2
      <4>4. g[s] = (IF 1 \in s THEN pay(1) ELSE 0) + (IF 2 \in s THEN pay(2) ELSE 0)
        OBVIOUS
      <4>5. /\ 1 \in s => pay(1) \in Int
            /\ 2 \in s => pay(2) \in Int
        BY <1>1
      <4> HIDE DEF g
      <4>6. CASE x = 1
        BY <4>1, <4>3, <4>4, <4>5, <4>6, <3>2
      <4>7. CASE x = 2
        BY <4>1, <4>3, <4>4, <4>5, <4>7, <3>2
      <4> QED BY <4>2, <4>6, <4>7
    <3> QED BY <3>1, <3>2
  <2> HIDE DEF g
  <2>2. DOMAIN g = SUBSET L /\ g = [s \in SUBSET L |-> g[s]]
    BY DEF g
  <2> QED BY <2>1, <2>2
<1> HIDE DEF g
<1>7. PICK f : f = (CHOOSE h : h = body(h)) /\ f = body(f)
  <2>1. \E f : f = body(f)
    BY <1>6
  <2> HIDE DEF body
  <2> QED BY <2>1, Zenon
<1>8. \A s \in SUBSET L : f[s] = IF s = {} THEN 0 ELSE pay(one(s)) + f[s \ {one(s)}]
  BY <1>7
<1>9. f[{}] = 0
  BY <1>8
<1>10. \A k \in L : f[{k}] = pay(k)
  <2> TAKE k \in L
  <2>1. {k} \in SUBSET L /\ one({k}) = k /\ {k} \ {k} = {}
    BY DEF one
  <2>2. f[{k}] = pay(k) + f[{}]
    BY <1>8, <2>1
  <2> QED BY <1>1, <1>9, <2>2
<1>11. L = {1, 2} => f[L] = pay(1) + pay(2)
  <2> HAVE L = {1, 2}
  <2>1. PICK x \in {1, 2} : x = one(L)
    BY <1>2
  <2>2. f[L] = pay(x) + f[L \ {x}]
    BY <1>8, <2>1
  <2>3. pay(1) \in Int /\ pay(2) \in Int
    BY <1>1
  <2>4. CASE x = 1
    <3>1. L \ {x} = {2}
      BY <2>4
    <3> QED BY <1>10, <2>2, <2>4, <3>1
  <2>5. CASE x = 2
    <3>1. L \ {x} = {1}
      BY <2>5
    <3>2. PICK p \in Int, q \in Int : p = pay(1) /\ q = pay(2)
      BY <2>3
    <3>3. f[L] = q + p
      BY <1>10, <2>2, <2>5, <3>1, <3>2
    <3>4. q + p = p + q
      OBVIOUS
    <3> QED BY <3>2, <3>3, <3>4
  <2> QED BY <2>4, <2>5
<1>12. PaidInAll = f[L]
  BY <1>5, <1>7
<1>13. L = {} \/ L = {1} \/ L = {2} \/ L = {1, 2}
  BY <1>1
<1>14. CASE L = {}
  BY <1>4, <1>9, <1>12, <1>14
<1>15. CASE L = {1}
  BY <1>1, <1>3, <1>4, <1>10, <1>12, <1>15
<1>16. CASE L = {2}
  BY <1>1, <1>3, <1>4, <1>10, <1>12, <1>16
<1>17. CASE L = {1, 2}
  BY <1>3, <1>11, <1>12, <1>17
<1> QED BY <1>13, <1>14, <1>15, <1>16, <1>17

\* A rebuilt curve ends with the capital and all that the trades paid.
LEMMA RebuiltAddsUp ==
    ASSUME study = "stress", CurveRight, Len(curve) = CurveDays, curve # <<>>
    PROVE  curve[Len(curve)].equity = PortfolioCapital + PaidInAll
<1>1. /\ dealt \in TradeLists /\ RebuiltRight(rebuilt, CurveDays)
      /\ curve[Len(curve)].equity = rebuilt.equity
  BY DEF CurveRight
<1>2. \A k \in DOMAIN dealt : ~HeldAt(k, CurveDays)
  <2> TAKE k \in DOMAIN dealt
  <2>1. dealt[k].exit \in 1..CurveDays /\ CurveDays \in Int
    BY <1>1, DealtShape, RobustnessAssumption DEF RobustnessAssumption
  <2>2. ~(CurveDays < dealt[k].exit)
    BY <2>1
  <2> QED BY <2>2 DEF HeldAt
<1>3. rebuilt.holding = 0
  BY <1>1, <1>2 DEF RebuiltRight
<1>4. rebuilt.equity = PortfolioCapital + PaidBy(1, CurveDays) + PaidBy(2, CurveDays)
  BY <1>1, <1>3 DEF RebuiltRight
<1>5. PaidBy(1, CurveDays) \in Int /\ PaidBy(2, CurveDays) \in Int
  BY <1>1, DealtShape DEF PaidBy
<1>6. PortfolioCapital \in Int
  BY RobustnessAssumption DEF RobustnessAssumption
<1> QED BY <1>1, <1>4, <1>5, <1>6, AllPaid

-----------------------------------------------------------------------------
(* The portfolio curve.                                                    *)

\* The days of a portfolio, and the last of them.
LEMMA PortfolioShape ==
    ASSUME NEW ps, \A p \in TwoPairs : DOMAIN ps[p] \subseteq 1..CurveDays
    PROVE  LET ds == PortfolioDays(ps)
           IN  /\ ds \subseteq 1..CurveDays /\ Cardinality(ds) \in Nat
               /\ \A i \in 1..Cardinality(ds) : DayAt(ds, i) \in ds
               /\ Cardinality(ds) > 0 => \A e \in ds : e <= DayAt(ds, Cardinality(ds))
<1> DEFINE ds == PortfolioDays(ps)
<1>0. CurveDays \in Nat
  BY RobustnessAssumption DEF RobustnessAssumption
<1>1. ds \in SUBSET (1..CurveDays)
  <2>1. ASSUME NEW p \in Drawn(ps) PROVE DaysOf(ps[p]) \subseteq 1..CurveDays
    <3> DEFINE s == DOMAIN ps[p]
    <3>1. s \subseteq 1..CurveDays /\ s # {}
      BY <1>0, FS_EmptySet DEF Drawn
    <3>2. s \in SUBSET Int /\ 1 \in Int /\ CurveDays \in Int
          /\ (\A x \in s : 1 <= x) /\ (\A x \in s : x <= CurveDays)
      BY <1>0, <3>1
    <3>3. Min(s) \in s /\ Max(s) \in s
      <4> HIDE DEF s
      <4> QED BY <3>1, <3>2, MinIsSmallest, MaxIsLargest
    <3>4. Min(s) \in 1..CurveDays /\ Max(s) \in 1..CurveDays
      BY <3>1, <3>3
    <3>5. Min(s)..Max(s) \subseteq 1..CurveDays
      <4> HIDE DEF s
      <4>1. PICK a \in 1..CurveDays, b \in 1..CurveDays : a = Min(s) /\ b = Max(s)
        BY <3>4
      <4>2. a..b \subseteq 1..CurveDays
        BY <1>0
      <4> QED BY <4>1, <4>2
    <3> QED BY <3>5 DEF DaysOf
  <2> QED BY <2>1 DEF PortfolioDays
<1> SUFFICES /\ Cardinality(ds) \in Nat
             /\ \A i \in 1..Cardinality(ds) : DayAt(ds, i) \in ds
             /\ Cardinality(ds) > 0 => \A e \in ds : e <= DayAt(ds, Cardinality(ds))
  BY <1>1
<1> HIDE DEF ds
<1>2. PICK c \in Nat : c = Cardinality(ds)
  BY <1>0, <1>1, RankNatural
<1>3. ASSUME NEW i \in 1..c
      PROVE  DayAt(ds, i) \in ds /\ Cardinality({e \in ds : e <= DayAt(ds, i)}) = i
  <2>1. i - 1 \in 0..(Cardinality(ds) - 1)
    BY <1>2
  <2>2. PICK d \in ds : Rank(ds, d) = i - 1
    BY <1>0, <1>1, <2>1, RankTaken
  <2>3. Cardinality({e \in ds : e <= d}) = Rank(ds, d) + 1
    BY <1>0, <1>1, RankThrough
  <2>4. Cardinality({e \in ds : e <= d}) = i
    BY <2>2, <2>3
  <2> QED BY <2>4, Zenon DEF DayAt
<1>4. ASSUME c > 0 PROVE \A e \in ds : e <= DayAt(ds, c)
  <2>1. c \in 1..c
    BY <1>4
  <2>2. PICK d \in ds : d = DayAt(ds, c) /\ Cardinality({e \in ds : e <= d}) = c
    BY <1>3, <2>1
  <2>3. \A e \in ds : e <= d
    BY <1>0, <1>1, <1>2, <2>2, LastIsLargest
  <2> QED BY <2>2, <2>3
<1> QED BY <1>2, <1>3, <1>4

\* What the pairs of a portfolio have earned by a day, and in all.
PnlOn(ps, d) == MapThenSumSet(LAMBDA p : PnlAt(ps[p], d), Drawn(ps))

FinalPnl(ps) == MapThenSumSet(LAMBDA p : ps[p][Max(DOMAIN ps[p])] - ps[p][Min(DOMAIN ps[p])],
                              Drawn(ps))

\* From the last sample of every pair on they have earned all of it.
LEMMA PnlIsFinal ==
    ASSUME NEW ps, NEW d, \A p \in Drawn(ps) : /\ DOMAIN ps[p] \subseteq 1..CurveDays
                                               /\ \A e \in DOMAIN ps[p] : e <= d
    PROVE  PnlOn(ps, d) = FinalPnl(ps)
<1> DEFINE L == Drawn(ps)
           at(p) == PnlAt(ps[p], d)
           all(p) == ps[p][Max(DOMAIN ps[p])] - ps[p][Min(DOMAIN ps[p])]
           one(s) == CHOOSE x \in s : TRUE
           left(f) == [s \in SUBSET L |-> IF s = {} THEN 0 ELSE at(one(s)) + f[s \ {one(s)}]]
           right(f) == [s \in SUBSET L |-> IF s = {} THEN 0 ELSE all(one(s)) + f[s \ {one(s)}]]
<1>1. \A s \in SUBSET L : s # {} => one(s) \in L
  OBVIOUS
<1>2. ASSUME NEW p \in L PROVE at(p) = all(p)
  <2>1. {e \in DOMAIN ps[p] : e <= d} = DOMAIN ps[p]
    OBVIOUS
  <2>2. DOMAIN ps[p] # {}
    BY FS_EmptySet DEF Drawn
  <2> QED BY <2>1, <2>2 DEF PnlAt, PairPnl
<1>3. PnlOn(ps, d) = (CHOOSE f : f = left(f))[L]
  BY Zenon DEF PnlOn, MapThenSumSet, MapThenFoldSet, left, one, at
<1>4. FinalPnl(ps) = (CHOOSE f : f = right(f))[L]
  BY Zenon DEF FinalPnl, MapThenSumSet, MapThenFoldSet, right, one, all
<1> HIDE DEF one, at, all, L
<1>5. ASSUME NEW f PROVE left(f) = right(f)
  BY <1>1, <1>2
<1> HIDE DEF left, right
<1>6. (CHOOSE f : f = left(f)) = (CHOOSE f : f = right(f))
  BY <1>5, Zenon
<1> QED BY <1>3, <1>4, <1>6

\* A portfolio curve has samples of its days.
LEMMA PortfolioCurve ==
    ASSUME NEW ps, \A p \in TwoPairs : DOMAIN ps[p] \subseteq 1..CurveDays,
           NEW c, c = LoadFromMultiPair(ps)
    PROVE  /\ Len(c) \in Nat /\ DOMAIN c = 1..Len(c) /\ Len(c) = Cardinality(PortfolioDays(ps))
           /\ \A i \in DOMAIN c : c[i].day \in 1..CurveDays
           /\ c # <<>> => c[Len(c)].equity = PortfolioCapital + FinalPnl(ps)
<1> DEFINE ds == PortfolioDays(ps)
           sum(i) == PnlOn(ps, DayAt(ds, i))
<1>1. /\ ds \subseteq 1..CurveDays /\ Cardinality(ds) \in Nat
      /\ \A i \in 1..Cardinality(ds) : DayAt(ds, i) \in ds
      /\ Cardinality(ds) > 0 => \A e \in ds : e <= DayAt(ds, Cardinality(ds))
  BY PortfolioShape
<1>2. c = [i \in 1..Cardinality(ds) |->
              [day |-> DayAt(ds, i), equity |-> PortfolioCapital + sum(i)]]
  BY Zenon DEF LoadFromMultiPair, PnlOn, MapThenSumSet, MapThenFoldSet, sum
<1>3. ASSUME Cardinality(ds) > 0
      PROVE  sum(Cardinality(ds)) = FinalPnl(ps)
  <2>1. PICK d : d = DayAt(ds, Cardinality(ds))
    OBVIOUS
  <2>2. ASSUME NEW p \in Drawn(ps)
        PROVE  DOMAIN ps[p] \subseteq 1..CurveDays /\ \A e \in DOMAIN ps[p] : e <= d
    <3> DEFINE s == DOMAIN ps[p]
    <3>1. s \subseteq 1..CurveDays /\ s # {} /\ CurveDays \in Nat
      BY FS_EmptySet, RobustnessAssumption DEF Drawn, RobustnessAssumption
    <3>2. s \in SUBSET Int /\ 1 \in Int /\ CurveDays \in Int
          /\ (\A x \in s : 1 <= x) /\ (\A x \in s : x <= CurveDays)
      BY <3>1
    <3>3. /\ Min(s) \in s /\ \A x \in s : Min(s) <= x
          /\ Max(s) \in s /\ \A x \in s : x <= Max(s)
      <4> HIDE DEF s
      <4> QED BY <3>1, <3>2, MinIsSmallest, MaxIsLargest
    <3>4. DaysOf(ps[p]) \subseteq ds
      BY DEF PortfolioDays
    <3>5. \A e \in s : e \in Min(s)..Max(s)
      <4> HIDE DEF s
      <4> QED BY <3>2, <3>3
    <3>6. \A e \in s : e \in ds
      BY <3>4, <3>5 DEF DaysOf
    <3> QED BY <1>1, <1>3, <2>1, <3>1, <3>6
  <2>3. PnlOn(ps, d) = FinalPnl(ps)
    BY <2>2, PnlIsFinal
  <2> QED BY <2>1, <2>3
<1> HIDE DEF ds, sum
<1>4. PICK n \in Nat : n = Cardinality(ds)
  BY <1>1
<1>5. c = [i \in 1..n |-> [day |-> DayAt(ds, i), equity |-> PortfolioCapital + sum(i)]]
  BY <1>2, <1>4
<1>6. Len(c) = n /\ DOMAIN c = 1..n
  BY <1>5
<1>7. \A i \in 1..n : c[i].day = DayAt(ds, i) /\ c[i].equity = PortfolioCapital + sum(i)
  BY <1>5
<1>8. c # <<>> => n > 0 /\ n \in 1..n
  BY <1>4, <1>6
<1>9. \A i \in 1..n : c[i].day \in 1..CurveDays
  BY <1>1, <1>4, <1>7
<1> QED BY <1>3, <1>4, <1>6, <1>7, <1>8, <1>9 DEF ds

-----------------------------------------------------------------------------
\* The empty curve is one.
LEMMA EmptyCurve == IsCurve(<<>>)
  BY DEF IsCurve

\* A sequence of samples is a curve.
LEMMA SamplesAreCurve ==
    ASSUME NEW c \in Seq(Sample)
    PROVE  IsCurve(c)
<1>1. \A x \in Sample : x.day \in 1..CurveDays
  BY DEF Sample
<1>2. Len(c) \in Nat /\ DOMAIN c = 1..Len(c) /\ \A i \in DOMAIN c : c[i] \in Sample
  OBVIOUS
<1> QED BY <1>1, <1>2 DEF IsCurve

\* Before the first day nothing was written, no trade was closed and no curve
\* was walked.
LEMMA ReportsInit == RobustnessInit => ReportsInv
<1> SUFFICES ASSUME RobustnessInit PROVE ReportsInv
  OBVIOUS
<1>1. curve = <<>> /\ walk = StartOfWalk /\ DOMAIN verdicts = {}
  BY DEF RobustnessInit
<1>2. CurveDays \in Nat /\ PortfolioCapital \in Int
  BY RobustnessAssumption DEF RobustnessAssumption
<1>3. study = "portfolio" => \A p \in TwoPairs : DOMAIN streams[p] \subseteq 1..CurveDays
  <2> SUFFICES ASSUME study = "portfolio", NEW p \in TwoPairs
               PROVE  DOMAIN streams[p] \subseteq 1..CurveDays
    OBVIOUS
  <2>1. streams[p] \in UNION {[ds -> PairEquities] : ds \in SUBSET (1..CurveDays)}
    BY DEF RobustnessInit
  <2> QED BY <2>1
<1>4. CurveRight
  <2>1. CASE study = "portfolio"
    BY <1>1, <2>1 DEF CurveRight
  <2>2. CASE study # "portfolio"
    <3>1. study = "stress" /\ dealt \in TradeLists
      BY <2>2 DEF RobustnessInit
    <3>2. rebuilt = [cash |-> PortfolioCapital, holding |-> 0, equity |-> PortfolioCapital]
      BY DEF RobustnessInit
    <3>3. \A k \in DOMAIN dealt : k # 0 /\ dealt[k].entry \in 1..CurveDays
                                  /\ dealt[k].exit \in 1..CurveDays
      BY <3>1, DealtShape
    <3>4. PaidBy(1, 0) = 0 /\ PaidBy(2, 0) = 0
      BY <3>3 DEF PaidBy
    <3>5. \A k \in DOMAIN dealt : rebuilt.holding = k <=> HeldAt(k, 0)
      BY <3>2, <3>3 DEF HeldAt
    <3>6. /\ rebuilt.holding = 0 /\ rebuilt.cash = PortfolioCapital
          /\ rebuilt.equity = PortfolioCapital
          /\ DOMAIN rebuilt = {"cash", "holding", "equity"}
      BY <3>2
    <3>7. rebuilt.cash = PortfolioCapital + PaidBy(1, 0) + PaidBy(2, 0)
      BY <1>2, <3>4, <3>6
    <3>8. RebuiltRight(rebuilt, 0)
      BY <1>2, <3>5, <3>6, <3>7 DEF RebuiltRight
    <3>9. curve \in Seq(Sample) /\ Len(curve) = 0 /\ DOMAIN curve = {}
      BY <1>1
    <3> QED BY <1>1, <1>2, <3>1, <3>8, <3>9 DEF CurveRight
  <2> QED BY <2>1, <2>2
<1>5. IsCurve(curve) /\ WalkRight(curve, walk)
  BY <1>1, EmptyCurve, WalkStarts
<1> QED BY <1>1, <1>3, <1>4, <1>5 DEF ReportsInv, SuiteRight

\* LoadPortfolio: the walk has not begun when the curve is loaded.
LEMMA LoadStep == ReportsInv /\ LoadPortfolio => ReportsInv'
<1> SUFFICES ASSUME ReportsInv, LoadPortfolio PROVE ReportsInv'
  OBVIOUS
<1>1. /\ study = "portfolio" /\ study' = study /\ streams' = streams /\ walk' = walk
      /\ verdicts' = verdicts /\ curve' = LoadFromMultiPair(streams)
  BY DEF LoadPortfolio
<1>2. walk = StartOfWalk /\ DOMAIN verdicts = {}
  BY DEF ReportsInv, LoadPortfolio, SuiteRight
<1>3. PICK c : c = curve'
  OBVIOUS
<1>4. IsCurve(c)
  <2>1. \A p \in TwoPairs : DOMAIN streams[p] \subseteq 1..CurveDays
    BY <1>1 DEF ReportsInv
  <2>2. /\ Len(c) \in Nat /\ DOMAIN c = 1..Len(c)
        /\ \A i \in DOMAIN c : c[i].day \in 1..CurveDays
    BY <1>1, <1>3, <2>1, PortfolioCurve
  <2> QED BY <2>2 DEF IsCurve
<1>5. WalkRight(c, StartOfWalk)
  BY <1>4, WalkStarts
<1>6. CurveRight'
  BY <1>1 DEF CurveRight
<1>7. Built'
  BY <1>1 DEF Built
<1>8. SuiteRight'
  BY <1>1, <1>2 DEF SuiteRight
<1>9. IsCurve(curve)' /\ WalkRight(curve, walk)'
  BY <1>1, <1>2, <1>3, <1>4, <1>5
<1>10. (study = "portfolio" => \A p \in TwoPairs : DOMAIN streams[p] \subseteq 1..CurveDays)'
  BY <1>1 DEF ReportsInv
<1> QED BY <1>6, <1>7, <1>8, <1>9, <1>10 DEF ReportsInv

\* ReconstructDay: the next day of the curve is that of the rebuilt account.
LEMMA ReconstructStep == ReportsInv /\ ReconstructDay => ReportsInv'
<1> SUFFICES ASSUME ReportsInv, ReconstructDay PROVE ReportsInv'
  OBVIOUS
<1>1. /\ study = "stress" /\ study' = study /\ streams' = streams /\ walk' = walk
      /\ verdicts' = verdicts /\ dealt' = dealt /\ Len(curve) # CurveDays
  BY DEF ReconstructDay, Built
<1>2. PICK n : n = Len(curve)
  OBVIOUS
<1>3. PICK mark \in Marks : rebuilt' = Rebuild(rebuilt, n + 1, mark)
  BY <1>2 DEF ReconstructDay
<1>4. /\ dealt \in TradeLists /\ curve \in Seq(Sample) /\ n <= CurveDays
      /\ RebuiltRight(rebuilt, n) /\ \A i \in DOMAIN curve : curve[i].day = i
  BY <1>1, <1>2 DEF ReportsInv, CurveRight
<1>5. mark \in Int /\ CurveDays \in Nat
  BY RobustnessAssumption DEF RobustnessAssumption
<1>6. n \in Nat /\ n + 1 \in 1..CurveDays
  BY <1>1, <1>2, <1>4, <1>5
<1>7. PICK r : r = rebuilt'
  OBVIOUS
<1>8. RebuiltRight(r, n + 1)
  BY <1>3, <1>4, <1>5, <1>6, <1>7, RebuildStep
<1>9. PICK x : x = [day |-> n + 1, equity |-> r.equity]
  OBVIOUS
<1>10. x \in Sample /\ x.day = n + 1 /\ x.equity = r.equity
  BY <1>6, <1>8, <1>9 DEF Sample, RebuiltRight
<1>11. PICK c : c = curve'
  OBVIOUS
<1>12. c = Append(curve, x)
  BY <1>2, <1>7, <1>9, <1>11 DEF ReconstructDay
<1>13. /\ c \in Seq(Sample) /\ Len(c) = n + 1 /\ DOMAIN c = 1..(n + 1) /\ c[n + 1] = x
       /\ DOMAIN curve = 1..n /\ \A i \in 1..n : c[i] = curve[i]
  BY <1>2, <1>4, <1>6, <1>10, <1>12
<1>14. \A i \in DOMAIN c : c[i].day = i
  <2> TAKE i \in DOMAIN c
  <2>1. i \in 1..n \/ i = n + 1
    BY <1>6, <1>13
  <2> QED BY <1>4, <1>10, <1>13, <2>1
<1>15. walk = StartOfWalk /\ DOMAIN verdicts = {}
  BY <1>1 DEF ReportsInv, SuiteRight, Built
<1>16. IsCurve(c) /\ WalkRight(c, StartOfWalk)
  BY <1>13, SamplesAreCurve, WalkStarts
<1>17. CurveRight'
  <2>1. RebuiltRight(rebuilt, Len(curve))'
    <3>1. Len(curve') = n + 1
      BY <1>11, <1>13
    <3> QED BY <1>1, <1>7, <1>8, <3>1 DEF RebuiltRight, PaidBy, HeldAt
  <2>2. (dealt \in TradeLists /\ curve \in Seq(Sample))'
    BY <1>1, <1>4, <1>11, <1>13
  <2>3. (Len(curve) <= CurveDays)'
    BY <1>6, <1>11, <1>13
  <2>4. (\A i \in DOMAIN curve : curve[i].day = i)'
    BY <1>11, <1>14
  <2>5. (curve # <<>> => curve[Len(curve)].equity = rebuilt.equity)'
    BY <1>7, <1>10, <1>11, <1>13
  <2> QED BY <1>1, <2>1, <2>2, <2>3, <2>4, <2>5 DEF CurveRight
<1>18. SuiteRight'
  BY <1>1, <1>15 DEF SuiteRight
<1>19. IsCurve(curve)' /\ WalkRight(curve, walk)' /\ walk' = StartOfWalk
  BY <1>1, <1>11, <1>15, <1>16
<1> QED BY <1>1, <1>17, <1>18, <1>19 DEF ReportsInv

\* WalkCurve: one sample more, or the end.
LEMMA WalkStep == ReportsInv /\ WalkCurve => ReportsInv'
<1> SUFFICES ASSUME ReportsInv, WalkCurve PROVE ReportsInv'
  OBVIOUS
<1>1. /\ study' = study /\ streams' = streams /\ dealt' = dealt /\ rebuilt' = rebuilt
      /\ curve' = curve /\ verdicts' = verdicts /\ Built /\ ~Walked(curve, walk)
  BY DEF WalkCurve
<1>2. PICK c : c = curve
  OBVIOUS
<1>3. PICK w : w = walk
  OBVIOUS
<1>4. IsCurve(c) /\ WalkRight(c, w) /\ Len(c) \in Nat /\ DOMAIN verdicts = {}
  BY <1>1, <1>2, <1>3 DEF ReportsInv, SuiteRight, IsCurve
<1>5. WalkRight(c, walk')
  <2>1. CASE w.next <= Len(c)
    <3>1. walk' = WalkSample(c, w)
      BY <1>2, <1>3, <2>1 DEF WalkCurve
    <3> QED BY <1>4, <2>1, <3>1, SampleStep
  <2>2. CASE ~(w.next <= Len(c))
    <3>1. walk' = FinishWalk(c, w)
      BY <1>2, <1>3, <2>2 DEF WalkCurve
    <3>2. w.next \in 1..(Len(c) + 1)
      BY <1>1, <1>2, <1>3, <1>4 DEF WalkRight, Walked
    <3>3. w.next = Len(c) + 1
      BY <1>4, <2>2, <3>2
    <3> QED BY <1>4, <3>1, <3>3, FinishStep
  <2> QED BY <2>1, <2>2
<1>6. CurveRight'
  BY <1>1 DEF ReportsInv, CurveRight, RebuiltRight, PaidBy, HeldAt
<1>7. Built'
  BY <1>1 DEF Built
<1>8. SuiteRight'
  BY <1>1, <1>4 DEF SuiteRight
<1>9. IsCurve(curve)' /\ WalkRight(curve, walk)'
  BY <1>1, <1>2, <1>4, <1>5
<1>10. (study = "portfolio" => \A p \in TwoPairs : DOMAIN streams[p] \subseteq 1..CurveDays)'
  BY <1>1 DEF ReportsInv
<1> QED BY <1>6, <1>7, <1>8, <1>9, <1>10 DEF ReportsInv

\* RunValidationSuite: the test of the duration judges the finished walk.
LEMMA SuiteStep == ReportsInv /\ RunValidationSuite => ReportsInv'
<1> SUFFICES ASSUME ReportsInv, RunValidationSuite PROVE ReportsInv'
  OBVIOUS
<1>1. /\ study' = study /\ streams' = streams /\ dealt' = dealt /\ rebuilt' = rebuilt
      /\ curve' = curve /\ walk' = walk /\ Walked(curve, walk)
  BY DEF RunValidationSuite
<1>2. PICK x, tests : verdicts' = [t \in tests |-> Verdict(t, x, MaxDuration(walk))]
  BY DEF RunValidationSuite
<1>3. Built
  <2>1. Walked(curve, walk) => walk # StartOfWalk
    <3>1. Len(curve) \in Nat
      BY DEF ReportsInv, IsCurve
    <3>2. StartOfWalk.next = 1
      BY DEF StartOfWalk
    <3> QED BY <3>1, <3>2 DEF Walked
  <2> QED BY <1>1, <2>1 DEF ReportsInv
<1>4. "max_dd_duration" \in DOMAIN verdicts' =>
          verdicts'["max_dd_duration"] = (MaxDuration(walk) < DurationLimit)
  <2> SUFFICES ASSUME "max_dd_duration" \in tests
               PROVE  verdicts'["max_dd_duration"] = (MaxDuration(walk) < DurationLimit)
    BY <1>2
  <2>1. verdicts'["max_dd_duration"] = Verdict("max_dd_duration", x, MaxDuration(walk))
    BY <1>2, Zenon
  <2>2. Verdict("max_dd_duration", x, MaxDuration(walk)) = (MaxDuration(walk) < DurationLimit)
    BY DEF Verdict
  <2> QED BY <2>1, <2>2
<1>5. CurveRight'
  BY <1>1 DEF ReportsInv, CurveRight, RebuiltRight, PaidBy, HeldAt
<1>6. Built'
  BY <1>1, <1>3 DEF Built
<1>7. SuiteRight'
  BY <1>1, <1>4, <1>6 DEF SuiteRight
<1>8. IsCurve(curve)' /\ WalkRight(curve, walk)'
  BY <1>1 DEF ReportsInv
<1>9. (study = "portfolio" => \A p \in TwoPairs : DOMAIN streams[p] \subseteq 1..CurveDays)'
  BY <1>1 DEF ReportsInv
<1> QED BY <1>5, <1>6, <1>7, <1>8, <1>9 DEF ReportsInv

\* Every step of the reports keeps the invariant.
LEMMA ReportsStep == ReportsInv /\ [RobustnessNext]_robustnessVars => ReportsInv'
<1> SUFFICES ASSUME ReportsInv, [RobustnessNext]_robustnessVars PROVE ReportsInv'
  OBVIOUS
<1>1. CASE UNCHANGED robustnessVars
  <2>1. /\ study' = study /\ streams' = streams /\ dealt' = dealt /\ rebuilt' = rebuilt
        /\ curve' = curve /\ walk' = walk /\ verdicts' = verdicts
    BY <1>1 DEF robustnessVars
  <2>2. CurveRight'
    BY <2>1 DEF ReportsInv, CurveRight, RebuiltRight, PaidBy, HeldAt
  <2>3. Built' <=> Built
    BY <2>1 DEF Built
  <2>4. SuiteRight'
    BY <2>1, <2>3 DEF ReportsInv, SuiteRight
  <2> QED BY <2>1, <2>2, <2>3, <2>4 DEF ReportsInv
<1> QED BY <1>1, LoadStep, ReconstructStep, WalkStep, SuiteStep DEF RobustnessNext

\* The curve accounts for every profit.
LEMMA AddsUp == ReportsInv => CurvesAddUp
<1> SUFFICES ASSUME ReportsInv, Built, curve # <<>> PROVE CurvesAddUp
  BY DEF CurvesAddUp
<1>1. CASE study = "portfolio"
  <2>1. curve[Len(curve)].equity = PortfolioCapital + FinalPnl(streams)
    <3>1. \A p \in TwoPairs : DOMAIN streams[p] \subseteq 1..CurveDays
      BY <1>1 DEF ReportsInv
    <3>2. curve = LoadFromMultiPair(streams)
      BY <1>1 DEF Built
    <3>3. PICK c, ps : c = curve /\ ps = streams
      OBVIOUS
    <3>4. c[Len(c)].equity = PortfolioCapital + FinalPnl(ps)
      BY <3>1, <3>2, <3>3, PortfolioCurve
    <3> QED BY <3>3, <3>4
  <2> QED BY <1>1, <2>1, Zenon DEF CurvesAddUp, FinalPnl, MapThenSumSet, MapThenFoldSet
<1>2. CASE study = "stress"
  <2>1. Len(curve) = CurveDays
    BY <1>2 DEF Built
  <2>2. curve[Len(curve)].equity = PortfolioCapital + PaidInAll
    BY <1>2, <2>1, RebuiltAddsUp DEF ReportsInv
  <2> QED BY <1>2, <2>2, Zenon DEF CurvesAddUp, PaidInAll, MapThenSumSet, MapThenFoldSet
<1> QED BY <1>1, <1>2 DEF ReportsInv, CurveRight

\* The walks find every drawdown, and the suite judges the longest.
LEMMA LongestFound == ReportsInv => LongestSpan
<1> SUFFICES ASSUME ReportsInv, Walked(curve, walk) PROVE LongestSpan
  BY DEF LongestSpan
<1>1. PICK c, w : c = curve /\ w = walk
  OBVIOUS
<1>2. PICK spans : spans = {SpanFrom(c, i) : i \in Begins(c)}
  OBVIOUS
<1>3. /\ MaxDuration(w) = Max({0} \cup spans)
      /\ Len(w.events) = Cardinality(Begins(c))
      /\ MaxDuration(w) < DurationLimit <=> \A n \in spans : n < DurationLimit
  <2>1. IsCurve(c) /\ WalkRight(c, w) /\ Walked(c, w)
    BY <1>1 DEF ReportsInv
  <2> QED BY <1>2, <2>1, LongestOfWalk
<1>4. "max_dd_duration" \in DOMAIN verdicts =>
          (verdicts["max_dd_duration"] <=> \A n \in spans : n < DurationLimit)
  BY <1>1, <1>3 DEF ReportsInv, SuiteRight
<1>5. /\ Begins(c) = {i \in DOMAIN curve : Underwater(curve, i)
                                            /\ (i = 1 \/ ~Underwater(curve, i - 1))}
      /\ spans = {curve[EndFrom(curve, i)].day - curve[i].day : i \in Begins(c)}
  BY <1>1, <1>2 DEF Begins, SpanFrom
<1> QED BY <1>1, <1>3, <1>4, <1>5 DEF LongestSpan, EndFrom

\* The reports on a backtest say what it did: a curve ends with the capital and
\* everything that was earned, and the longest drawdown is the one on which the
\* suite decides.
THEOREM ReportsAlwaysRight == RobustnessSpec => []ReportsAreRight
<1>1. ReportsInv => ReportsAreRight
  BY AddsUp, LongestFound DEF ReportsAreRight
<1> QED BY ReportsInit, ReportsStep, <1>1, PTL DEF RobustnessSpec

=============================================================================
