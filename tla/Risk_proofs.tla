---------------------------- MODULE Risk_proofs ----------------------------
(***************************************************************************)
(* Theorems about what keeps the runner out of the market: the gates on    *)
(* the account (RiskGates), for all equities, thresholds and sizes, and    *)
(* the calendars (EntryGates), for all events and feeds; and about the     *)
(* stops of a position (Stops), for all prices and volatilities.           *)
(***************************************************************************)
EXTENDS RiskGates, EntryGates, Stops, Operators_proofs, FiniteSetTheorems, TLAPS

-----------------------------------------------------------------------------
(* The gates on the account.                                               *)

\* The larger of two equities is one of them.
LEMMA HigherOfEquity ==
    ASSUME NEW a \in Nat, NEW b \in Nat
    PROVE  HigherOf(a, b) \in {a, b} /\ a <= HigherOf(a, b) /\ b <= HigherOf(a, b)
  BY DEF HigherOf

\* A capped size is no larger than the size and at most half of the base size,
\* or 1.
LEMMA CappedSize ==
    ASSUME NEW u \in Nat \ {0}
    PROVE  /\ Capped(u) \in {u} \cup 1..BaseUnits
           /\ Capped(u) = 1 \/ 2 * Capped(u) <= BaseUnits
<1>1. BaseUnits \in Nat \ {0}
  BY GatesAssumption DEF GatesAssumption
<1> QED BY <1>1 DEF Capped

\* Equities are numbers.
LEMMA EquityNat == Equity \subseteq Nat
  BY GatesAssumption DEF GatesAssumption, Equity

\* The initial state is of the types.
LEMMA TypeInit == Init => TypeOK
  BY GatesAssumption
     DEF Init, TypeOK, GatesAssumption, Date, Equity, Restriction, Outcome

\* What became of a pair leaves the kind of every value alone.
LEMMA TypePair == ASSUME TypeOK, ProcessPair PROVE TypeOK'
<1>1. /\ last' \in Outcome /\ alerted' \subseteq Restriction
      /\ units' \in Sizes \cup {0} \cup 1..BaseUnits
  <2>1. CASE ScaleIn
    BY <2>1 DEF ScaleIn, TypeOK, Outcome
  <2>2. CASE BreakerGate
    BY <2>2 DEF BreakerGate, TypeOK, Outcome
  <2>3. CASE DrawdownGate
    BY <2>3 DEF DrawdownGate, Announce, TypeOK, Outcome, Restriction
  <2>4. CASE VixGate
    BY <2>4 DEF VixGate, Announce, TypeOK, Outcome, Restriction
  <2>5. CASE OpenPosition
    <3>1. last' \in Outcome /\ alerted' \subseteq Restriction
      BY <2>5 DEF OpenPosition, Announce, TypeOK, Outcome, Restriction
    <3>2. PICK u \in Sizes : units' \in {u, Capped(u)}
      BY <2>5 DEF OpenPosition
    <3>3. u \in Nat \ {0}
      BY GatesAssumption DEF GatesAssumption
    <3> QED BY <3>1, <3>2, <3>3, CappedSize
  <2> QED BY <2>1, <2>2, <2>3, <2>4, <2>5 DEF ProcessPair
<1> QED BY <1>1 DEF ProcessPair, TypeOK, baselines

\* Every step keeps the types.
LEMMA TypeStep == ASSUME TypeOK, [Next]_vars PROVE TypeOK'
<1>1. CASE Midnight
  BY <1>1, GatesAssumption DEF Midnight, TypeOK, GatesAssumption, Date, baselines, attempt
<1>2. CASE NewDay
  BY <1>2 DEF NewDay, BeginDay, TypeOK, Equity, baselines, attempt
<1>3. CASE StartTick
  BY <1>3 DEF StartTick, TypeOK, Equity, Outcome, baselines
<1>4. CASE ProcessPair
  BY <1>4, TypePair
<1>5. CASE Review
  <2>1. hwm' \in {hwm, equity}
    BY <1>5, EquityNat, HigherOfEquity DEF Review, TypeOK
  <2> QED BY <1>5, <2>1 DEF Review, TypeOK, baselines, attempt
<1>6. CASE Restart
  BY <1>6, GatesAssumption
     DEF Restart, TypeOK, GatesAssumption, Date, Equity, Restriction, Outcome
<1>7. CASE UNCHANGED vars
  BY <1>7 DEF vars, TypeOK, baselines, attempt
<1> QED BY <1>1, <1>2, <1>3, <1>4, <1>5, <1>6, <1>7 DEF Next

\* Every variable of the gates holds a value of its kind, whatever the levels,
\* limits and sizes.
THEOREM GatesTypeCorrect == Spec => []TypeOK
  BY TypeInit, TypeStep, PTL DEF Spec

\* The drawdown that the gates compare with the thresholds is never negative:
\* a new process forgets the mark and the equity together, and a review raises
\* the mark before it compares.
THEOREM MarkNotBelowEquity == Spec => []DrawdownNotNegative
<1> DEFINE Inv == TypeOK /\ DrawdownNotNegative
<1>1. Init => Inv
  BY TypeInit, GatesAssumption DEF Init, DrawdownNotNegative, GatesAssumption
<1>2. Inv /\ [Next]_vars => Inv'
  <2> SUFFICES ASSUME Inv, [Next]_vars PROVE DrawdownNotNegative'
    BY TypeStep
  <2>1. CASE Review
    <3>1. hwm \in Nat /\ equity \in Nat
      BY EquityNat DEF TypeOK
    <3> QED BY <2>1, <3>1, HigherOfEquity DEF Review, DrawdownNotNegative
  <2>2. CASE Restart
    BY <2>2, GatesAssumption DEF Restart, DrawdownNotNegative, GatesAssumption
  <2>3. CASE Midnight \/ NewDay \/ StartTick \/ ProcessPair \/ UNCHANGED vars
    BY <2>3 DEF Midnight, NewDay, StartTick, ProcessPair, vars, DrawdownNotNegative
  <2> QED BY <2>1, <2>2, <2>3 DEF Next
<1> QED BY <1>1, <1>2, PTL DEF Spec

-----------------------------------------------------------------------------
(* Messages and gates.                                                     *)

\* A restriction that was announced and not called off is one the gate of the
\* next tick finds in the snapshot it reads.
AnnouncedHolds ==
    /\ "halt" \in alerted => DrawdownAtLeast(hwm, monitored, HaltDD)
    /\ "caution" \in alerted => DrawdownAtLeast(hwm, monitored, CautionDD)

\* Nothing is announced at the start.
LEMMA AnnouncedInit == Init => AnnouncedHolds
  BY DEF Init, AnnouncedHolds

\* A gate announces what it finds, a review calls off what its snapshot clears.
LEMMA AnnouncedStep == ASSUME AnnouncedHolds, [Next]_vars PROVE AnnouncedHolds'
<1>1. CASE ProcessPair
  <2> USE DEF AnnouncedHolds
  <2>1. /\ hwm' = hwm /\ monitored' = monitored
        /\ ScaleIn \/ BreakerGate \/ DrawdownGate \/ VixGate \/ OpenPosition
    BY <1>1 DEF ProcessPair
  <2>2. CASE ScaleIn \/ BreakerGate
    BY <2>1, <2>2 DEF ScaleIn, BreakerGate, DrawdownAtLeast
  <2>3. CASE DrawdownGate
    BY <2>1, <2>3 DEF DrawdownGate, Announce, DrawdownAtLeast
  <2>4. CASE VixGate
    BY <2>1, <2>4 DEF VixGate, Announce, DrawdownAtLeast
  <2>5. CASE OpenPosition
    BY <2>1, <2>5 DEF OpenPosition, Announce, DrawdownAtLeast
  <2> QED BY <2>1, <2>2, <2>3, <2>4, <2>5
<1>2. CASE Review
  <2>1. PICK v : alerted' = alerted \ Cleared(hwm', v)
    BY <1>2 DEF Review
  <2>2. monitored' = equity
    BY <1>2 DEF Review
  <2> QED BY <2>1, <2>2 DEF Cleared, AnnouncedHolds, DrawdownAtLeast
<1>3. CASE Restart
  BY <1>3 DEF Restart, AnnouncedHolds
<1>4. CASE Midnight \/ NewDay \/ StartTick \/ UNCHANGED vars
  BY <1>4 DEF Midnight, NewDay, StartTick, vars, AnnouncedHolds, DrawdownAtLeast
<1> QED BY <1>1, <1>2, <1>3, <1>4 DEF Next

\* An entry is a step of the last gate.
LEMMA EntryIsOpen == ASSUME Enters, [Next]_vars, ~UNCHANGED vars PROVE OpenPosition
<1>1. CASE ProcessPair
  BY <1>1 DEF ProcessPair, Enters, ScaleIn, BreakerGate, DrawdownGate, VixGate
<1>2. CASE Midnight \/ NewDay \/ StartTick \/ Review \/ Restart
  BY <1>2 DEF Midnight, NewDay, StartTick, Review, Restart, Enters
<1> QED BY <1>1, <1>2 DEF Next

\* For all thresholds and equities: after the message that no entry is made,
\* none is, until the message that calls it off.
THEOREM HaltKept == Spec => HaltAnnouncementKept
<1>1. AnnouncedHolds /\ [Next]_vars => [Enters => "halt" \notin alerted]_vars
  BY EntryIsOpen DEF AnnouncedHolds, OpenPosition
<1> QED BY AnnouncedInit, AnnouncedStep, <1>1, PTL DEF Spec, HaltAnnouncementKept

\* For all base sizes and sizing rules: after the message that sizes are halved
\* no entry is larger than half of the base size, or 1, until it is called off.
THEOREM CautionKept == Spec => CautionAnnouncementKept
<1>1. ASSUME AnnouncedHolds, [Next]_vars, Enters, "caution" \in alerted, ~UNCHANGED vars
      PROVE  units' = 1 \/ 2 * units' <= BaseUnits
  <2>1. OpenPosition /\ DrawdownAtLeast(hwm, monitored, CautionDD)
    BY <1>1, EntryIsOpen DEF AnnouncedHolds
  <2>2. PICK u \in Sizes : units' = Capped(u)
    BY <2>1 DEF OpenPosition
  <2>3. u \in Nat \ {0}
    BY GatesAssumption DEF GatesAssumption
  <2> QED BY <2>2, <2>3, CappedSize
<1>2. AnnouncedHolds /\ [Next]_vars =>
          [Enters /\ "caution" \in alerted => units' = 1 \/ 2 * units' <= BaseUnits]_vars
  BY <1>1
<1> QED BY AnnouncedInit, AnnouncedStep, <1>2, PTL DEF Spec, CautionAnnouncementKept

-----------------------------------------------------------------------------
(* The calendars.                                                          *)

\* What the runner knows of the calendars is what its start made of the feed,
\* and an entry of this slot passed both calendars.
CalendarInv ==
    /\ slot \in Nat /\ refreshedAt \in Nat
    /\ events = Refreshed(lastFeed, refreshedAt)
    /\ tookEntry => ~IsBlackoutPeriod(slot) /\ ~IsBojBlackout(slot)

\* The first process takes the calendars from its feed.
LEMMA CalendarInit == EntryGatesInit => CalendarInv
  BY DEF EntryGatesInit, CalendarInv

\* Every step keeps CalendarInv: a new slot begins without an entry.
LEMMA CalendarStep ==
    ASSUME CalendarInv, [EntryGatesNext]_entryGatesVars PROVE CalendarInv'
<1>1. CASE SlotPasses
  BY <1>1 DEF SlotPasses, CalendarInv, Refreshed, DateOf
<1>2. CASE CalendarRestart
  BY <1>2 DEF CalendarRestart, CalendarInv, Refreshed, DateOf
<1>3. CASE EntrySignal
  <2>1. /\ UNCHANGED <<slot, events, refreshedAt, lastFeed>>
        /\ tookEntry' => ~IsBlackoutPeriod(slot) /\ ~IsBojBlackout(slot)
    BY <1>3 DEF EntrySignal
  <2> QED BY <2>1 DEF CalendarInv, Refreshed, DateOf, IsBlackoutPeriod, IsBojBlackout
<1>4. CASE UNCHANGED entryGatesVars
  BY <1>4 DEF entryGatesVars, CalendarInv, Refreshed, DateOf, IsBlackoutPeriod,
              IsBojBlackout
<1> QED BY <1>1, <1>2, <1>3, <1>4 DEF EntryGatesNext

\* Whatever the file and the feed name, however long the windows are and
\* whenever the process started: no entry around an event or a meeting, but for
\* the two cases the property names.
THEOREM EntriesAvoidEvents == EntryGatesSpec => []EntryAvoidsEvents
<1>1. CalendarInv => EntryAvoidsEvents
  <2> SUFFICES ASSUME CalendarInv, tookEntry PROVE EntryAvoidsEvents
    BY DEF EntryAvoidsEvents
  <2>1. /\ events = Refreshed(lastFeed, refreshedAt) /\ refreshedAt \in Nat
        /\ \A e \in events : ~Within(EventWindow, e.at, slot)
        /\ \A m \in Meetings : ~Within(BojWindow, m, slot)
    BY DEF CalendarInv, IsBlackoutPeriod, IsBojBlackout
  <2>2. lastFeed \subseteq events
    BY <2>1 DEF Refreshed
  <2>3. ASSUME NEW e \in StaticEvents, e \notin events
        PROVE  \/ e.at <= refreshedAt /\ lastFeed # {}
               \/ \E f \in lastFeed : f.name = e.name /\ DateOf(f) = DateOf(e)
    <3>1. /\ lastFeed # {}
          /\ ~(e.at > refreshedAt)
                \/ \E f \in lastFeed : f.name = e.name /\ DateOf(f) = DateOf(e)
      BY <2>1, <2>3 DEF Refreshed
    <3>2. e.at \in Nat
      BY EntryGatesAssumption DEF EntryGatesAssumption
    <3> QED BY <2>1, <3>1, <3>2
  <2> QED BY <2>1, <2>2, <2>3 DEF EntryAvoidsEvents
<1> QED BY CalendarInit, CalendarStep, <1>1, PTL DEF EntryGatesSpec

-----------------------------------------------------------------------------
(* The stops of a position.                                                *)

\* The stops the runner computes are prices: an entry's stop, the trailing
\* stop and the tightened stop are not below zero.
PricesAboveStops ==
    \A p \in Prices, a \in Atrs : StopMult * a <= p /\ TrailMult * a <= p /\ a <= p

\* The parts of the invariant.  While at most one trade was opened, the stop
\* the runner remembers for it is the stop the broker holds, unless an answer
\* was lost: that is what makes "tighter than mine" mean tighter.
CandleOK == candle \in [close : Prices, atr : Atrs] /\ opened \in Nat

TradesOK ==
    /\ DOMAIN trades \subseteq 1..opened
    /\ trades = [t \in DOMAIN trades |-> trades[t]]
    /\ lost \in Nat
    /\ \A t \in DOMAIN trades : trades[t] \in [price : Int, stop : Nat]

PositionRecords == [entry : Int, stop : Int, tid : {0, 1}, tids : SUBSET {1}, hwm : Int]

PositionOK ==
    /\ position \in PositionRecords
    /\ opened = 0 => position = NoPosition
    /\ position.tid = 0 => position.tids = {}
    /\ savedHwm \in Int

BelievesRight ==
    lost = 0 /\ 1 \in DOMAIN trades /\ position.tid # 0 => position.stop = trades[1].stop

StopInv == CandleOK /\ (opened <= 1 => TradesOK /\ PositionOK /\ BelievesRight)

\* What StopsRatchet says of a step.
NoStopLowered ==
    opened = 1 /\ lost = 0 =>
         \A t \in DOMAIN trades \cap DOMAIN trades' : trades'[t].stop >= trades[t].stop

\* The average price of a single trade is a number.  The sum is a fold, which
\* has exactly one value here: the recursion has two arguments.
LEMMA AvgPriceInt ==
    ASSUME opened = 1, TradesOK, DOMAIN trades # {}
    PROVE  AvgPrice \in Int
<1>1. DOMAIN trades = {1}
  BY DEF TradesOK
<1>2. trades[1].price \in Int
  BY <1>1 DEF TradesOK
<1>3. Cardinality(DOMAIN trades) = 1
  BY <1>1, FS_Singleton
<1> DEFINE one(s) == CHOOSE x \in s : TRUE
           body(f) == [s \in SUBSET {1} |-> IF s = {} THEN 0
                             ELSE trades[one(s)].price + f[s \ {one(s)}]]
           it == CHOOSE f : f = body(f)
           fix == [s \in SUBSET {1} |-> IF s = {} THEN 0 ELSE trades[1].price]
<1>4. \A s \in SUBSET {1} : s # {} => one(s) = 1
  OBVIOUS
<1> HIDE DEF one
<1>5. fix = body(fix)
  <2>1. ASSUME NEW s \in SUBSET {1} PROVE fix[s] = body(fix)[s]
    <3>1. CASE s = {}
      BY <3>1
    <3>2. CASE s # {}
      <4>1. s = {1} /\ one(s) = 1 /\ s \ {one(s)} = {}
        BY <3>2, <1>4
      <4>2. fix[s] = trades[1].price /\ fix[{}] = 0
        BY <3>2
      <4>3. body(fix)[s] = trades[1].price + fix[{}]
        BY <4>1, <3>2
      <4> QED BY <4>2, <4>3, <1>2
    <3> QED BY <3>1, <3>2
  <2>2. fix = [s \in SUBSET {1} |-> fix[s]] /\ body(fix) = [s \in SUBSET {1} |-> body(fix)[s]]
    OBVIOUS
  <2> HIDE DEF fix, body
  <2> QED BY <2>1, <2>2
<1>6. it = body(it)
  <2> HIDE DEF fix, body
  <2> QED BY <1>5, Zenon DEF it
<1>7. it[{1}] \in Int
  <2> HIDE DEF it
  <2>1. it[{}] = 0
    BY <1>6
  <2>2. it[{1}] = trades[1].price + it[{}]
    <3>1. {1} \in SUBSET {1} /\ {1} # {} /\ one({1}) = 1 /\ {1} \ {one({1})} = {}
      BY <1>4
    <3>2. it[{1}] = body(it)[{1}]
      BY <1>6, Zenon
    <3>3. body(it)[{1}] = trades[one({1})].price + it[{1} \ {one({1})}]
      BY <3>1
    <3> QED BY <3>1, <3>2, <3>3
  <2> QED BY <2>1, <2>2, <1>2
<1>8. AvgPrice = it[{1}] \div 1
  BY <1>1, <1>3, Zenon DEF AvgPrice, FoldFunction, FoldFunctionOnSet, MapThenFoldSet, it, body, one
<1> HIDE DEF it
<1> QED BY <1>7, <1>8

\* In the initial state there is neither a trade nor a position.
LEMMA StopsInitInv == StopsInit => StopInv
  BY DEF StopsInit, StopInv, CandleOK, TradesOK, PositionOK, BelievesRight, NoPosition, PositionRecords

\* The maximum of two or three numbers.
LEMMA MaxOfThree ==
    ASSUME NEW a \in Int, NEW b \in Int, NEW c \in Int
    PROVE  /\ Max({a, b}) \in Int /\ a <= Max({a, b}) /\ b <= Max({a, b})
           /\ Max({a, b, c}) \in Int /\ a <= Max({a, b, c}) /\ b <= Max({a, b, c})
<1>1. PICK m \in Int : a <= m /\ b <= m /\ c <= m
  OBVIOUS
<1> DEFINE two == {a, b}
           three == {a, b, c}
<1>2. two \in SUBSET Int /\ two # {} /\ (\A x \in two : x <= m)
  BY <1>1
<1>3. three \in SUBSET Int /\ three # {} /\ (\A x \in three : x <= m)
  BY <1>1
<1>4. a \in two /\ b \in two /\ a \in three /\ b \in three
  OBVIOUS
<1> HIDE DEF two, three
<1>5. Max(two) \in two /\ \A x \in two : Max(two) >= x
  BY <1>2, MaxIsLargest
<1>6. Max(three) \in three /\ \A x \in three : Max(three) >= x
  BY <1>3, MaxIsLargest
<1>7. Max(two) \in Int /\ a <= Max(two) /\ b <= Max(two)
  BY <1>2, <1>4, <1>5
<1>8. Max(three) \in Int /\ a <= Max(three) /\ b <= Max(three)
  BY <1>3, <1>4, <1>6
<1> QED BY <1>7, <1>8 DEF two, three

\* The candle's numbers, and the stops computed from them.
LEMMA StopsArePrices ==
    ASSUME StopInv, PricesAboveStops
    PROVE  /\ candle.close \in Nat \ {0} /\ candle.atr \in Nat \ {0}
           /\ StopMult \in Nat /\ TrailMult \in Nat
           /\ InitialStop \in Nat
           /\ candle.close - candle.atr \in Nat
           /\ candle.close - TrailMult * candle.atr \in Nat
<1>1. candle.close \in Prices /\ candle.atr \in Atrs
  BY DEF StopInv, CandleOK
<1>2. /\ candle.close \in Nat \ {0} /\ candle.atr \in Nat \ {0}
      /\ StopMult \in Nat /\ TrailMult \in Nat
  BY <1>1, StopsAssumption DEF StopsAssumption
<1>3. /\ StopMult * candle.atr <= candle.close
      /\ TrailMult * candle.atr <= candle.close
      /\ candle.atr <= candle.close
  BY <1>1 DEF PricesAboveStops
<1>4. StopMult * candle.atr \in Nat /\ TrailMult * candle.atr \in Nat
  BY <1>2
<1> QED BY <1>2, <1>3, <1>4 DEF InitialStop

\* A new high changes nothing but the high, and the trailing stop is a price.
LEMMA HighIsPrice ==
    ASSUME StopInv, PricesAboveStops, opened <= 1
    PROVE  /\ NewHigh(position) \in PositionRecords
           /\ NewHigh(position).tid = position.tid /\ NewHigh(position).tids = position.tids
           /\ NewHigh(position).stop = position.stop
           /\ NewHigh(position).entry = position.entry
           /\ NewStop(NewHigh(position)) \in Nat
<1>1. position \in PositionRecords /\ position.hwm \in Int
  BY DEF StopInv, PositionOK, PositionRecords
<1>2. candle.close \in Int
  BY StopsArePrices
<1> DEFINE m == Max({position.hwm, candle.close})
<1>3. m \in Int /\ candle.close <= m
  BY <1>1, <1>2, MaxOfThree
<1> HIDE DEF m
<1>4. NewHigh(position) = [position EXCEPT !.hwm = m]
  BY DEF NewHigh, m
<1>5. NewHigh(position) \in PositionRecords /\ NewHigh(position).hwm = m
  BY <1>1, <1>3, <1>4 DEF PositionRecords
<1>6. /\ NewHigh(position).tid = position.tid /\ NewHigh(position).tids = position.tids
      /\ NewHigh(position).stop = position.stop
      /\ NewHigh(position).entry = position.entry
  BY <1>1, <1>4 DEF PositionRecords
<1>7. NewStop(NewHigh(position)) \in Nat
  <2>1. TrailMult * candle.atr \in Nat
    BY StopsArePrices
  <2>2. m - TrailMult * candle.atr \in Nat
    BY <1>2, <1>3, <2>1, StopsArePrices
  <2> QED BY <1>5, <2>2, StopsArePrices DEF NewStop
<1> QED BY <1>5, <1>6, <1>7

\* At most one answer is lost with a request.
LEMMA OutcomeLost ==
    ASSUME NEW t, NEW stop, NEW o \in Outcomes(t, stop, trades)
    PROVE  o.lost \in Nat /\ o.told \in BOOLEAN
<1>1. \/ o = [trades |-> trades, told |-> FALSE, lost |-> 0]
      \/ \E told \in BOOLEAN :
             o = [trades |-> [trades EXCEPT ![t].stop = stop],
                  told |-> told, lost |-> IF told THEN 0 ELSE 1]
  BY DEF Outcomes
<1>2. CASE o = [trades |-> trades, told |-> FALSE, lost |-> 0]
  BY <1>2
<1>3. ASSUME NEW told \in BOOLEAN,
             o = [trades |-> [trades EXCEPT ![t].stop = stop],
                  told |-> told, lost |-> IF told THEN 0 ELSE 1]
      PROVE  o.lost \in Nat /\ o.told \in BOOLEAN
  BY <1>3
<1> QED BY <1>1, <1>2, <1>3

\* A request of the runner about the one trade.
LEMMA OutcomeOfOne ==
    ASSUME TradesOK, NEW t, NEW stop \in Nat, NEW o \in Outcomes(t, stop, trades)
    PROVE  /\ o.lost \in {0, 1} /\ o.told \in BOOLEAN
           /\ DOMAIN o.trades = DOMAIN trades
           /\ o.trades = [u \in DOMAIN trades |-> o.trades[u]]
           /\ \A u \in DOMAIN trades :
                  /\ o.trades[u] \in [price : Int, stop : Nat]
                  /\ o.trades[u] = trades[u] \/ (u = t /\ o.trades[u].stop = stop)
           /\ o.told => t \in DOMAIN trades /\ o.trades[t].stop = stop
           /\ ~o.told /\ o.lost = 0 => o.trades = trades
<1>1. CASE o = [trades |-> trades, told |-> FALSE, lost |-> 0]
  <2>1. o.trades = trades /\ o.told = FALSE /\ o.lost = 0
    BY <1>1
  <2> QED BY <2>1 DEF TradesOK
<1>2. CASE t \in DOMAIN trades /\ \E told \in BOOLEAN :
             o = [trades |-> [trades EXCEPT ![t].stop = stop],
                  told |-> told, lost |-> IF told THEN 0 ELSE 1]
  <2>1. PICK told \in BOOLEAN : o = [trades |-> [trades EXCEPT ![t].stop = stop],
                  told |-> told, lost |-> IF told THEN 0 ELSE 1]
    BY <1>2
  <2>2. o.told = told /\ o.lost \in {0, 1} /\ (~told => o.lost = 1)
    BY <2>1
  <2>3. o.trades = [trades EXCEPT ![t].stop = stop]
    BY <2>1
  <2>4. DOMAIN o.trades = DOMAIN trades /\ o.trades = [u \in DOMAIN trades |-> o.trades[u]]
    BY <2>3
  <2>5. \A u \in DOMAIN trades :
            o.trades[u] = IF u = t THEN [trades[t] EXCEPT !.stop = stop] ELSE trades[u]
    BY <2>3
  <2>6. trades[t] \in [price : Int, stop : Nat]
    BY <1>2 DEF TradesOK
  <2>7. o.trades[t] \in [price : Int, stop : Nat] /\ o.trades[t].stop = stop
    BY <2>5, <2>6, <1>2
  <2>8. \A u \in DOMAIN trades :
            /\ o.trades[u] \in [price : Int, stop : Nat]
            /\ o.trades[u] = trades[u] \/ (u = t /\ o.trades[u].stop = stop)
    BY <2>5, <2>7, <1>2 DEF TradesOK
  <2> QED BY <1>2, <2>2, <2>4, <2>7, <2>8
<1>3. \/ o = [trades |-> trades, told |-> FALSE, lost |-> 0]
      \/ t \in DOMAIN trades /\ \E told \in BOOLEAN :
             o = [trades |-> [trades EXCEPT ![t].stop = stop],
                  told |-> told, lost |-> IF told THEN 0 ELSE 1]
  BY DEF Outcomes
<1> QED BY <1>1, <1>2, <1>3

\* The one trade that may be open has the number 1.
LEMMA SomeTrade ==
    ASSUME TradesOK, opened <= 1, opened \in Nat, trades # [t \in {} |-> 0]
    PROVE  opened = 1 /\ DOMAIN trades = {1}
<1>1. DOMAIN trades # {}
  BY DEF TradesOK
<1>2. PICK t : t \in DOMAIN trades
  BY <1>1
<1>3. DOMAIN trades \subseteq 1..opened
  BY DEF TradesOK
<1>4. t \in 1..opened
  BY <1>2, <1>3
<1>5. opened = 1 /\ t = 1 /\ 1..opened = {1}
  BY <1>4
<1> QED BY <1>2, <1>3, <1>5

\* The broker closes a trade at its stop.
LEMMA StopsFireStep ==
    ASSUME StopInv, StopFires PROVE StopInv' /\ NoStopLowered
<1>1. PICK t \in DOMAIN trades : trades' = Restrict(trades, DOMAIN trades \ {t})
  BY DEF StopFires
<1>2. UNCHANGED <<opened, position, manager, savedHwm, candle, stopPhase, lost>>
  BY DEF StopFires
<1>3. /\ DOMAIN trades' = DOMAIN trades \ {t}
      /\ \A u \in DOMAIN trades' : trades'[u] = trades[u]
      /\ trades' = [u \in DOMAIN trades' |-> trades'[u]]
  BY <1>1 DEF Restrict
<1>4. CandleOK' /\ (opened' <= 1 => PositionOK')
  BY <1>2 DEF StopInv, CandleOK, PositionOK
<1>5. opened' <= 1 => TradesOK' /\ BelievesRight'
  BY <1>2, <1>3 DEF StopInv, TradesOK, BelievesRight
<1>6. NoStopLowered
  <2>1. SUFFICES ASSUME opened = 1, NEW u \in DOMAIN trades \cap DOMAIN trades'
                 PROVE  trades'[u].stop >= trades[u].stop
    BY DEF NoStopLowered
  <2>2. trades[u].stop \in Nat
    BY <2>1 DEF StopInv, TradesOK
  <2> QED BY <1>3, <2>1, <2>2
<1> QED BY <1>4, <1>5, <1>6 DEF StopInv

\* Steps that leave the trades alone lower no stop.
LEMMA KeptStill == ASSUME StopInv, UNCHANGED trades PROVE NoStopLowered
<1>1. SUFFICES ASSUME opened = 1, NEW u \in DOMAIN trades
               PROVE  trades'[u].stop >= trades[u].stop
  BY DEF NoStopLowered
<1>2. trades[u].stop \in Nat
  BY <1>1 DEF StopInv, TradesOK
<1> QED BY <1>2

\* A trade of somebody else carries no stop, and the runner none for it.
LEMMA ForeignStep ==
    ASSUME StopInv, PricesAboveStops, ForeignTrade PROVE StopInv' /\ NoStopLowered
<1>1. candle.close \in Nat
  BY StopsArePrices
<1>2. /\ opened \in Nat /\ opened' = opened + 1 /\ DOMAIN trades = {}
      /\ trades' = [t \in {opened + 1} |-> [price |-> candle.close, stop |-> 0]]
      /\ UNCHANGED <<position, manager, savedHwm, candle, stopPhase, lost>>
  BY DEF ForeignTrade, StopInv, CandleOK
<1>3. NoStopLowered
  BY <1>2 DEF NoStopLowered
<1>4. CandleOK'
  BY <1>2 DEF StopInv, CandleOK
<1>5. ASSUME opened' <= 1 PROVE TradesOK' /\ PositionOK' /\ BelievesRight'
  <2>1. opened = 0 /\ opened' = 1 /\ position = NoPosition /\ lost \in Nat
    <3>1. opened = 0 /\ opened' = 1
      BY <1>2, <1>5
    <3> QED BY <3>1 DEF StopInv, PositionOK, TradesOK
  <2>2. TradesOK'
    BY <1>1, <1>2, <2>1 DEF TradesOK
  <2>3. PositionOK' /\ BelievesRight'
    BY <1>2, <2>1 DEF StopInv, PositionOK, BelievesRight, NoPosition
  <2> QED BY <2>2, <2>3
<1> QED BY <1>3, <1>4, <1>5 DEF StopInv

\* An adopted position has no trade of its own, hence no stop to compare.
LEMMA BeginStep ==
    ASSUME StopInv, BeginTick PROVE StopInv' /\ NoStopLowered
<1>1. /\ candle' \in [close : Prices, atr : Atrs]
      /\ UNCHANGED <<trades, opened, manager, savedHwm, lost>>
  BY DEF BeginTick
<1>2. NoStopLowered
  BY <1>1, KeptStill
<1>3. CandleOK' /\ (opened' <= 1 => TradesOK')
  BY <1>1 DEF StopInv, CandleOK, TradesOK
<1>4. ASSUME opened <= 1 PROVE PositionOK' /\ BelievesRight'
  <2>1. CASE UNCHANGED position
    BY <1>1, <1>4, <2>1 DEF StopInv, PositionOK, BelievesRight
  <2>2. CASE position' = NoPosition
    BY <1>1, <1>4, <2>2 DEF StopInv, PositionOK, BelievesRight, NoPosition, PositionRecords
  <2>3. CASE /\ trades # [t \in {} |-> 0]
             /\ position' = [NoPosition EXCEPT !.entry = AvgPrice, !.hwm = AvgPrice]
    <3>1. opened = 1 /\ DOMAIN trades = {1}
      BY <1>4, <2>3, SomeTrade DEF StopInv, CandleOK
    <3>2. AvgPrice \in Int
      BY <1>4, <3>1, AvgPriceInt DEF StopInv
    <3>3. /\ position' \in PositionRecords /\ position'.tid = 0 /\ position'.tids = {}
      <4>1. position' = [entry |-> AvgPrice, stop |-> 0, tid |-> 0, tids |-> {},
                         hwm |-> AvgPrice]
        BY <2>3 DEF NoPosition
      <4> HIDE DEF AvgPrice
      <4> QED BY <4>1, <3>2 DEF PositionRecords
    <3> QED BY <1>1, <1>4, <3>1, <3>3 DEF StopInv, PositionOK, BelievesRight
  <2> QED BY <2>1, <2>2, <2>3 DEF BeginTick
<1> QED BY <1>1, <1>2, <1>3, <1>4 DEF StopInv

\* The exit manager: a new high, or the close of the pair.
LEMMA ExitStep ==
    ASSUME StopInv, PricesAboveStops, CheckExitManager PROVE StopInv' /\ NoStopLowered
<1>1. UNCHANGED <<opened, candle>> /\ Held
  BY DEF CheckExitManager
<1>2. CASE position' = NewHigh(position) /\ UNCHANGED <<trades, savedHwm, lost>>
  <2>1. NoStopLowered
    BY <1>2, KeptStill
  <2>2. CandleOK' /\ (opened' <= 1 => TradesOK')
    BY <1>1, <1>2 DEF StopInv, CandleOK, TradesOK
  <2>3. ASSUME opened <= 1 PROVE PositionOK' /\ BelievesRight'
    <3>1. /\ position' \in PositionRecords /\ position'.tid = position.tid
          /\ position'.tids = position.tids /\ position'.stop = position.stop
      BY <1>2, <2>3, HighIsPrice
    <3> QED BY <1>1, <1>2, <2>3, <3>1 DEF StopInv, PositionOK, BelievesRight, Held
  <2> QED BY <1>1, <2>1, <2>2, <2>3 DEF StopInv
<1>3. CASE /\ position' = NoPosition /\ savedHwm' = 0
           /\ \/ trades' = [t \in {} |-> 0] /\ (opened <= 1 => lost' \in Nat)
              \/ UNCHANGED <<trades, lost>>
  <2>1. NoStopLowered
    <3>1. CASE UNCHANGED trades
      BY <3>1, KeptStill
    <3>2. CASE trades' = [t \in {} |-> 0]
      BY <3>2 DEF NoStopLowered
    <3> QED BY <1>3, <3>1, <3>2
  <2>2. CandleOK' /\ (opened' <= 1 => TradesOK')
    BY <1>1, <1>3 DEF StopInv, CandleOK, TradesOK
  <2>3. opened' <= 1 => PositionOK' /\ BelievesRight'
    BY <1>1, <1>3 DEF StopInv, PositionOK, BelievesRight, NoPosition, PositionRecords
  <2> QED BY <2>1, <2>2, <2>3 DEF StopInv
<1>4. ASSUME ClosePositionAndManager
      PROVE  \/ position' = NewHigh(position) /\ UNCHANGED <<trades, savedHwm, lost>>
             \/ /\ position' = NoPosition /\ savedHwm' = 0
                /\ \/ trades' = [t \in {} |-> 0] /\ (opened <= 1 => lost' \in Nat)
                   \/ UNCHANGED <<trades, lost>>
  <2>1. opened <= 1 => lost \in Nat /\ lost + 1 \in Nat
    BY DEF StopInv, TradesOK
  <2> QED BY <1>4, <2>1 DEF ClosePositionAndManager
<1>5. \/ ClosePositionAndManager
      \/ position' = NewHigh(position) /\ UNCHANGED <<trades, savedHwm, lost>>
  <2> DEFINE em == IF manager = NoManager THEN [stop |-> 0, trailing |-> FALSE]
                   ELSE manager
             signals == {CheckExit(NewHigh(position), em, past, age, regime) :
                          past \in Atrs, age \in 0..3, regime \in StopRegimes}
  <2>1. \E exits \in signals :
           IF exits
           THEN ClosePositionAndManager /\ stopPhase' = "stops"
           ELSE /\ position' = NewHigh(position) /\ manager' = Trailed(NewHigh(position), em)
                /\ stopPhase' = "entry"
                /\ UNCHANGED <<trades, savedHwm, lost>>
    BY DEF CheckExitManager
  <2> QED BY <2>1
<1> QED BY <1>2, <1>3, <1>4, <1>5

\* The first entry is recorded with the stop its order carries.
LEMMA FillsStep ==
    ASSUME StopInv, PricesAboveStops, Fills PROVE StopInv' /\ NoStopLowered
<1>1. candle.close \in Nat /\ InitialStop \in Nat
  BY StopsArePrices
<1>2. /\ opened \in Nat /\ opened' = opened + 1
      /\ trades' = [t \in DOMAIN trades \cup {opened + 1} |->
                     IF t \in DOMAIN trades THEN trades[t]
                     ELSE [price |-> candle.close, stop |-> InitialStop]]
      /\ UNCHANGED <<savedHwm, candle, lost>>
  BY DEF Fills, StopInv, CandleOK
<1>3. NoStopLowered
  <2>1. SUFFICES ASSUME opened = 1, NEW u \in DOMAIN trades
                 PROVE  trades'[u].stop >= trades[u].stop
    BY DEF NoStopLowered
  <2>2. trades[u].stop \in Nat
    BY <2>1 DEF StopInv, TradesOK
  <2> QED BY <1>2, <2>2
<1>4. CandleOK'
  BY <1>2 DEF StopInv, CandleOK
<1>5. ASSUME opened' <= 1 PROVE TradesOK' /\ PositionOK' /\ BelievesRight'
  <2>1. opened = 0 /\ opened' = 1 /\ position = NoPosition /\ DOMAIN trades = {}
        /\ lost \in Nat
    <3>1. opened = 0 /\ opened' = 1
      BY <1>2, <1>5
    <3>2. TradesOK /\ PositionOK
      BY <3>1 DEF StopInv
    <3>3. DOMAIN trades \subseteq 1..0 /\ 1..0 = {}
      BY <3>1, <3>2 DEF TradesOK
    <3> QED BY <3>1, <3>2, <3>3 DEF PositionOK, TradesOK
  <2>2. trades' = [t \in {1} |-> [price |-> candle.close, stop |-> InitialStop]]
    BY <1>2, <2>1
  <2>3. TradesOK'
    BY <1>1, <1>2, <2>1, <2>2 DEF TradesOK
  <2>4. position' = [entry |-> candle.close, stop |-> InitialStop,
                     tid |-> 1, tids |-> {}, hwm |-> candle.close]
    BY <2>1 DEF Fills, Held
  <2>5. PositionOK' /\ BelievesRight'
    BY <1>1, <1>2, <2>1, <2>2, <2>4 DEF StopInv, PositionOK, BelievesRight, PositionRecords
  <2> QED BY <2>3, <2>5
<1> QED BY <1>3, <1>4, <1>5 DEF StopInv

\* A request about the only trade the runner knows raises its stop.
LEMMA RequestRaises ==
    ASSUME StopInv, opened = 1, lost = 0, position.tid # 0,
           NEW t, position.tid = t, NEW stop \in Nat, Tighter(position, stop),
           NEW o \in Outcomes(t, stop, trades)
    PROVE  \A u \in DOMAIN trades : o.trades[u].stop >= trades[u].stop
<1>1. SUFFICES ASSUME NEW u \in DOMAIN trades
               PROVE  o.trades[u].stop >= trades[u].stop
  OBVIOUS
<1>2. TradesOK /\ PositionOK /\ BelievesRight
  BY DEF StopInv
<1>3. u = 1 /\ trades[u].stop \in Nat
  BY <1>1, <1>2 DEF TradesOK
<1>4. position.stop = trades[u].stop
  BY <1>1, <1>2, <1>3 DEF BelievesRight
<1>5. o.trades[u] = trades[u] \/ (u = t /\ o.trades[u].stop = stop)
  <2>1. \A v \in DOMAIN trades : o.trades[v] = trades[v] \/ (v = t /\ o.trades[v].stop = stop)
    <3>0. TradesOK
      BY <1>2
    <3>1. /\ o.lost \in {0, 1} /\ o.told \in BOOLEAN
          /\ DOMAIN o.trades = DOMAIN trades
          /\ o.trades = [v \in DOMAIN trades |-> o.trades[v]]
          /\ \A v \in DOMAIN trades :
                  /\ o.trades[v] \in [price : Int, stop : Nat]
                  /\ o.trades[v] = trades[v] \/ (v = t /\ o.trades[v].stop = stop)
      BY <3>0, OutcomeOfOne
    <3> QED BY <3>1
  <2> QED BY <1>1, <2>1
<1> QED BY <1>3, <1>4, <1>5 DEF Tighter

\* What a request leaves of the invariant: the position may have a new stop.
LEMMA RequestKeeps ==
    ASSUME StopInv, opened <= 1, NEW t, position.tid # 0 => position.tid = t,
           NEW stop \in Nat, NEW o \in Outcomes(t, stop, trades),
           NEW pos \in PositionRecords, pos.tid = position.tid, pos.tids = position.tids,
           pos.stop = position.stop, position # NoPosition,
           UNCHANGED opened, lost' = lost + o.lost,
           trades' = o.trades,
           position' = IF o.told THEN [pos EXCEPT !.stop = stop] ELSE pos,
           savedHwm' \in Int
    PROVE  TradesOK' /\ PositionOK' /\ BelievesRight'
<1>1. TradesOK /\ PositionOK /\ BelievesRight /\ lost \in Nat
  BY DEF StopInv, TradesOK
<1>2. /\ o.lost \in {0, 1} /\ o.told \in BOOLEAN
      /\ DOMAIN o.trades = DOMAIN trades
      /\ o.trades = [u \in DOMAIN trades |-> o.trades[u]]
      /\ \A u \in DOMAIN trades : o.trades[u] \in [price : Int, stop : Nat]
      /\ o.told => t \in DOMAIN trades /\ o.trades[t].stop = stop
      /\ ~o.told /\ o.lost = 0 => o.trades = trades
  BY <1>1, OutcomeOfOne
<1>3. TradesOK'
  BY <1>1, <1>2 DEF TradesOK
<1>4. /\ position' \in PositionRecords /\ position'.tid = pos.tid /\ position'.tids = pos.tids
      /\ position'.stop = IF o.told THEN stop ELSE pos.stop
  BY <1>2 DEF PositionRecords
<1>5. PositionOK'
  BY <1>1, <1>4 DEF PositionOK
<1>6. BelievesRight'
  <2>1. SUFFICES ASSUME lost' = 0, 1 \in DOMAIN trades', position'.tid # 0
                 PROVE  position'.stop = trades'[1].stop
    BY DEF BelievesRight
  <2>2. lost = 0 /\ o.lost = 0
    BY <1>1, <1>2, <2>1
  <2>3. position.tid = 1 /\ t = 1
    BY <1>1, <1>4, <2>1 DEF PositionOK, PositionRecords
  <2>4. CASE o.told
    BY <1>2, <1>4, <2>3, <2>4
  <2>5. CASE ~o.told
    BY <1>1, <1>2, <1>4, <2>1, <2>2, <2>5 DEF BelievesRight
  <2> QED BY <1>2, <2>4, <2>5
<1> QED BY <1>3, <1>5, <1>6

\* The trailing of the regular tick.
LEMMA UpdateStep ==
    ASSUME StopInv, PricesAboveStops, UpdateStopLosses PROVE StopInv' /\ NoStopLowered
<1> DEFINE pos == NewHigh(position)
           new == NewStop(pos)
<1>1. UNCHANGED <<opened, candle>> /\ savedHwm' = position'.hwm
  BY DEF UpdateStopLosses
<1>2. ASSUME opened <= 1
      PROVE  /\ pos \in PositionRecords /\ new \in Nat /\ pos.tid = position.tid
             /\ pos.tids = position.tids /\ pos.stop = position.stop
  BY <1>2, HighIsPrice
<1> HIDE DEF new, pos
<1>3. CASE (~Held \/ position.tid = 0) /\ UNCHANGED <<trades, position, lost>>
  <2>1. NoStopLowered
    BY <1>3, KeptStill
  <2>2. opened <= 1 => savedHwm' \in Int
    BY <1>1, <1>3 DEF StopInv, PositionOK, PositionRecords
  <2> QED BY <1>1, <1>3, <2>1, <2>2
          DEF StopInv, CandleOK, TradesOK, PositionOK, BelievesRight
<1>4. CASE Held /\ position.tid # 0 /\ position' = pos /\ UNCHANGED <<trades, lost>>
  <2>1. NoStopLowered
    BY <1>4, KeptStill
  <2>2. opened <= 1 => savedHwm' \in Int
    BY <1>1, <1>2, <1>4 DEF PositionRecords
  <2> QED BY <1>1, <1>2, <1>4, <2>1, <2>2
          DEF StopInv, CandleOK, TradesOK, PositionOK, BelievesRight, Held
<1>5. CASE /\ Held /\ position.tid # 0 /\ Tighter(pos, new)
           /\ \E o \in Outcomes(pos.tid, new, trades) :
                    /\ trades' = o.trades /\ lost' = lost + o.lost
                    /\ position' = IF o.told THEN [pos EXCEPT !.stop = new] ELSE pos
  <2>1. PICK o \in Outcomes(pos.tid, new, trades) :
                    /\ trades' = o.trades /\ lost' = lost + o.lost
                    /\ position' = IF o.told THEN [pos EXCEPT !.stop = new] ELSE pos
    BY <1>5
  <2>2. ASSUME opened = 1, lost = 0
        PROVE  \A u \in DOMAIN trades \cap DOMAIN trades' : trades'[u].stop >= trades[u].stop
    <3>1. Tighter(position, new)
      BY <1>2, <1>5, <2>2 DEF Tighter
    <3> QED BY <1>2, <1>5, <2>1, <2>2, <3>1, RequestRaises
  <2>3. NoStopLowered
    BY <2>2 DEF NoStopLowered
  <2>4. ASSUME opened <= 1 PROVE TradesOK' /\ PositionOK' /\ BelievesRight'
    <3>1. position'.hwm \in Int
      BY <1>2, <2>1, <2>4 DEF PositionRecords
    <3> QED BY <1>1, <1>2, <1>5, <2>1, <2>4, <3>1, RequestKeeps DEF Held
  <2>5. CandleOK'
    BY <1>1, <2>1, OutcomeLost DEF StopInv, CandleOK
  <2> QED BY <1>1, <2>3, <2>4, <2>5 DEF StopInv
<1> QED BY <1>3, <1>4, <1>5 DEF UpdateStopLosses, pos, new

\* The tightening after an abort: with one trade there is no other to tighten.
LEMMA TightenStep ==
    ASSUME StopInv, PricesAboveStops, TightenAllStops PROVE StopInv' /\ NoStopLowered
<1> DEFINE tight == candle.close - candle.atr
           first == IF position.tid # 0 THEN {position.tid} ELSE position.tids
<1>1. UNCHANGED <<opened, candle, savedHwm>> /\ Held
  BY DEF TightenAllStops
<1>2. tight \in Nat
  BY StopsArePrices
<1>3. ASSUME opened <= 1 PROVE position \in PositionRecords /\ savedHwm \in Int
  BY <1>3 DEF StopInv, PositionOK
<1>4. CASE UNCHANGED <<trades, position, lost>>
  <2>1. NoStopLowered
    BY <1>4, KeptStill
  <2> QED BY <1>1, <1>4, <2>1 DEF StopInv, CandleOK, TradesOK, PositionOK, BelievesRight
<1>5. ASSUME NEW t \in first, Tighter(position, tight),
             NEW o \in Outcomes(t, tight, trades),
             NEW extra \in SUBSET (position.tids \ {t}),
             trades' = [u \in DOMAIN trades |->
                          IF u \in extra THEN [trades[u] EXCEPT !.stop = tight]
                          ELSE o.trades[u]],
             lost' = lost + o.lost,
             position' = IF o.told THEN [position EXCEPT !.stop = tight] ELSE position
      PROVE  StopInv' /\ NoStopLowered
  <2>1. CandleOK'
    BY <1>1 DEF StopInv, CandleOK
  <2>2. ASSUME opened <= 1
        PROVE  position.tid = 1 /\ t = 1 /\ trades' = o.trades
    <3>1. position.tid = 1 /\ t = 1 /\ position.tids \subseteq {1}
      BY <1>5, <2>2 DEF StopInv, PositionOK, PositionRecords
    <3>2. extra = {}
      BY <1>5, <3>1
    <3>3. DOMAIN o.trades = DOMAIN trades
          /\ o.trades = [u \in DOMAIN trades |-> o.trades[u]]
      <4>1. TradesOK
        BY <2>2 DEF StopInv
      <4> HIDE DEF tight
      <4> QED BY <4>1, <1>2, OutcomeOfOne
    <3>4. trades' = [u \in DOMAIN trades |-> o.trades[u]]
      BY <1>5, <3>2
    <3> QED BY <3>1, <3>3, <3>4
  <2> HIDE DEF tight
  <2>3. ASSUME opened = 1, lost = 0
        PROVE  \A u \in DOMAIN trades \cap DOMAIN trades' : trades'[u].stop >= trades[u].stop
    <3>1. position.tid # 0 /\ position.tid = t /\ trades' = o.trades
      BY <2>2, <2>3
    <3>2. \A u \in DOMAIN trades : o.trades[u].stop >= trades[u].stop
      BY <1>2, <1>5, <2>3, <3>1, RequestRaises
    <3> QED BY <3>1, <3>2
  <2>4. NoStopLowered
    BY <2>3 DEF NoStopLowered
  <2>5. ASSUME opened <= 1 PROVE TradesOK' /\ PositionOK' /\ BelievesRight'
    <3>1. position.tid = t /\ trades' = o.trades
      BY <2>2, <2>5
    <3>2. position \in PositionRecords /\ savedHwm' \in Int /\ position # NoPosition
      BY <1>1, <1>3, <2>5 DEF Held
    <3> QED BY <1>1, <1>2, <1>5, <2>5, <3>1, <3>2, RequestKeeps
  <2> QED BY <1>1, <2>1, <2>4, <2>5 DEF StopInv
<1>6. \/ UNCHANGED <<trades, position, lost>>
      \/ /\ Tighter(position, tight)
         /\ \E t \in first : \E o \in Outcomes(t, tight, trades) :
            \E extra \in SUBSET (position.tids \ {t}) :
                 /\ trades' = [u \in DOMAIN trades |->
                                 IF u \in extra THEN [trades[u] EXCEPT !.stop = tight]
                                 ELSE o.trades[u]]
                 /\ lost' = lost + o.lost
                 /\ position' = IF o.told THEN [position EXCEPT !.stop = tight]
                                ELSE position
  BY Zenon DEF TightenAllStops
<1> QED BY <1>4, <1>5, <1>6, SMTT(30)

\* The runner's stop after a restart is the stop the broker holds.
LEMMA SyncStep ==
    ASSUME StopInv, PricesAboveStops, SyncPositions PROVE StopInv' /\ NoStopLowered
<1>1. UNCHANGED <<opened, savedHwm, candle>>
  BY DEF SyncPositions
<1>2. CandleOK'
  BY <1>1 DEF StopInv, CandleOK
<1>3. CASE position' = NoPosition /\ UNCHANGED <<trades, lost>>
  <2>1. NoStopLowered
    BY <1>3, KeptStill
  <2> QED BY <1>1, <1>2, <1>3, <2>1
          DEF StopInv, TradesOK, PositionOK, BelievesRight, NoPosition, PositionRecords
<1>4. CASE opened > 1
  <2>1. ~(opened <= 1) /\ opened # 1
    BY <1>4 DEF StopInv, CandleOK
  <2> QED BY <1>1, <1>2, <2>1 DEF StopInv, NoStopLowered
<1>5. ASSUME opened <= 1, trades # [t \in {} |-> 0],
             NEW order \in Reported, NEW reply \in Attachments,
             trades' = Attached(reply),
             lost' = lost + Cardinality({t \in DOMAIN reply : reply[t] = "lost"}),
             position' = [entry |-> AvgPrice, stop |-> SyncedStop(order, reply),
                          tid |-> order[1], tids |-> DOMAIN trades,
                          hwm |-> Max({AvgPrice, candle.close, savedHwm})]
      PROVE  StopInv' /\ NoStopLowered
  <2>1. opened = 1 /\ DOMAIN trades = {1} /\ TradesOK
    BY <1>5, SomeTrade DEF StopInv, CandleOK
  <2>2. AvgPrice \in Int /\ savedHwm \in Int /\ candle.close \in Int /\ lost \in Nat
    <3>1. savedHwm \in Int /\ lost \in Nat
      BY <1>5 DEF StopInv, PositionOK, TradesOK
    <3> QED BY <2>1, <3>1, AvgPriceInt, StopsArePrices
  <2>3. Cardinality(DOMAIN trades) = 1
    BY <2>1, FS_Singleton
  <2>4. order \in [{1} -> {1}] /\ order[1] = 1
    <3>1. order \in [1..1 -> {1}]
      BY <2>1, <2>3 DEF Reported
    <3> QED BY <3>1
  <2>5. trades[1] \in [price : Int, stop : Nat]
    BY <2>1 DEF TradesOK
  <2>6. /\ DOMAIN reply = {t \in {1} : trades[1].stop = 0}
        /\ 1 \in DOMAIN reply => reply[1] \in {"told", "refused", "lost"}
    BY <2>1 DEF Attachments
  <2>7. InitialStop \in Nat
    BY StopsArePrices
  <2> DEFINE to == trades'[1]
  <2>8. /\ trades' = [t \in {1} |-> to]
        /\ to = IF 1 \in DOMAIN reply /\ reply[1] # "refused"
                THEN [trades[1] EXCEPT !.stop = InitialStop] ELSE trades[1]
    BY <1>5, <2>1 DEF Attached
  <2> HIDE DEF to
  <2>9. to \in [price : Int, stop : Nat] /\ to.stop >= trades[1].stop
    <3>1. CASE 1 \in DOMAIN reply /\ reply[1] # "refused"
      <4>1. trades[1].stop = 0 /\ to = [trades[1] EXCEPT !.stop = InitialStop]
        BY <2>6, <2>8, <3>1
      <4> QED BY <4>1, <2>5, <2>7
    <3>2. CASE ~(1 \in DOMAIN reply /\ reply[1] # "refused")
      BY <2>5, <2>8, <3>2
    <3> QED BY <3>1, <3>2
  <2>10. NoStopLowered
    BY <2>1, <2>8, <2>9 DEF NoStopLowered, to
  <2> DEFINE losses == {t \in DOMAIN reply : reply[t] = "lost"}
  <2>11. /\ Cardinality(losses) \in Nat
         /\ Cardinality(losses) = 0 => 1 \notin losses
    <3>1. IsFiniteSet({1})
      BY FS_Singleton
    <3>2. IsFiniteSet(losses)
      BY <2>6, <3>1, FS_Subset
    <3> HIDE DEF losses
    <3> QED BY <3>2, FS_CardinalityType, FS_EmptySet
  <2>12. TradesOK'
    BY <1>1, <1>5, <2>1, <2>2, <2>8, <2>9, <2>11 DEF TradesOK
  <2>13. \/ SyncedStop(order, reply) = to.stop
         \/ SyncedStop(order, reply) = 0 /\ 1 \in DOMAIN reply /\ reply[1] # "told"
    <3> DEFINE known == {i \in DOMAIN order :
                            order[i] \in DOMAIN reply => reply[order[i]] = "told"}
    <3>1. SyncedStop(order, reply) = IF known = {} THEN 0
                                     ELSE Attached(reply)[order[Max(known)]].stop
      BY DEF SyncedStop
    <3>2. CASE 1 \in known
      <4>1. known = {1}
        BY <2>4, <3>2
      <4>2. Max(known) = 1
        <5> HIDE DEF known
        <5>1. known \in SUBSET Int /\ known # {} /\ 1 \in Int /\ \A x \in known : x <= 1
          BY <4>1
        <5> QED BY <4>1, <5>1, MaxIsLargest
      <4> HIDE DEF known
      <4> QED BY <1>5, <2>4, <3>1, <4>1, <4>2 DEF to
    <3>3. CASE 1 \notin known
      <4>1. known = {} /\ 1 \in DOMAIN reply /\ reply[1] # "told"
        BY <2>4, <3>3
      <4> QED BY <3>1, <4>1
    <3> QED BY <3>2, <3>3
  <2>14. /\ SyncedStop(order, reply) \in Int
         /\ lost' = 0 => SyncedStop(order, reply) = to.stop
    <3>1. CASE SyncedStop(order, reply) = to.stop
      BY <2>9, <3>1
    <3>2. CASE /\ SyncedStop(order, reply) = 0
               /\ 1 \in DOMAIN reply /\ reply[1] # "told"
      <4>1. ASSUME lost' = 0 PROVE to.stop = 0
        <5>1. 1 \notin losses
          <6> HIDE DEF losses
          <6>1. lost' = lost + Cardinality(losses)
            BY <1>5 DEF losses
          <6> QED BY <2>2, <2>11, <4>1, <6>1
        <5>2. reply[1] = "refused"
          BY <2>6, <3>2, <5>1
        <5> QED BY <2>6, <2>8, <3>2, <5>2
      <4> QED BY <3>2, <4>1
    <3> QED BY <2>13, <3>1, <3>2
  <2>15. PositionOK'
    <3>1. Max({AvgPrice, candle.close, savedHwm}) \in Int
      BY <2>2, MaxOfThree
    <3> DEFINE high == Max({AvgPrice, candle.close, savedHwm})
    <3> HIDE DEF high
    <3>2. /\ position' \in PositionRecords /\ position'.tid = 1
      BY <1>5, <2>1, <2>2, <2>4, <2>14, <3>1 DEF PositionRecords, high
    <3> QED BY <1>1, <2>1, <2>2, <3>2 DEF PositionOK
  <2>16. BelievesRight'
    BY <1>5, <2>8, <2>14 DEF BelievesRight
  <2> QED BY <1>2, <2>10, <2>12, <2>15, <2>16 DEF StopInv
<1>6. \/ position' = NoPosition /\ UNCHANGED <<trades, lost>>
      \/ /\ trades # [t \in {} |-> 0]
         /\ \E order \in Reported, reply \in Attachments :
              /\ trades' = Attached(reply)
              /\ lost' = lost + Cardinality({t \in DOMAIN reply : reply[t] = "lost"})
              /\ position' = [entry |-> AvgPrice, stop |-> SyncedStop(order, reply),
                              tid |-> order[1], tids |-> DOMAIN trades,
                              hwm |-> Max({AvgPrice, candle.close, savedHwm})]
  BY Zenon DEF SyncPositions
<1>7. opened <= 1 \/ opened > 1
  BY DEF StopInv, CandleOK
<1> QED BY <1>3, <1>4, <1>5, <1>6, <1>7

\* Every step of the program, of the broker and of the market.
LEMMA StopsStep ==
    ASSUME StopInv, PricesAboveStops, [StopsNext]_stopsVars PROVE StopInv' /\ NoStopLowered
<1>1. CASE UNCHANGED stopsVars
  <2>1. NoStopLowered
    BY <1>1, KeptStill DEF stopsVars
  <2> QED BY <1>1, <2>1
          DEF StopInv, CandleOK, TradesOK, PositionOK, BelievesRight, stopsVars
<1>2. CASE NoPositionToCheck \/ NothingFills
  <2>1. NoStopLowered
    BY <1>2, KeptStill DEF NoPositionToCheck, NothingFills
  <2> QED BY <1>2, <2>1
          DEF StopInv, CandleOK, TradesOK, PositionOK, BelievesRight,
              NoPositionToCheck, NothingFills
<1> QED BY <1>1, <1>2, StopsFireStep, ForeignStep, BeginStep, ExitStep, FillsStep,
           UpdateStep, TightenStep, SyncStep DEF StopsNext

\* Stops only ratchet upward: while a pair has had a single trade and no answer
\* was lost, no step of the runner, of a restart or of an abort lowers the stop
\* the broker holds, for all prices, ATRs, multiples and levels whose stops are
\* prices.
THEOREM StopsNeverLowered ==
    ASSUME PricesAboveStops PROVE StopsSpec => StopsRatchet
<1>1. StopsInit => StopInv
  BY StopsInitInv
<1>2. StopInv /\ [StopsNext]_stopsVars => StopInv'
  BY StopsStep
<1>3. StopInv /\ [StopsNext]_stopsVars => 
        [opened = 1 /\ lost = 0 =>
         \A t \in DOMAIN trades \cap DOMAIN trades' :
             trades'[t].stop >= trades[t].stop]_stopsVars
  BY StopsStep DEF NoStopLowered
<1> QED BY <1>1, <1>2, <1>3, PTL DEF StopsSpec, StopsRatchet

=============================================================================
