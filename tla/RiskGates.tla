----------------------------- MODULE RiskGates -----------------------------
(***************************************************************************)
(* What stops engine/runner.py from adding exposure: the circuit breaker   *)
(* (risk/circuit_breakers.py), the drawdown recovery protocol and the VIX  *)
(* gate, with the baselines they measure against: the high-water mark of   *)
(* monitoring/performance.py and the equities at the start of the day and  *)
(* of the week.                                                            *)
(*                                                                         *)
(* A tick reads the account once, offers every pair to the gates, and only *)
(* then updates the monitor and checks the limits: the gates of a tick see *)
(* the review of the tick before.  Nothing here is in the store.           *)
(*                                                                         *)
(* Equity, the VIX and what the sizing rules return are inputs; "last" and *)
(* "units" say what became of the last attempt to add exposure.            *)
(***************************************************************************)
EXTENDS Integers

CONSTANTS
    Levels,         \* equities the account can report
    InitialEquity,  \* config.initial_equity
    MaxDate,        \* bound: dates 1..MaxDate
    WeekLength,     \* days in a week; date 1 is a Monday
    DailyLimit, WeeklyLimit, DrawdownLimit,     \* RiskLimits, in percent
    HaltDD, CautionDD,  \* thresholds of the drawdown protocol, in percent
    VixLevels,      \* readings of the VIX
    NoVix,          \* the fetch failed (is_default)
    VixHigh, VixClear,
    BaseUnits,      \* config.position_size_units
    Sizes,          \* what the dynamic sizer may return
    MaxRestarts     \* bound: restarts of the process

ASSUME GatesAssumption ==
    /\ Levels \subseteq Nat \ {0} /\ InitialEquity \in Nat \ {0}
    /\ MaxDate \in Nat \ {0} /\ WeekLength \in Nat \ {0}
    /\ CautionDD \in Nat /\ HaltDD \in Nat /\ CautionDD <= HaltDD
    /\ DailyLimit \in Nat /\ WeeklyLimit \in Nat /\ DrawdownLimit \in Nat
    /\ VixLevels \subseteq Nat /\ NoVix \notin Nat
    /\ VixClear \in Nat /\ VixHigh \in Nat /\ VixClear <= VixHigh
    /\ BaseUnits \in Nat \ {0} /\ Sizes \subseteq Nat \ {0}
    /\ MaxRestarts \in Nat

VARIABLES
    phase,      \* idle, pairs (step 6 of the tick)
    date, today,
    equity,     \* what this tick read from the account
    vix,        \* what this tick's macro fetch returned (cached 5 minutes)
    hwm,        \* monitor.high_water_mark
    monitored,  \* monitor.equity
    dayStart, weekStart,
    haltedAt,   \* circuit_breaker: date of halt_timestamp, 0 if not halted
    alerted,    \* _dd_alerted and _macro_alerted
    last,       \* the last attempt to add exposure: what became of it
    units,      \* and the units ordered
    restarts

baselines == <<dayStart, weekStart>>
attempt   == <<last, units>>
vars == <<phase, date, today, equity, vix, hwm, monitored, baselines, haltedAt,
          alerted, attempt, restarts>>

Restriction == {"halt", "caution", "vix"}
Outcome     == {"none", "entered", "scaled", "breaker", "drawdown", "vix"}
Date        == 1..MaxDate
Equity      == Levels \cup {InitialEquity}

\* Every variable holds a value of its kind.
TypeOK ==
    /\ phase \in {"idle", "pairs"}
    /\ date \in Date /\ today \in Date \cup {0}
    /\ vix \in VixLevels \cup {NoVix}
    /\ {equity, hwm, monitored, dayStart, weekStart} \subseteq Equity
    /\ haltedAt \in Date \cup {0}
    /\ alerted \subseteq Restriction
    /\ last \in Outcome
    /\ units \in Sizes \cup {0} \cup 1..BaseUnits
    /\ restarts \in 0..MaxRestarts

-----------------------------------------------------------------------------
\* get_snapshot().drawdown and the fractions of check_limits are quotients;
\* each is compared with a limit in percent.
DrawdownAtLeast(top, e, limit) == (top - e) * 100 >= limit * top

\* abs(pnl) / (equity + abs(pnl)), for a loss: the base is where it started.
LossAtLeast(base, e, limit) == e < base /\ (base - e) * 100 >= limit * base

\* CircuitBreaker.check_limits; "crowded" is open_positions > max_positions.
Breached(e, top, crowded) ==
    \/ LossAtLeast(dayStart, e, DailyLimit)
    \/ LossAtLeast(weekStart, e, WeeklyLimit)
    \/ DrawdownAtLeast(top, e, DrawdownLimit)
    \/ crowded

\* The property is_trading_halted compares datetime.now() with the time zone
\* aware timestamp of the tick: once tripped it raises TypeError, at any age
\* of the halt.  The tick catches it and leaves the pair.
TradingHalted == haltedAt # 0

\* The macro gate fails open.
VixHostile == vix # NoVix /\ vix > VixHigh

\* Mutant: half of the base size is a factor instead of a cap.
CappedScaled(u) == (u * BaseUnits) \div 2

\* Mutant: the drawdown protocol's cap is not applied.
CappedNot(u) == u

Capped(u) ==
    LET half == IF BaseUnits \div 2 < 1 THEN 1 ELSE BaseUnits \div 2
    IN  IF u > half THEN half ELSE u

Init ==
    /\ phase = "idle"
    /\ date = 1 /\ today = 0
    /\ equity = InitialEquity
    /\ vix = NoVix
    /\ hwm = InitialEquity /\ monitored = InitialEquity
    /\ dayStart = InitialEquity /\ weekStart = InitialEquity
    /\ haltedAt = 0
    /\ alerted = {}
    /\ last = "none" /\ units = 0
    /\ restarts = 0

Midnight ==
    /\ date < MaxDate
    /\ phase = "idle"
    /\ date' = date + 1
    /\ UNCHANGED <<phase, today, equity, vix, hwm, monitored, baselines, haltedAt,
                   alerted, attempt, restarts>>

Monday(d) == d % WeekLength = 1 % WeekLength

\* _check_new_day, with the account at e: the week starts again on a Monday.
BeginDay(e) ==
    /\ today' = date
    /\ dayStart' = e
    /\ weekStart' = IF Monday(date) THEN e ELSE weekStart

NewDay ==
    /\ phase = "idle" /\ today # date
    /\ \/ \E e \in Levels : BeginDay(e)
       \/ today' = date /\ UNCHANGED baselines      \* no answer
    /\ UNCHANGED <<phase, date, equity, vix, hwm, monitored, haltedAt, alerted,
                   attempt, restarts>>

\* Step 4 of _tick: the account state this tick works with.
StartTick ==
    /\ phase = "idle" /\ today = date
    /\ phase' = "pairs"
    /\ equity' \in Levels
    /\ vix' \in VixLevels \cup {NoVix}
    /\ last' = "none" /\ units' = 0
    /\ UNCHANGED <<date, today, hwm, monitored, baselines, haltedAt, alerted,
                   restarts>>

Announce(r) == alerted' = alerted \cup {r}

\* _check_scaling runs before the entry gates and asks none of them.
ScaleIn ==
    /\ phase = "pairs"
    /\ last' = "scaled" /\ units' \in Sizes
    /\ UNCHANGED alerted

BreakerGate ==
    /\ phase = "pairs" /\ TradingHalted
    /\ last' = "breaker" /\ units' = 0
    /\ UNCHANGED alerted

DrawdownGate ==
    /\ phase = "pairs" /\ ~TradingHalted
    /\ DrawdownAtLeast(hwm, monitored, HaltDD)
    /\ last' = "drawdown" /\ units' = 0
    /\ Announce("halt")

VixGate ==
    /\ phase = "pairs" /\ ~TradingHalted
    /\ ~DrawdownAtLeast(hwm, monitored, HaltDD)
    /\ VixHostile
    /\ last' = "vix" /\ units' = 0
    /\ Announce("vix")

\* _open_position: from CautionDD on, half of the base size at most.
OpenPosition ==
    /\ phase = "pairs" /\ ~TradingHalted
    /\ ~DrawdownAtLeast(hwm, monitored, HaltDD)
    /\ ~VixHostile
    /\ last' = "entered"
    /\ \E u \in Sizes :
          IF DrawdownAtLeast(hwm, monitored, CautionDD)
          THEN units' = Capped(u) /\ Announce("caution")
          ELSE units' = u /\ UNCHANGED alerted

ProcessPair ==
    /\ ScaleIn \/ BreakerGate \/ DrawdownGate \/ VixGate \/ OpenPosition
    /\ UNCHANGED <<phase, date, today, equity, vix, hwm, monitored, baselines,
                   haltedAt, restarts>>

\* Mutant: the two thresholds are swapped.
ClearedSwapped(top, v) ==
    {r \in alerted : \/ r = "halt" /\ ~DrawdownAtLeast(top, equity, CautionDD)
                     \/ r = "caution" /\ ~DrawdownAtLeast(top, equity, HaltDD)
                     \/ r = "vix" /\ v # NoVix /\ v < VixClear}

\* Alerts that a review with the high-water mark top and the VIX at v ends.
Cleared(top, v) ==
    {r \in alerted : \/ r = "halt" /\ ~DrawdownAtLeast(top, equity, HaltDD)
                     \/ r = "caution" /\ ~DrawdownAtLeast(top, equity, CautionDD)
                     \/ r = "vix" /\ v # NoVix /\ v < VixClear}

\* Mutant: the mark stays where it began.
HigherOfFirst(a, b) == a

HigherOf(a, b) == IF a > b THEN a ELSE b

\* Steps 8 to 10: update the monitor, check the limits, clear the alerts.
\* The macro data may have been fetched again.
Review ==
    /\ phase = "pairs" /\ phase' = "idle"
    /\ hwm' = HigherOf(hwm, equity) /\ monitored' = equity
    /\ \E crowded \in BOOLEAN :
       haltedAt' = IF Breached(equity, hwm', crowded) THEN today ELSE haltedAt
    /\ \E v \in {vix} \cup VixLevels \cup {NoVix} :
           /\ vix' = v
           /\ alerted' = alerted \ Cleared(hwm', v)
    /\ UNCHANGED <<date, today, equity, baselines, attempt, restarts>>

\* A new process: __init__, then _check_new_day in start().
Restart ==
    /\ restarts < MaxRestarts
    /\ restarts' = restarts + 1
    /\ phase' = "idle"
    /\ today' = date
    /\ hwm' = InitialEquity /\ monitored' = InitialEquity
    /\ haltedAt' = 0
    /\ alerted' = {}
    /\ last' = "none" /\ units' = 0
    /\ \/ \E e \in Levels :
          /\ dayStart' = e
          /\ weekStart' = IF Monday(date) THEN e ELSE InitialEquity
       \/ dayStart' = InitialEquity /\ weekStart' = InitialEquity
    /\ UNCHANGED <<date, equity, vix>>

Next == Midnight \/ NewDay \/ StartTick \/ ProcessPair \/ Review \/ Restart

Spec == Init /\ [][Next]_vars

-----------------------------------------------------------------------------
(* Most are about an entry: a step of the pairs that places one.           *)

Enters == phase = "pairs" /\ phase' = "pairs" /\ last' = "entered"

\* The drawdown the gates compare is never negative: the mark a review or a new
\* process leaves behind is at least the equity it is compared with.
DrawdownNotNegative == monitored <= hwm

\* After "No new entries until DD recovers below 15%" no entry is placed until
\* the message that calls it off, in whatever order equity, pairs and reviews
\* come: the flag behind the messages and the gate read one snapshot.
HaltAnnouncementKept == [][Enters => "halt" \notin alerted]_vars

\* "New position sizes capped at 50% until DD recovers below 10%": the same
\* for the sizes, although a deeper drawdown may come and go in between.
CautionAnnouncementKept ==
    [][Enters /\ "caution" \in alerted => units' = 1 \/ 2 * units' <= BaseUnits]_vars

\* cooldown_hours: "hours to wait before re-enabling trading".  Two days after
\* the breach that halted it the breaker no longer turns an entry away.
HaltExpires == last = "breaker" => date <= haltedAt + 1

=============================================================================
