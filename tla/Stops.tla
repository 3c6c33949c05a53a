------------------------------- MODULE Stops -------------------------------
(***************************************************************************)
(* The two stops that guard one pair's position, and how they drift:       *)
(*                                                                         *)
(*  - the broker's stop of each trade, moved by engine/runner.py           *)
(*    (_update_stop_losses, _tighten_all_stops, _attach_initial_stop)      *)
(*    which remembers in pos["stop_price"] what it believes it is;         *)
(*  - the software stop of strategy/exit_manager.py, which lives as long   *)
(*    as the process and closes the position at the market.                *)
(*                                                                         *)
(* A position may consist of several trades (scale-in), the runner trails  *)
(* only the one in pos["trade_id"].  Prices are integers; 0 stands for     *)
(* None.  A request to the broker may be refused, or carried out with its  *)
(* answer lost (at most MaxLost times).                                    *)
(***************************************************************************)
EXTENDS Integers, FiniteSets, FiniteSetsExt, Functions

CONSTANTS Prices,           \* closes of the hourly candle
          Atrs,             \* values of the ATR
          MaxStopTrades,    \* trades opened in a behaviour
          MaxLost,          \* requests whose answer is lost
          StopMult,         \* atr_stop_mult, base_atr_mult
          TrailMult,        \* trailing_atr_mult
          ActivatePct,      \* trailing_activation_pct, in percent
          ProfitScale       \* profit_scale_levels: <<percent, tenths of ATR>>

ASSUME StopsAssumption ==
    /\ Prices \subseteq Nat \ {0}
    /\ Atrs \subseteq Nat \ {0}
    /\ {MaxStopTrades, MaxLost, StopMult, TrailMult} \subseteq Nat

VARIABLES trades,     \* the broker's open trades: id -> [price, stop]
          opened,     \* ids the broker has given out
          position,   \* the runner's record, or NoPosition
          manager,    \* _exit_managers[pair], or NoManager
          savedHwm,   \* high_water_mark in position_states, 0 without a row
          candle,     \* the candle of the current tick
          stopPhase,  \* idle, exit, entry, stops; over after an abort
          lost        \* requests whose answer was lost

stopsVars == <<trades, opened, position, manager, savedHwm, candle, stopPhase,
               lost>>

TradeId    == 1..MaxStopTrades
NoPosition == [entry |-> 0, stop |-> 0, tid |-> 0, tids |-> {}, hwm |-> 0]
NoManager  == [stop |-> -1, trailing |-> FALSE]
StopRegimes == {"unknown", "calm_trend", "wild_trend", "wild_range", "falling"}
Held       == position # NoPosition

\* Everything has the kind of value the program keeps there; the runner's
\* stop and trade id are None exactly when they are 0.
StopsTypeOK ==
    /\ DOMAIN trades \subseteq 1..opened /\ opened \in 0..MaxStopTrades
    /\ \A t \in DOMAIN trades : trades[t].stop \in Nat
    /\ position.tid \in 0..MaxStopTrades /\ position.tids \subseteq TradeId
    /\ position.stop \in Nat /\ position.hwm \in Nat /\ position.entry \in Nat
    /\ manager.trailing \in BOOLEAN
    /\ candle \in [close : Prices, atr : Atrs]
    /\ stopPhase \in {"idle", "exit", "entry", "stops", "over"}
    /\ lost \in 0..MaxLost

StopsInit ==
    /\ trades = [t \in {} |-> 0] /\ opened = 0
    /\ position = NoPosition /\ manager = NoManager /\ savedHwm = 0
    /\ \E p \in Prices, a \in Atrs :
           candle = [close |-> p, atr |-> a]
    /\ stopPhase = "idle" /\ lost = 0

-----------------------------------------------------------------------------
(* The broker's side.                                                      *)

\* avg_price of the pair's position: trades of equal size.
AvgPrice == FoldFunction(LAMBDA t, sum : t.price + sum, 0, trades)
                \div Cardinality(DOMAIN trades)

\* What modify_trade_stop_loss may leave at the broker: the stop set, refused
\* (a closed trade), or set with the answer lost.
Outcomes(t, stop, before) ==
    {[trades |-> before, told |-> FALSE, lost |-> 0]} \cup
    (IF t \notin DOMAIN before THEN {}
     ELSE {[trades |-> [before EXCEPT ![t].stop = stop],
            told |-> told, lost |-> IF told THEN 0 ELSE 1] : told \in BOOLEAN})

\* The market falls to the stop of a trade and the broker closes it.
StopFires ==
    \E t \in DOMAIN trades :
        /\ trades[t].stop >= candle.close
        /\ trades' = Restrict(trades, DOMAIN trades \ {t})
        /\ UNCHANGED <<opened, position, manager, savedHwm, candle, stopPhase, lost>>

\* Somebody trades on the same account, without a stop.
ForeignTrade ==
    /\ stopPhase = "idle" /\ opened < MaxStopTrades /\ DOMAIN trades = {}
    /\ opened' = opened + 1
    /\ trades' = [t \in {opened + 1} |-> [price |-> candle.close, stop |-> 0]]
    /\ UNCHANGED <<position, manager, savedHwm, candle, stopPhase, lost>>

-----------------------------------------------------------------------------
(* strategy/exit_manager.py                                                *)

\* initialize_stop: the distance depends on the regime, in tenths of ATR.
RegimeTenths(regime) ==
    CASE regime = "wild_trend" -> (StopMult * 10 * 3) \div 2
      [] regime = "wild_range" -> StopMult * 10 * 2
      [] regime = "calm_trend" -> StopMult * 8
      [] OTHER                 -> StopMult * 10

InitializeStop(entry, atr, regime) ==
    [stop |-> entry - (atr * RegimeTenths(regime)) \div 10, trailing |-> FALSE]

\* return_pct >= percent / 100, and <, without rounding.
ReturnAtLeast(pos, price, percent) == (price - pos.entry) * 100 >= percent * pos.entry

\* _check_vol_adjusted_stop: a rise of volatility widens the dynamic stop.
DynamicStop(pos, past) ==
    pos.entry - (StopMult * candle.atr * Max({past, candle.atr})) \div past

EffectiveStop(pos, em, past) ==
    IF em.stop > 0 THEN Max({em.stop, DynamicStop(pos, past)})
    ELSE DynamicStop(pos, past)

\* _check_profit_scaled_trail: the tightest level reached, if any.
LevelsReached(pos) ==
    {level \in ProfitScale : ReturnAtLeast(pos, candle.close, level[1])}

TrailStop(pos) ==
    LET top == CHOOSE l \in LevelsReached(pos) :
                   \A m \in LevelsReached(pos) : m[1] <= l[1]
    IN  pos.hwm - (candle.atr * top[2]) \div 10

TrailApplies(pos) ==
    LevelsReached(pos) # {} /\ TrailStop(pos) > pos.entry

Trailed(pos, em) ==
    [stop |-> IF TrailApplies(pos) THEN Max({em.stop, TrailStop(pos)}) ELSE em.stop,
     trailing |-> em.trailing \/ LevelsReached(pos) # {}]

\* _check_time_exit and _check_regime_exit: age 0 is the first day, 1 up to
\* five days, 2 up to thirty, 3 beyond.
TimeExit(pos, age) ==
    age = 3 /\ (candle.close - pos.entry) * 100 <= 2 * pos.entry

RegimeExit(pos, age, regime) ==
    /\ age >= 2
    /\ \/ regime = "wild_range" /\ candle.close < pos.entry
       \/ regime = "falling"
          /\ (candle.close - pos.entry) * 100 < -1 * pos.entry

\* check_exit: any signal closes; the urgency only picks the wording.  "past"
\* is the mean ATR of the last two months.
CheckExit(pos, em, past, age, regime) ==
    \/ candle.close <= EffectiveStop(pos, em, past)
    \/ TrailApplies(pos) /\ candle.close <= TrailStop(pos)
    \/ TimeExit(pos, age)
    \/ RegimeExit(pos, age, regime)

-----------------------------------------------------------------------------
(* engine/runner.py: the tick, as far as stops are concerned.              *)

\* A tick begins with the candle and the reconciler, which drops a position
\* the broker no longer has and adopts one it does not know, without trade_id
\* and stop_price; neither touches _exit_managers.
BeginTick ==
    /\ stopPhase = "idle"
    /\ candle' \in [close : Prices, atr : Atrs]
    /\ \/ UNCHANGED position                        \* the broker did not answer
       \/ position' = IF trades = [t \in {} |-> 0] THEN NoPosition
                      ELSE IF Held THEN position
                      ELSE [NoPosition EXCEPT !.entry = AvgPrice, !.hwm = AvgPrice]
    /\ stopPhase' = "exit"
    /\ UNCHANGED <<trades, opened, manager, savedHwm, lost>>

NewHigh(pos) == [pos EXCEPT !.hwm = Max({@, candle.close})]

\* _close_position: a fill drops position, manager and row; if the request
\* failed and the broker has no such position the manager stays behind.
ClosePositionAndManager ==
    \/ /\ trades # [t \in {} |-> 0]
       /\ trades' = [t \in {} |-> 0]
       /\ position' = NoPosition /\ manager' = NoManager /\ savedHwm' = 0
       /\ UNCHANGED lost
    \/ /\ \/ trades = [t \in {} |-> 0] /\ UNCHANGED <<trades, lost>>
          \/ /\ trades # [t \in {} |-> 0] /\ lost < MaxLost
             /\ trades' = [t \in {} |-> 0] /\ lost' = lost + 1
       /\ position' = NoPosition /\ manager' = Trailed(NewHigh(position), manager)
       /\ savedHwm' = 0
    \/ /\ position' = NewHigh(position)
       /\ manager' = Trailed(NewHigh(position), manager)
       /\ UNCHANGED <<trades, savedHwm, lost>>

\* _check_exit_manager creates the manager when there is none.  After a close,
\* successful or not, the pair is done for this tick.
CheckExitManager ==
    /\ stopPhase = "exit" /\ Held
    /\ LET pos == NewHigh(position)
           em  == IF manager = NoManager THEN [stop |-> 0, trailing |-> FALSE]
                  ELSE manager
       IN  \E exits \in {CheckExit(pos, em, past, age, regime) :
                          past \in Atrs, age \in 0..3, regime \in StopRegimes} :
           IF exits
           THEN ClosePositionAndManager /\ stopPhase' = "stops"
           ELSE /\ position' = pos /\ manager' = Trailed(pos, em)
                /\ stopPhase' = "entry"
                /\ UNCHANGED <<trades, savedHwm, lost>>
    /\ UNCHANGED <<opened, candle>>

InitialStop == candle.close - StopMult * candle.atr

NoPositionToCheck ==
    /\ stopPhase = "exit" /\ ~Held
    /\ stopPhase' = "entry"
    /\ UNCHANGED <<trades, opened, position, manager, savedHwm, candle, lost>>

\* An entry or a scale-in fills; both carry a stop of their own from the
\* start.  A scale-in keeps the stop the runner believes in and the manager.
Fills ==
    /\ stopPhase = "entry" /\ opened < MaxStopTrades
    /\ trades' = [t \in DOMAIN trades \cup {opened + 1} |->
                     IF t \in DOMAIN trades THEN trades[t]
                     ELSE [price |-> candle.close, stop |-> InitialStop]]
    /\ opened' = opened + 1
    /\ position' = IF Held
                   THEN [position EXCEPT !.entry = (@ + candle.close) \div 2,
                            !.tids = @ \cup ({position.tid} \ {0}) \cup {opened + 1}]
                   ELSE [entry |-> candle.close, stop |-> InitialStop,
                         tid |-> opened + 1, tids |-> {}, hwm |-> candle.close]
    /\ manager' \in IF Held THEN {manager}
                    ELSE {InitializeStop(candle.close, candle.atr, regime) :
                              regime \in StopRegimes}
    /\ stopPhase' = "stops"
    /\ UNCHANGED <<savedHwm, candle, lost>>

NothingFills ==
    /\ stopPhase = "entry"
    /\ stopPhase' = "stops"
    /\ UNCHANGED <<trades, opened, position, manager, savedHwm, candle, lost>>

NewStop(pos) ==
    IF ReturnAtLeast(pos, candle.close, ActivatePct)
    THEN pos.hwm - TrailMult * candle.atr
    ELSE InitialStop

\* Mutant: the stop the runner remembers is not consulted.
TighterAlways(pos, stop) == TRUE

Tighter(pos, stop) == pos.stop = 0 \/ stop > pos.stop

\* _update_stop_losses for the first trade, then save_positions.
UpdateStopLosses ==
    /\ stopPhase = "stops"
    /\ LET pos == NewHigh(position)
       IN  IF ~Held \/ position.tid = 0
           THEN UNCHANGED <<trades, position, lost>>
           ELSE IF ~Tighter(pos, NewStop(pos))
           THEN position' = pos /\ UNCHANGED <<trades, lost>>
           ELSE \E o \in Outcomes(pos.tid, NewStop(pos), trades) :
                    /\ lost + o.lost <= MaxLost
                    /\ trades' = o.trades /\ lost' = lost + o.lost
                    /\ position' = IF o.told THEN [pos EXCEPT !.stop = NewStop(pos)]
                                   ELSE pos
    /\ savedHwm' = position'.hwm
    /\ stopPhase' = "idle"
    /\ UNCHANGED <<opened, manager, candle>>

\* _tighten_all_stops: one ATR below the price on the first trade, then on
\* every other one, whether or not the first request succeeded; a trade_id
\* of None is replaced by one of trade_ids.  The closing that follows fails.
TightenAllStops ==
    /\ stopPhase = "stops" /\ Held
    /\ LET tight == candle.close - candle.atr
           first == IF position.tid # 0 THEN {position.tid} ELSE position.tids
       IN  IF first = {} \/ ~Tighter(position, tight)
           THEN UNCHANGED <<trades, position, lost>>
           ELSE \E t \in first : \E o \in Outcomes(t, tight, trades) :
                \E extra \in SUBSET (position.tids \ {t}) :
                    /\ lost + o.lost <= MaxLost
                    /\ trades' = [u \in DOMAIN trades |->
                                    IF u \in extra THEN [trades[u] EXCEPT !.stop = tight]
                                    ELSE o.trades[u]]
                    /\ lost' = lost + o.lost
                    /\ position' = IF o.told THEN [position EXCEPT !.stop = tight]
                                   ELSE position
    /\ stopPhase' = "over"
    /\ UNCHANGED <<opened, manager, savedHwm, candle>>

\* _attach_initial_stop for every trade without a stop: told, refused, lost.
Attachments == [{t \in DOMAIN trades : trades[t].stop = 0}
                    -> {"told", "refused", "lost"}]

Attached(reply) ==
    [t \in DOMAIN trades |->
        IF t \in DOMAIN reply /\ reply[t] # "refused"
        THEN [trades[t] EXCEPT !.stop = InitialStop] ELSE trades[t]]

\* _sync_positions in a new process.  The trades come in the order of the
\* broker: the first one gives trade_id, the last one whose stop is known gives
\* stop_price; the manager's stop is rebuilt from it.
Reported == {order \in [1..Cardinality(DOMAIN trades) -> DOMAIN trades] :
                IsInjective(order)}

SyncedStop(order, reply) ==
    LET known == {i \in DOMAIN order :
                     order[i] \in DOMAIN reply => reply[order[i]] = "told"}
    IN  IF known = {} THEN 0 ELSE Attached(reply)[order[Max(known)]].stop

SyncedManager(pos) ==
    [stop |-> IF pos.stop = 0 THEN 0
              ELSE IF pos.stop < pos.entry THEN pos.stop ELSE pos.entry - 1,
     trailing |-> FALSE]

SyncPositions ==
    /\ IF trades = [t \in {} |-> 0]
       THEN /\ position' = NoPosition /\ manager' = NoManager
            /\ UNCHANGED <<trades, lost>>
       ELSE \E order \in Reported, reply \in Attachments :
            /\ trades' = Attached(reply)
            /\ lost' = lost + Cardinality({t \in DOMAIN reply : reply[t] = "lost"})
            /\ lost' <= MaxLost
            /\ position' = [entry |-> AvgPrice, stop |-> SyncedStop(order, reply),
                            tid |-> order[1], tids |-> DOMAIN trades,
                            hwm |-> Max({AvgPrice, candle.close, savedHwm})]
            /\ manager' = SyncedManager(position')
    /\ stopPhase' = IF stopPhase = "over" THEN "over" ELSE "idle"
    /\ UNCHANGED <<opened, savedHwm, candle>>

StopsNext ==
    \/ StopFires
    \/ ForeignTrade
    \/ BeginTick
    \/ CheckExitManager
    \/ NoPositionToCheck
    \/ Fills
    \/ NothingFills
    \/ UpdateStopLosses
    \/ TightenAllStops
    \/ SyncPositions

StopsSpec == StopsInit /\ [][StopsNext]_stopsVars

-----------------------------------------------------------------------------
(* Properties.                                                             *)

\* "Stops only ratchet upward (tighten) -- never move down": while a pair has
\* had a single trade and no answer was lost, no step of the program, a restart
\* and an abort included, lowers the stop that the broker holds for it.
\* With a second trade or a lost answer the code does not keep this promise.
StopsRatchet ==
    [][opened = 1 /\ lost = 0 =>
         \A t \in DOMAIN trades \cap DOMAIN trades' :
             trades'[t].stop >= trades[t].stop]_stopsVars

=============================================================================
