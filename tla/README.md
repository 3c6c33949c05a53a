# carry-trade-algo: a TLA+ verification project

This directory models the live trading system of the repository: the hourly
runner (`src/engine/runner.py`), its broker adapter, the position table and its
reconciliation, the 94-day protocol with its persistence, the risk and entry
gates, stops, watchdog, command bot and learning parts; and the offline parts
around it: paper broker, backtest, research and robustness reports.
Paths below are relative to the repository. `PROJECT.json` lists every
component, run, mutant, mapped definition, finding, hazard and theorem.

Contents: [inventory](#1-the-system), [modules](#2-modules),
[runs](#3-runs), [findings](#4-where-the-code-differs-from-its-documentation),
[proofs](#5-proofs), [not modelled](#6-not-modelled), [plan](#7-plan).

## 1. The system

### Live trading

| Component | State it keeps | Operations | What makes it correct |
|---|---|---|---|
| `engine/runner.py` | `_strategy_positions`, `_pending_orders`, day and week counters, alert flags | `_tick`, `_process_pair`, `_open_position`, `_check_pending_orders`, `_check_scaling`, `_close_position`, `_close_all_positions`, `_weekend_gap_close`, `_check_new_day`, `_record_day_result`, `_sync_positions`, `start`, `stop` | every live order is tracked; the table follows the broker; exposure and tranches are bounded; DEGRADED adds nothing |
| `broker/oanda.py` | none (the account is OANDA's) | `submit_limit_order`, `cancel_order`, `close_position`, queries, `_retry` | a request acts once; None means that nothing is known |
| `ops/reconciler.py` | none | `reconcile`, `apply_fixes` | afterwards the table has the broker's units |
| `risk/scaling.py` | none | `should_add`, `should_reduce`, `tranche_units`, `reduction_units` | tranche and level limits |
| `validation/protocol.py` | status, `days` | `record_day`, three `check_..._conditions`, `degrade`, `recover`, `abort`, `complete` | softer criteria fire first; one record per date; an abort is not missed |
| `persistence/store.py` | SQLite tables | `save_*`, `load_*`, `delete_position` | what is read back is what was decided |
| `risk/circuit_breakers.py` | `halt_timestamp` | `check_limits`, `is_trading_halted` | a breach stops entries for the cooldown, and no longer |
| `monitoring/performance.py` | high-water mark, equity | `update`, `get_snapshot` | drawdown is measured from the highest equity |
| `data/cross_asset.py` | a cached VIX | `get` | fails open |
| `risk/dynamic_sizer.py` | none | `calculate_size` | between 1 and `max_units` |
| `engine/market_hours.py` | none | `is_market_open`, `next_open`, `next_close` | the week, with daylight saving |
| `ops/watchdog.py` | last heartbeat, misses | `heartbeat`, `check` | a stuck tick is reported |
| `strategy/exit_manager.py` and the runner's stop maintenance | a software stop per pair, `stop_price` and `high_water_mark` of the position, a stop per trade at the broker | `check_exit`, `_update_stop_losses`, `_tighten_all_stops`, `_attach_initial_stop`, `_sync_positions` | a stop never moves against the position |
| `ops/alerts.py` | time of the last send per title | `send` | a severe message gets out, and not every five minutes |
| `ops/telegram_bot.py` | last update id | `_get_updates`, `_process_update`, five commands | each command is answered, in order |
| `ml/`, `rl/` | shadow records, registry, model files | `record`, `should_activate`, `retrain_bandit`, `register`, `promote` | only an evaluated model filters entries; a version keeps its weights |
| `adaptive/` | parameter sets | `save_params`, `record_performance`, `activate`, `get_active` | one measured set is active in each regime |
| `news/` | calendars | `refresh`, `is_blackout_period`, `is_boj_blackout` | no entry around an event |

### Offline

| Component | State it keeps | Operations | What makes it correct |
|---|---|---|---|
| `broker/simulator.py`, `broker/orders.py` | orders, positions, balance | `submit_order`, `cancel_order`, `execute_orders`, `close_position`, `accrue_swap` | the position is what the fills add up to; an ended order stays ended |
| `backtest/engine.py`, `backtest/portfolio.py`, `strategy/` | cash, position; the strategy's own view of it | `run`, `open_position`, `close_position`, `generate_signals` of each version | no money appears or is lost; strategy and portfolio agree |
| `regime/` | none | `detect`, `adapt_from_state`, `should_enter_long` | tables of regime and multipliers |
| `data/multi_timeframe.py`, `optimization/` | none | merge of weekly bars, grid search, walk-forward | nothing is decided with prices that come later |
| `validation/validator.py`, `validation/robustness.py`, `scripts/run_stress_test.py`, `scripts/run_validation.py` | none | portfolio curve, drawdown periods, tests and their verdicts | a report says what the backtest did |
| `risk/position_sizing.py`, `risk/correlation.py`, `risk/risk_metrics.py`, `visualization/`, other `scripts/`, notebooks | none | statistics, charts, printed reports | not modelled |

### How they interact

APScheduler's `BlockingScheduler` starts the jobs `strategy_tick`,
`health_check`, `daily_rollover`, `weekend_gap_close` and the weekly ones in a
pool of threads. `max_instances=1` keeps a job from overlapping *itself*;
nothing keeps two *different* jobs apart, and `_state_lock` is taken only by
the Telegram bot's reader. A tick asks the broker, repairs the table, sweeps
the pending orders, processes the pairs one after another, updates monitor and
circuit breaker, reviews the protocol, and saves. Between any two requests the
broker may fill, cancel or stop something.

### What is hard

* **Interleaving.** The broker acts between two requests of a tick; weekend
  close and rollover run beside a tick.
* **Lost answers.** `_retry` resends orders and closes that are not idempotent;
  `None` after three attempts does not say what happened.
* **Restart.** Pending orders, high-water mark, halt, and the counters of day
  and week are not stored; positions are stored at the end of a tick;
  an aborted protocol comes back DEGRADED.
* **Order of steps.** Reconciliation precedes the sweep of pending orders;
  scaling precedes the entry gates; the gates read the monitor before it is
  updated; degrade, recover and abort are reviewed in one pass.
* **Two memories of one thing.** A stop at the broker and what the process
  remembers of it; a strategy and the portfolio it cannot see; a model's version
  and its file; a calendar refreshed once and the clock that goes on.
* **Boundaries.** Days of zero profit, the last tranche, thresholds met exactly,
  the first hour after a weekend, weeks with a holiday, curves that end early.

`PROJECT.json` "hazards" lists them one by one, at their lines.

## 2. Modules

| Module | Models | Used by |
|---|---|---|
| `OandaAccount` | the account and every answer of `broker/oanda.py` to a request, `_retry` included | `TradingRunner` |
| `Reconciler` | `ops/reconciler.py`, as operators on tables | `TradingRunner` |
| `ScaleManager` | `risk/scaling.py`, as operators | `TradingRunner` |
| `TradingRunner` | the tick against the account, jobs, stop, restart | `MCTradingRunner` |
| `Mandate` | what the runner promises about its account (abstract) | `TradingRunner` |
| `Protocol` | `validation/protocol.py` driven by the runner, with its rows | `MCProtocol` |
| `Journal` | what the store promises of the protocol (abstract) | `Protocol` |
| `RiskGates` | circuit breaker, drawdown protocol, VIX gate, their baselines | `MCRiskGates` |
| `Stops` | the stops of one pair: at the broker, in the position, in the exit manager | `MCPlatform` |
| `Monitoring` | watchdog, market hours, alerts and the jobs that call them | `MCPlatform` |
| `CommandBot` | `ops/telegram_bot.py` with Telegram's queue | `MCPlatform` |
| `Delivery` | what a queue promises: at least once, in order (abstract) | `CommandBot` |
| `Learning` | the signal bandit from shadow mode to retraining, and the model registry | `MCPlatform` |
| `Regimes` | `regime/detector.py`, `regime/adapters.py`, as operators | `Parameters`, `EntryGates` |
| `Parameters` | adaptive parameters: weekly job, store, reader | `MCPlatform` |
| `EntryGates` | calendars, macro data and regime before an entry | `MCPlatform` |
| `PaperBroker` | the simulator under the paper-trading script | `MCPlatform`, `MCPaperBroker` |
| `Backtest` | engine, portfolio and all strategies, bar by bar | `MCPlatform` |
| `Research` | weekly merge, walk-forward, comparison with paper trading | `MCPlatform` |
| `Robustness` | portfolio curves, drawdown periods, verdicts of the tests | `MCPlatform` |
| `TradingRunner_proofs`, `TradingRunnerOrders_proofs` | theorems about the runner | |
| `Protocol_proofs` | theorems about the protocol and its rows | |
| `Risk_proofs` | theorems about `RiskGates`, `EntryGates` and `Stops` | |
| `Operations_proofs` | theorems about `CommandBot`, `Monitoring`, `Learning` and `Parameters` | |
| `Offline_proofs` | theorems about `Backtest`, `Research`, `PaperBroker` and `Robustness` | |
| `Operators_proofs`, `Folds_proofs` | what `Max`, `Min` and `FoldLeft` return, and the ranks of a finite set of numbers, for the theorems above | |

Operators whose comment begins with "Mutant:" are faulty variants of the
definition below them; no specification uses them. They show that a property
depends on the code it is about.

**TradingRunner.** `positions` and `pending` are the two tables; a position has
its units, `tranche_count`, `levels_taken` and `managed` (trade id, stop price
and entry ATR known; a position the reconciler adopts has none of them).
`stored` holds the rows of `position_states`. Each phase of the tick is a value
of `phase`; a step is one request with the code that handles the answer, which
is the finest grain at which the account can change under the code. `found`
keeps `has_position` and `has_pending`, which `_process_pair` reads once and
uses after several requests; `seen` keeps the answers that are used later in
the tick. Signals, exit verdicts, price conditions and entry sizes are inputs.
A handler that swallows an exception is a step that leaves the rest undone.
`mode` is the protocol's status; when it changes is left open here
(`ReviewProtocol`, `BeginAbort`, `Complete`) and modelled in `Protocol`, so
that every property of `TradingRunner` holds for any history.

**OandaAccount.** A reply is modelled at the moment the broker gives it. Lost
answers are `OrderResent` and `ReduceResent` (executed up to `MAX_RETRIES`
times), a request that never gets through is `Unreachable`; both, and a stop
of the process, draw on `budget`. A limit order at the bid may fill at once or
at any later moment.

**Mandate.** The runner seen from its account: holdings, live orders and the
protocol's status, and nothing of the tick or the tables it decides by. An order
is placed for a pair that has none, under a new id, within the cap and one order
more, and not while the protocol is degraded or aborted; a live order ends
filled or cancelled; holdings shrink one pair at a time. A completed protocol can
still be aborted, by the tick that was under way when the rollover completed it.
`TradingRunner` implements it with `held`, `orders` and `mode`
(`MandateRefined`) as long as the broker answers; the table and the queries are
how the code gets there, and what makes the step hard to show.

**Protocol.** Equity is an input from `Levels`; the criteria are translated
with integers (`x * 100 > limit * peak`), and only the sign of a day's profit
is kept, which is all that the criteria look at. Three callers record a day.
Degrade, recover and abort are separate steps, as the rollover may record a day
between them. The rollover records in memory, sends its summary, and stores
what it recorded only then (`RolloverRecords`, `RolloverSaves`); `late` is the
day that is on its way, and a review or a crash may fall in between. A new date
waits for it: the job starts at 21:55, a date begins at a full hour, and sending
an alert gives up after ten seconds. Day and status are two commits, and
`Crash` may fall between these too. `reason` tells a protocol that was degraded by its criteria from
one resumed after an abort. Extending an old protocol of fewer than 94 days
(`runner.py:452-462`) is not modelled.

**Journal.** The protocol seen from its store: the table of days, the day that is
on its way and the saved status, and nothing of process, memory or review. Days
before the newest never change; an active protocol is degraded, recovered or
aborted for the stored days, or these with the one on its way, and completed by
its last day; whenever a process ends, no more than the day being written is
lost. `Protocol` implements it with `rows`, `late` and `row.status`
(`JournalRefined`), although every verdict is taken by a process from its own
history. A review that is under way when the rollover completes the protocol
may still abort it.

**RiskGates.** Follows equity through a tick: read, offered to the gates,
reviewed. `alerted` holds the flags behind the messages to the operator, as the
code does. `is_trading_halted` is modelled by what it does (it raises once a
halt is set, and the tick drops the pair). Macro data change at most once in a
tick, as their cache lasts five minutes.

**Stops.** `trades` are the broker's trades of one pair with their stops,
`position` the runner's entry for it, `manager` the exit manager's. A tick is
exit check, fill or not, and the update of the stop; the tightening of an abort
and the restart may come between ticks. Exits the code finds in sequence are one
set of verdicts; a request may be refused or lose its answer.

**Monitoring.** The clock is the hour of a week in New York. `HealthCheck` calls
watchdog and market transition in the code's order; whether two hours without a
heartbeat exceed twice the interval is left open, three always do. `idleHours`
is a history variable for the property: hours of open market since it opened or
since a tick finished.

**CommandBot** and **Delivery.** `inbox` and `confirmed` are Telegram's, `batch`
the updates a call returned. `CommandBot` implements `Delivery` under a mapping
that calls an update processed when its handler ran: `DeliveryRefined` is the
abstract specification, as a property of the run.

**Learning.** A model is the interval of closed trades it was trained on, so that
two models are equal exactly when they saw the same. `artifacts` is the
directory of model files.

**Parameters.** The index of a row of `param_sets` is its id. `JobDies` may come
between any two of the three transactions. That the optimiser compares regime
names in upper case with names in lower case is in `OptimizedTrade`.

**EntryGates.** An entry signal passes calendar, BOJ calendar, macro data and
regime. `events` is what the calendar holds since its one refresh.

**PaperBroker.** Integers for money; a position keeps its cost. Margin, reversal,
partial close and the order in which `execute_orders` visits the pending list
are the code's.

**Backtest.** `generate_signals` never sees the portfolio, so strategy and engine
advance together bar by bar although one runs after the other. The indicators of
a bar are three facts about it, any combination of which may occur.

**Research.** Two price histories are studied side by side; they agree up to
`Horizon`. What differs between them before that was computed from the future.

**Robustness.** A curve of several pairs, or of one pair rebuilt from its trades,
is walked for its drawdowns; then the suite runs. Resampled statistics are
choices, the decision taken from them is the code's.

## 3. Runs

The constants keep the code's *structure* and shrink its sizes:
`max_pending_ticks` 2, `max_tranches` 3, two profit levels, 33 percent and
`MAX_RETRIES` 3 are the code's own values. `MaxUnits` 3 or 5 makes the cap on a
scale-in (`room` smaller than a tranche, and no room) and a scale-out to one
unit both happen. `MaxOrders` 3 or 4 allows an entry, a lost cancel, a second
entry and a scale-in of the pair; the run with liveness under faults has 2.
A protocol of three days, with 1 losing or breaker day to degrade and 2 to
abort, and a win rate that counts from the start (`MinTrades` 0), has streaks and
breaker days under, at and over each limit, falls of 16 percent, which pass all
three drawdown limits, and aborts, recovers or completes. Its days are active by
profit or loss and close no trades, which leaves room for two ends of the process;
the theorems about it hold for any levels, trades and thresholds. Drawdown, VIX and loss limits are those
of the code, in percent, with equities around them.
`RunnerWeekend` enters with `MaxUnits` at once, so that three orders can pass the
mandate's cap if a guard is missing. `GatesAnnounce` starts a week 16 percent
below the high-water mark, where the drawdown protocol halts entries although the
circuit breaker, which looks at the losses of day and week first, has not tripped.

| Run | Distinct states | Shows |
|---|---|---|
| `RunnerOrders` | 904 thousand | with a broker that answers: orders tracked, exposure within one order of the cap, an abort ends with an empty table |
| `RunnerWeekend` | 378 thousand | orders tracked with weekend close and rollover in other threads; tick, jobs and broker keep the mandate; every order filled or cancelled in the end, over shut markets too |
| `RunnerRestart` | 1.3 million | two ends of the process anywhere: tranches bounded; progress kept by a stop between two ticks |
| `RunnerFaults` | 38 thousand | after a lost, refused or repeated request or a restart the table follows the broker again, no order is tracked for ever, DEGRADED places none |
| `ProtocolHistory` | 693 thousand | the store has the history of an active protocol; one record per date, in order; every status saved; the store by itself is a journal, over two ends of the process; the degraded criteria cover the abort criteria; a history that aborts leads to an abort |
| `GatesAnnounce` | 331 thousand | entries agree with what was announced; the drawdown the gates read is never negative, across a restart too |
| `Platform` | 347 thousand | the components around the tick and the offline ones, each by itself |

`Platform` explores ten components that share no variable. A behaviour picks one
(`part`) and follows it; the others stand still, since interleaving them would
multiply the states and show nothing new. `PlatformNext` names every action of
every component. Its properties:

| Property | Shows |
|---|---|
| `StopsRatchet` | no step lowers the broker's stop of a pair with one trade and no lost answer, over restart and abort |
| `MissMeansIdleMarket` | the watchdog counts a miss only after two hours of open market without a tick: a weekend raises no alarm |
| `DeliveryRefined` | Telegram and bot deliver each update at least once and in order, over stops, crashes and failed calls |
| `ArtifactsAreKept` | every version's file holds its model, as long as the trade log fits the retraining window |
| `FilterIsEarned` | a bandit that filters entries was evaluated in this process, or promoted |
| `ActiveSetsAreMeasured` | each regime has at most one active set, measured, and never falls back, wherever the job dies |
| `NetPositionIsFills` | the simulated position is the sum of the filled orders, over additions, partial closes and reversals |
| `BooksBalance` | cash and cost are capital, profits and commissions; strategy and portfolio agree on holding |
| `EntryAvoidsEvents` | no entry around a BOJ meeting or an event of feed or file, with two exceptions it states |
| `NoLookAhead` | weekly columns and chosen parameters do not depend on later prices |
| `ReportsAreRight` | curves account for every profit; the longest drawdown is the longest, to the last day |

Five more runs, `Find...`, are in the next section.

**Why the properties are not obvious.** `LiveOrdersTracked` relates a table to
the account through three queries and two writers; it is false as soon as one
answer is lost, and `RunnerFaults` checks what the code promises then, a return
to agreement. `ExposureWithinOneOrder` is what is left of `max_units` as a
ceiling: a stale cancel that loses against the fill lets the pair be entered
once more. `DatesIncreasing` and `HistoryStored` hold although three callers
record the same day and a crash may fall between any two of them.
`JournalRefined` says which verdicts the store allows, and they are taken from
another copy of it, while a third thread is writing.
`HaltAnnouncementKept` relates a flag set in one pass to gates of later ticks.

`StopsRatchet` involves four writers of one stop, `NoLookAhead` compares two
computations, `EntryAvoidsEvents` a refresh of the past with the clock of now,
and `BooksBalance` two parties that never see each other.

**Bounds of `Platform`.** A price that rises by 8 percent activates trailing and
stays under it; two trades of a pair and one lost answer, with any candle. The
clock of `Monitoring` wraps around the week, so its bound hides nothing. Two
updates and one restart of the bot: every order of fetch, process and crash for
a batch and its successor. Four closed trades with a window of three: the window
is exceeded once. Two paper orders of up to two lots with an account that can
pay for one of them: addition, partial close, reversal, rejection. Four bars:
entry, trailing, exit and a second entry. Two regimes and three parameter sets:
a set is replaced, and the job dies before that. Events of two days, in the
feed, the file, both, or moved. Seven days in weeks of three, with holidays on
a Friday, and two walk-forward windows. Curves of four days from two pairs that
may start late and end early, and up to two trades.

**Bounds.** `MaxOrders` (order ids), `MaxFaults`, `MaxRestarts`, `MaxDate`, and
`Levels`. A behaviour that uses up the order ids goes on without new orders: all
safety properties are about the orders there are, so the bound cuts long
behaviours and hides no short one. One pair is enough for these properties,
which speak of one pair at a time; the theorems below cover any number.
`CHECK_DEADLOCK FALSE` stands where the system may stop: an aborted or
completed runner, the last date of the calendar.

**Fairness.** Ticks: strong fairness, since the scheduler starts one every hour
of an open market and a started one runs to its end, but between weekends the
guard is false for a while. Jobs and restarts: weak fairness (cron triggers;
`restart: unless-stopped` in `docker-compose.yml`). The broker owes nothing: no
fill, no stop, no cancel is fair. `Protocol`: strong fairness of the tick, as a
rollover holds up the start of a day for a moment, and weak fairness of the restart
and of the rest of a rollover that has begun; none of its beginning or of
midnight. Faults are not fair and bounded, so
liveness says what happens once they stop. The components of `Platform` are
checked for safety only: of none of them the code promises progress that a
schedule of its own would bring (the bot's thread may be stopped, a weekly job
may die, a feed may stay away).

**Mutants.** For each property of each run `PROJECT.json` names a faulty
variant of a modelled definition with which the property fails under the same
configuration: a cancel that is not sent, a counter that is not raised, a save
that is left out, two thresholds swapped.

## 4. Where the code differs from its documentation

Each of these runs states what a comment or docstring of the repository says,
and TLC shows a behaviour of the code that differs. `PROJECT.json` "findings"
quotes the lines.

| Run | The code |
|---|---|
| `FindFillsNotPromoted` | a deferred fill is adopted by the reconciler in step 5 of the tick, and never promoted in step 5c: the position has no trade id, stop or entry ATR |
| `FindHeldOverWeekend` | the Friday close works on the table at its start and leaves pending orders; ticks until the market shuts may enter again |
| `FindOldBreakerDegrades` | the criterion "circuit breaker triggered today" counts every day of the history |
| `FindHaltForever` | the halt of the circuit breaker never ends: a naive and an aware datetime are compared, and the tick swallows the exception |
| `FindRejectedFills` | an order the simulator rejected stays pending and fills once the margin suffices |

Other behaviours that shaped the models, without a run of their own:

- A scale-in order the broker cancelled counts as a tranche when the pair has a
  position (`engine/runner.py:1615`): `ConfirmScaleIn` does what the code does.
- `max_units` bounds an order, not the position (`engine/runner.py:1956`).
- `_retry` sends a limit order again after a lost answer, so two orders of a
  pair may be live (`broker/oanda.py:86`); the last one is tracked.
- `_pending_orders` is not rebuilt after a restart (`engine/runner.py:246`), so
  `OrdersResolved` needs a process that goes on, and `LiveOrdersTracked` too.
- High-water mark, halt, day and week baselines are not stored
  (`engine/runner.py:222-231`, `:480`): announcements hold within one process.
- A recovery accepts days of zero profit, from before the degradation too
  (`validation/protocol.py:330`), and a protocol resumed after an abort meets
  the abort criteria again with the history it kept (`engine/runner.py:840`).
- Scale-in asks neither the circuit breaker nor the drawdown gate
  (`engine/runner.py:989`); the gates read the monitor of the tick before
  (`:1029`); the VIX gate has no hysteresis while its alert has (`:1061`).
- Stops: a restart takes the stop of the last trade of a pair for that of the
  position, and tightening writes the position's new stop to every trade, so
  with two trades a stop may be loosened; so may it after a lost answer
  (`engine/runner.py:2068-2181`, `:2340`, `:2621`). `StopsRatchet` excludes both.
- The health check leaves out the market transition while the broker is
  unreachable (`engine/runner.py:2910`); its INFO messages never pass the
  severity filter WARNING (`:257`).
- The name of a model file counts updates, which stop growing when the trade log
  exceeds the window (`rl/retraining.py:90`): `ArtifactsAreKept` is limited to
  shorter logs. The weekly job registers a new shadow model before it looks for
  one to promote, and nothing updates the Sharpe ratio of a shadow model.
- The optimiser excludes regimes by names in upper case, the regimes are in lower
  case (`adaptive/optimizer.py:87`); a set with the worst score is activated too.
- The calendar drops an event of the file that has begun, although its window
  still runs, and is refreshed once in a process (`news/live_calendar.py:99`).
- A second close of a simulated position reverses it (`broker/simulator.py:433`).
- The swap of a backtest is recorded with the trade and never paid into cash, and
  a trade's profit leaves out the commission of its opening
  (`backtest/portfolio.py:106-149`).
- `verify_no_lookahead` finds the week of a bar by its closing price and raises
  for a later week with the same close (`data/multi_timeframe.py:243`).
- The suite of `validation/robustness.py` passes when it is given no known test,
  and the priority "low" runs all of them (`:1800`); the validator counts an
  improvement on a baseline near zero as a degradation
  (`validation/validator.py:267`).

## 5. Proofs

TLAPS checks the following for every value of the constants that meets the
modules' ASSUMEs, so for any number of pairs, days, orders, updates, models or
bars. A hypothesis is named where there is one.

| Module | Theorem | States |
|---|---|---|
| `TradingRunner_proofs` | `ReconciledMatchesBroker` | the repaired table has the broker's pairs and units |
| | `TypeCorrect` | `[]TypeOK` |
| `TradingRunnerOrders_proofs` | `DegradedPlaces` | `DegradedPlacesNoOrder`, under every fault |
| | `OrdersTracked` | `[]LiveOrdersTracked`, if `Faults = {}` |
| | `MandateKept` | `MandateRefined`: `TradingRunner` implements `Mandate`, if `Faults = {}` |
| | `TranchesBounded` | `[]TranchesWithinLimit`, under every fault |
| | `ExposureBounded` | `[]ExposureWithinOneOrder`, if `Faults = {}` |
| | `AbortClears` | `[]AbortClearsTable`, if no answer is missing or lost |
| | `ProgressKept` | `[]IdleStopKeepsProgress`, if no answer is missing or lost |
| `Protocol_proofs` | `ProtocolTypeCorrect` | `[]TypeOK` |
| | `StatusAlwaysSaved` | `[]StatusSaved` |
| | `HistoryAlwaysStored` | `[]HistoryStored` |
| | `JournalKept` | `JournalRefined`: `Protocol` implements `Journal` |
| | `DatesAlwaysIncrease` | `[]DatesIncreasing` |
| | `SofterThresholds`, `SofterAlwaysFirst` | `SofterFirst` in every typed state, and along every behaviour, if the thresholds are ordered |
| `Risk_proofs` | `GatesTypeCorrect`, `MarkNotBelowEquity` | `[]TypeOK`, `[]DrawdownNotNegative` |
| | `HaltKept`, `CautionKept` | `HaltAnnouncementKept`, `CautionAnnouncementKept` |
| | `EntriesAvoidEvents` | `[]EntryAvoidsEvents` |
| | `StopsNeverLowered` | `StopsRatchet`, if `PricesAboveStops` |
| `Operations_proofs` | `BotDelivers` | `CommandBot` implements `Delivery` |
| | `MissIsReal` | `[]MissMeansIdleMarket` |
| | `ArtifactsKept`, `FilterEarned` | `[]ArtifactsAreKept`, `[]FilterIsEarned` |
| | `SetsMeasured` | `ActiveSetsAreMeasured` |
| `Offline_proofs` | `BooksAlwaysBalance` | `[]BooksBalance` |
| | `ResearchNeverLooksAhead` | `[]NoLookAhead` |
| | `NetPositionKept` | `[]NetPositionIsFills` |
| | `ReportsAlwaysRight` | `[]ReportsAreRight` |

**Hypotheses.** `Faults = {}` is a process that goes on and a broker that answers
every request once: it may still fill, cancel and stop whatever it likes between
two requests, and the jobs of other threads stay in. With a lost answer or a
restart `LiveOrdersTracked` is false (section 1, *What is hard*), and the bound on
exposure with it. The abort and the stored progress allow restarts; but an
unanswered close leaves its pair in the table, and a start whose queries are not
answered adopts the positions with fresh counters. The runs
`RunnerOrders`, `RunnerWeekend` and `RunnerRestart` satisfy these hypotheses.
The protocol's thresholds are ordered in `AbortCriteria` and
`DegradedCriteria`. `PricesAboveStops` says that entry, trailing and tightened
stops lie at or above zero: a stop price below would be sent as it is, and the
code does not exclude it either.

**The inductive invariants.** Most properties are not inductive. What each needs
besides itself, checked by TLC before it was proved:

*TypeInv* (TradingRunner) adds the control facts that types need: a pair is at
work in the phases that use `cur`, and the pairs left to sweep are tracked.
There are lemmas for each request to the broker and each helper on tables, and
one per group of actions.

*OrderInv* (`OrdersTracked`): an order that is missing in the broker's list of
this tick but still live would be dropped. From the answer to the query until
the end of the sweep every live order is in that answer, since nothing places an
order in between; and `found` is linked to `pending`, so that an entry never
overwrites a tracked order.

*ExposureInv* (`ExposureBounded`) rests on it. A pair has at most one live order.
From the positions query to the next order of a pair, only the order that was
live at the query can lift the holdings above what the table says, by at most
`MaxUnits`; so an entry, made when the table has nothing, or a scale-in, sized
by what the table has, ends within `2 * MaxUnits`. A pair is not visited twice
in one tick, or the second visit would order on a table of before the first.

*KeepsInv* (`MandateKept`) joins it with *ProgressInv* below and two facts: ids of
live orders are different and smaller than the next one, and no process goes down
by itself. An order is within the mandate because the answers of this tick are
still good enough when it is placed. What happens after an abort needs
*ProgressInv*: an aborted runner is idle, so nothing is left that could order or
change the status. There is one step of `Mandate` for each request to the
broker, and a stutter for what the runner only writes in its tables.

*TrancheInv* (`TranchesBounded`) follows a count through immediate fills,
promoted fills, confirmed scale-ins, adoption, save and restart. A scale-in is
ordered with a tranche left but counted later: a pair with a pending scale-in
has a tranche left *in the position it has*. The stored rows are bounded as
well, as a restart reads them back.

*ProgressInv* (`AbortClears`, `ProgressKept`): the pairs an abort has still to
close cover the table, and between two ticks the rows of the store, with the
defaults for a missing row, say what the table says.

*ProtocolInv* has the history in strict order of dates, none later than the day
that has begun. While the protocol is active, the days in memory are those the
store will have once the day on its way is written. Its hard step is the
sort in `record_day`: that each date has one place, and that the places are the
dates in order, follows from how many dates are smaller than a given one.

*JournalInv* (`JournalKept`) adds the status: while a day is on its way, the status
in memory is the one its record will save, and a protocol the *store* has as
active is judged by the known days even when the process has just completed it.
A verdict is a function of the history as a sequence, and the store has a table:
two histories in strict order with the same days are the same sequence, shown at
the least place where they differ. An aborted process is down, so that no
review goes on after it.

*AnnouncedHolds* (the gates): what was announced and not called off is what the
next gate finds in the snapshot it reads, mark and equity together.
*CalendarInv*: the calendars are what the start made of the feed, and an entry
of the running hour has passed both.

*StopInv* (`StopsNeverLowered`): while one trade was opened and no answer was
lost, the stop the position remembers is the one the broker holds. All four
writers compare with the remembered one, so "tighter than mine" means tighter.

*BotInv* (`BotDelivers`): the processed updates are a prefix 1..d of those sent,
the offset lies within it, and a fetched batch is a run of consecutive updates
that begins no later than d + 1. `Delivery`'s step for every step of the bot
follows, a crash between processing and confirmation included.

*WatchdogInv*: while the watchdog takes the market to be open, the last heartbeat
is no older than the time without a tick, and a checked hour of a closed
market has stopped it. *LearningInv*: each version's file
exists and, while the trade log fits the window, its name tells which trades it
was trained on, so no retraining overwrites the file of another version.
*ParametersInv*: the set the weekly job is at is the newest of its regime and
not active, so activating it never falls back.

*BooksInv* (`BooksAlwaysBalance`): the strategy is in a position exactly when the
portfolio is, except where the portfolio could not pay the commission of an
entry, and then it can pay it at no later bar either. *ResearchInv*: every merged
column and window is a function of its history; that this function does not
read later days is shown column by column, for the folds among them by
congruence.

*PaperInv* (`NetPositionKept`): the list of pending orders has no order twice and
none that was filled or cancelled, and the position's units are the sum of the
fills. One price update is a fold over that list; *Account* is the invariant of
its passes, and says that the orders still to be tried are unchanged. The two
folds are instances of `Folds_proofs`.

*ReportsInv* (`ReportsAlwaysRight`) relates a walk that keeps three numbers to the
whole curve. Of the samples seen so far the walk has noted exactly the drawdowns
that ended among them, and it is in a drawdown exactly when one is open; as two
drawdowns never overlap, the periods it reports are all of them and the longest
is the longest. A rebuilt account has been paid by the trades closed so far and
holds the trade of the day; the days of a portfolio are written in order, and its
last day is the largest, found by ranks. Sums over pairs and trades are compared
term by term, through the function that `MapThenSumSet` folds.

**Data of any size.** The induction theorems of the library take an operator as
parameter, which the provers cannot instantiate. Where a proof needs one,
it takes the least number at which a statement fails (`LeastNatural`, from
well-foundedness), or counts a finite set. `Folds_proofs` shows in this way that
the recursion behind `FoldLeft` has a solution for every operator and sequence,
and with it what one more element does; modules instantiate it with the
operator they fold.

**Only model-checked.** Liveness (`OrdersResolved`, `PendingResolved`,
`TableConverges`, `AbortHappens`) is out of the prover's reach. So are the types
of `Platform` as one invariant (`PlatformTypeOK`), because its specification
exists only to check the components together; the proofs have the types they
need in their invariants.

## 6. Not modelled

*Numbers.* Prices and what is computed from them (indicators, correlation, sizes
within their range, Sharpe ratios, resampled statistics, weights) are inputs:
the floating-point functions of `strategy/indicators.py`, `risk/`,
`backtest/metrics.py`, `ml/bandit.py` and `ml/features.py` keep no state that a
step could spoil, and TLC has no real numbers. Where code decides on such a
number, the decision is modelled and the number is a choice.

*Input and output.* Loading, generating and cleaning price files
(`data/loader.py`, `data/generator.py`, `data/preprocessor.py`), charts,
notebooks, printed and mailed reports (`scripts/protocol_report.py`,
`scripts/monthly_review.py` and the comparing scripts), configuration and logging.

*Code nothing uses.* `risk/stop_loss.py` outside one analysis script,
`rl/environment.py` outside its tests, market orders of the adapter.

*Left open.* An authentication error, which `_retry` raises instead of returning
None, is not an outcome of a request. The start of the process, where an abort
of the initial tick calls `stop()` before the scheduler runs
(`engine/runner.py:597`). A torn read of the bot, which shows in one reply.
The equity curve rows, trades and checkpoints of the store, which are only read
for reports. The expiry of the macro cache and daylight saving.

## 7. Plan

Written first: `Reconciler`, `ScaleManager`, `OandaAccount`, `TradingRunner`
(the core) with `Mandate`, `Protocol` with `Journal`, `RiskGates`; then `Stops`, `Monitoring`, `CommandBot`
with `Delivery`, `Learning`, `Regimes`, `Parameters`, `EntryGates`; then the
offline parts `PaperBroker`, `Backtest`, `Research`, `Robustness`. What is left:

1. Composition of `Stops` with `TradingRunner`, so that trades at the broker
   carry their stops through fills, tranches and the weekend close.
2. Authentication errors as an outcome of a request, and the start of the process.
