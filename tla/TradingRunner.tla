--------------------------- MODULE TradingRunner ---------------------------
(***************************************************************************)
(* engine/runner.py: the hourly tick of TradingRunner against the broker.  *)
(*                                                                         *)
(* The runner keeps two tables: "positions" (_strategy_positions) and      *)
(* "pending" (_pending_orders, at most one limit order per pair).  A tick  *)
(* walks through the phases below; each step holds one request to the      *)
(* broker (a failed close: also the query that follows it) and the code    *)
(* that handles the reply, so the broker may fill, cancel or stop anything *)
(* between two steps.                                                      *)
(*                                                                         *)
(*   idle -> reconcile -> orders -> trades -> sweep -> pairs               *)
(*        -> (exit -> scale -> signal) for each pair -> protocol           *)
(*        -> trim -> idle        or        protocol -> abort -> idle       *)
(*                                                                         *)
(* _weekend_gap_close and _daily_rollover are jobs of the same scheduler:  *)
(* they run in other threads of its pool and nothing keeps them from       *)
(* overlapping a tick.  A tick that returns before its first position      *)
(* query (market closed, protocol not active, no account state) changes    *)
(* none of this state and is a stuttering step.                            *)
(***************************************************************************)
EXTENDS OandaAccount, Reconciler, ScaleManager

CONSTANTS NoPair,           \* no pair is being processed
          EntrySizes,       \* what the sizing rules return for an entry
          MaxUnits,         \* dynamic_sizer.max_units
          MaxPendingTicks,  \* config.max_pending_ticks
          Jobs              \* scheduler jobs besides the tick

ASSUME RunnerAssumption ==
    /\ NoPair \notin Pairs
    /\ MaxUnits \in Nat \ {0}
    /\ EntrySizes \subseteq 1..MaxUnits
    /\ MaxPendingTicks \in Nat \ {0}
    /\ Jobs \subseteq {"weekend", "rollover"}

VARIABLES
    positions,  \* _strategy_positions: pair -> position record
    pending,    \* _pending_orders: pair -> order record
    stored,     \* position_states rows of the SQLite store
    mode,       \* protocol.status
    phase,      \* where the tick is
    todo,       \* pairs the current loop has still to visit
    cur,        \* the pair _process_pair works on
    found,      \* what _process_pair saw of it at its start
    seen,       \* replies of the broker kept across steps of the tick
    week,       \* the trading week: open, friday (gap close fired), shut
    closing     \* pairs the weekend job has still to close

memory == <<positions, pending>>
tick   == <<phase, todo, cur, found, seen>>
job    == <<week, closing>>
vars   == <<account, budget, memory, stored, mode, tick, job>>

Phases == {"idle", "reconcile", "orders", "trades", "sweep", "pairs", "exit",
           "scale", "signal", "protocol", "abort", "trim", "down"}

Active == {"RUNNING", "DEGRADED"}
Over   == {"ABORTED", "COMPLETED"}

Position == [units : Nat, tranches : Nat, levels : Nat, managed : BOOLEAN]
Tracked  == [id : OrderId, units : Nat \ {0}, ticks : Nat, scaleIn : BOOLEAN]
Row      == [tranches : Nat, levels : Nat]

NoTable   == [p \in {} |-> 0]
NoReplies == [positions |-> NoTable, orders |-> {}, trades |-> {}]

Put(table, p, entry) ==
    [q \in DOMAIN table \cup {p} |-> IF q = p THEN entry ELSE table[q]]
Drop(table, p) == [q \in DOMAIN table \ {p} |-> table[q]]

IsTable(table, entries) ==
    /\ DOMAIN table \subseteq Pairs
    /\ table \in [DOMAIN table -> entries]

\* Every variable holds a value of the program's kind; in particular a table
\* has at most one entry per pair and the phase of a tick is one of the above.
TypeOK ==
    /\ AccountTypeOK
    /\ IsTable(positions, Position)
    /\ IsTable(pending, Tracked)
    /\ IsTable(stored, Row)
    /\ mode \in Active \cup Over
    /\ phase \in Phases
    /\ todo \subseteq Pairs
    /\ cur \in Pairs \cup {NoPair}
    /\ found \subseteq {"position", "order"}
    /\ seen.orders \subseteq OrderId
    /\ seen.trades \subseteq Pairs
    /\ IsTable(seen.positions, Nat)
    /\ seen = [positions |-> seen.positions, orders |-> seen.orders,
               trades |-> seen.trades]
    /\ week \in {"open", "friday", "shut"}
    /\ closing \subseteq Pairs

Init ==
    /\ AccountInit
    /\ positions = NoTable
    /\ pending = NoTable
    /\ stored = NoTable
    /\ mode = "RUNNING"
    /\ phase = "idle"
    /\ todo = {}
    /\ cur = NoPair
    /\ found = {}
    /\ seen = NoReplies
    /\ week = "open"
    /\ closing = {}

-----------------------------------------------------------------------------
(* Control flow of the tick.                                               *)

\* The visit of p in the current loop is over; after the last pair go on.
Visited(p, next, nextTodo) ==
    IF todo = {p}
    THEN phase' = next /\ todo' = nextTodo
    ELSE phase' = phase /\ todo' = todo \ {p}

StartPairs == phase' = "pairs" /\ todo' = Pairs

EndPair ==
    /\ phase' = IF todo = {} THEN "protocol" ELSE "pairs"
    /\ cur' = NoPair
    /\ found' = {}
    /\ UNCHANGED <<todo, seen>>

-----------------------------------------------------------------------------
(* Requests shared by several handlers.                                    *)

\* _pending_orders[pair] = {...}
Track(p, u, scaleIn, id) ==
    pending' = Put(pending, p, [id |-> id, units |-> u, ticks |-> 0,
                                scaleIn |-> scaleIn])

WithTranche(position, u) ==
    [units |-> position.units + u, tranches |-> position.tranches + 1,
     levels |-> position.levels, managed |-> position.managed]

\* _promote_filled_order, and the immediate fill of a scale-in: a scale-in
\* merges into the position if there is one, anything else is a new one.
Promoted(p, u, scaleIn) ==
    IF scaleIn /\ p \in DOMAIN positions
    THEN [positions EXCEPT ![p] = WithTranche(@, u)]
    ELSE Put(positions, p, [units |-> u, tranches |-> 1, levels |-> 0,
                            managed |-> TRUE])

\* submit_limit_order and what the caller does with the reply.  A refused
\* order (or no bid price) leaves everything as it was: the caller goes on.
Submit(p, u, scaleIn) ==
    \/ /\ OrderAccepted(p, u)
       /\ Track(p, u, scaleIn, nextId)
       /\ UNCHANGED positions
    \/ /\ OrderFilledAtOnce(p, u)
       /\ positions' = Promoted(p, u, scaleIn)
       /\ UNCHANGED pending
    \/ \E n \in 1..MaxRetries :
       /\ OrderResent(p, u, n)
       /\ \/ UNCHANGED pending
          \/ n > 1 /\ Track(p, u, scaleIn, nextId + n - 1)
       /\ UNCHANGED positions

\* _close_position: a fill drops the position and its row (the row stays when
\* the table has no such position: del raises); on None the runner asks for
\* the positions and drops a pair the broker does not have.  Pending orders
\* of the pair are left alone.
ClosePosition(p) ==
    /\ \/ /\ Reduced(p, held[p])
          /\ positions' = Drop(positions, p)
          /\ stored' = IF p \in DOMAIN positions THEN Drop(stored, p) ELSE stored
       \/ /\ \/ held[p] = 0 /\ ReduceRefused(p, 0)
             \/ ReduceResent(p, held[p], 1)
          /\ positions' = Drop(positions, p)
          /\ stored' = Drop(stored, p)
       \/ /\ Unreachable \/ ReduceResent(p, held[p], 1)
          /\ UNCHANGED <<positions, stored>>
    /\ UNCHANGED <<pending, mode>>

\* A partial close of u units; "done" is what the caller records on a fill.
PartialClose(p, u, done) ==
    \/ Reduced(p, u) /\ positions' = done
    \/ \E n \in 1..MaxRetries :
       /\ ReduceResent(p, u, n)
       /\ \/ UNCHANGED positions
          \/ n > 1 /\ positions' = done

-----------------------------------------------------------------------------
(* Step 5 of _tick: reconcile the table with the broker.                   *)

FetchPositions ==
    /\ phase = "idle"
    /\ mode \in Active
    /\ week # "shut"
    /\ \/ /\ phase' = "reconcile"
          /\ seen' = [seen EXCEPT !.positions = GetAllPositions]
          /\ UNCHANGED <<account, budget, todo>>
       \/ /\ Unreachable
          /\ IF pending = NoTable THEN StartPairs
             ELSE phase' = "orders" /\ UNCHANGED todo
          /\ UNCHANGED seen
    /\ UNCHANGED <<memory, stored, mode, cur, found, job>>

ReconcilePositions ==
    /\ phase = "reconcile"
    /\ positions' = Reconciled(positions, seen.positions, Pairs)
    /\ seen' = [seen EXCEPT !.positions = NoTable]
    /\ IF pending = NoTable THEN StartPairs
       ELSE phase' = "orders" /\ UNCHANGED todo
    /\ UNCHANGED <<account, budget, pending, stored, mode, cur, found, job>>

-----------------------------------------------------------------------------
(* Step 5c: _check_pending_orders.                                         *)

\* None is handled as an empty list.
FetchPendingOrders ==
    /\ phase = "orders"
    /\ phase' = "trades"
    /\ \/ /\ seen' = [seen EXCEPT !.orders = GetPendingOrders]
          /\ UNCHANGED <<account, budget>>
       \/ Unreachable /\ UNCHANGED seen
    /\ UNCHANGED <<memory, stored, mode, todo, cur, found, job>>

FetchOpenTrades ==
    /\ phase = "trades"
    /\ phase' = "sweep"
    /\ todo' = DOMAIN pending
    /\ \/ /\ seen' = [seen EXCEPT !.trades = GetOpenTrades]
          /\ UNCHANGED <<account, budget>>
       \/ Unreachable /\ UNCHANGED seen
    /\ UNCHANGED <<memory, stored, mode, cur, found, job>>

\* Mutant: ticks_waited is never counted up.
AwaitFillUncounted(p) ==
    /\ pending[p].id \in seen.orders
    /\ pending[p].ticks + 1 < MaxPendingTicks
    /\ UNCHANGED <<account, budget, memory>>

\* The order is listed and young: one tick older.
AwaitFill(p) ==
    /\ pending[p].id \in seen.orders
    /\ pending[p].ticks + 1 < MaxPendingTicks
    /\ pending' = [pending EXCEPT ![p].ticks = @ + 1]
    /\ UNCHANGED <<account, budget, positions>>

\* Mutant: the stale order is forgotten without a cancel request.
CancelStaleUnsent(p) ==
    /\ pending[p].id \in seen.orders
    /\ pending[p].ticks + 1 >= MaxPendingTicks
    /\ pending' = Drop(pending, p)
    /\ UNCHANGED <<account, budget, positions>>

\* The order is listed and stale: cancel it, and stop tracking it whether or
\* not the cancel succeeded.
CancelStale(p) ==
    /\ pending[p].id \in seen.orders
    /\ pending[p].ticks + 1 >= MaxPendingTicks
    /\ CancelAccepted(pending[p].id) \/ CancelRefused(pending[p].id) \/ Unreachable
    /\ pending' = Drop(pending, p)
    /\ UNCHANGED positions

\* Not listed, a trade exists and the table has no position: it filled.
PromoteFill(p) ==
    /\ pending[p].id \notin seen.orders
    /\ p \in seen.trades /\ p \notin DOMAIN positions
    /\ positions' = Promoted(p, pending[p].units, pending[p].scaleIn)
    /\ pending' = Drop(pending, p)
    /\ UNCHANGED <<account, budget>>

\* Not listed, a scale-in of a position the table has: the code takes it as
\* filled and already counted in units by the reconciler.
ConfirmScaleIn(p) ==
    /\ pending[p].id \notin seen.orders
    /\ pending[p].scaleIn /\ p \in DOMAIN positions
    /\ positions' = [positions EXCEPT ![p] = WithTranche(@, 0)]
    /\ pending' = Drop(pending, p)
    /\ UNCHANGED <<account, budget>>

\* Not listed and neither of the two: cancelled or expired at the broker.
ForgetOrder(p) ==
    /\ pending[p].id \notin seen.orders
    /\ IF p \in DOMAIN positions THEN ~pending[p].scaleIn ELSE p \notin seen.trades
    /\ pending' = Drop(pending, p)
    /\ UNCHANGED <<account, budget, positions>>

SweepPending(p) ==
    /\ phase = "sweep" /\ p \in todo
    /\ Visited(p, "pairs", Pairs)
    /\ seen' = IF todo = {p} THEN NoReplies ELSE seen
    /\ \/ AwaitFill(p) \/ CancelStale(p) \/ PromoteFill(p)
       \/ ConfirmScaleIn(p) \/ ForgetOrder(p)
    /\ UNCHANGED <<stored, mode, cur, found, job>>

-----------------------------------------------------------------------------
(* Step 6: _process_pair.                                                  *)

\* has_position and has_pending are read once, before any request.
BeginPair(p) ==
    /\ phase = "pairs" /\ p \in todo
    /\ todo' = todo \ {p}
    /\ cur' = p
    /\ found' = (IF p \in DOMAIN positions THEN {"position"} ELSE {})
                  \cup (IF p \in DOMAIN pending THEN {"order"} ELSE {})
    /\ phase' = IF p \in DOMAIN positions THEN "exit" ELSE "signal"
    /\ UNCHANGED <<account, budget, memory, stored, mode, seen, job>>

\* No candles, or the strategy gives no signals: nothing is done.
SkipPair(p) ==
    /\ phase = "pairs" /\ p \in todo
    /\ Visited(p, "protocol", {})
    /\ UNCHANGED <<account, budget, memory, stored, mode, cur, found, seen, job>>

\* _check_exit_manager finds no reason to leave.
KeepPosition ==
    /\ phase = "exit"
    /\ phase' = "scale"
    /\ UNCHANGED <<account, budget, memory, stored, mode, todo, cur, found, seen, job>>

\* It does: the pair is finished, even when the close failed.
ExitPosition ==
    /\ phase = "exit"
    /\ cur \in DOMAIN positions
    /\ ClosePosition(cur)
    /\ EndPair
    /\ UNCHANGED job

NoScaling ==
    /\ phase = "scale"
    /\ phase' = "signal"
    /\ UNCHANGED <<account, budget, memory, stored, mode, todo, cur, found, seen, job>>

\* _check_scaling, scale-in: one tranche, the total capped at MaxUnits by
\* what the table says; not while DEGRADED, not with an order pending.
ScaleIn ==
    /\ phase = "scale" /\ phase' = "signal"
    /\ mode # "DEGRADED"
    /\ cur \in DOMAIN positions
    /\ cur \notin DOMAIN pending
    /\ MayAdd(positions[cur])
    /\ LET tranche == TrancheUnits(positions[cur].units)
           room    == MaxUnits - positions[cur].units
       IN  /\ room > 0
           /\ Submit(cur, IF tranche > room THEN room ELSE tranche, TRUE)
    /\ UNCHANGED <<stored, mode, todo, cur, found, seen, job>>

Reduction(position, u) ==
    [units |-> position.units - u, tranches |-> position.tranches,
     levels |-> position.levels + 1, managed |-> position.managed]

\* _check_scaling, scale-out: an elif, so while a tranche may still be added
\* the same price move adds instead of taking profit.
ScaleOut ==
    /\ phase = "scale" /\ phase' = "signal"
    /\ cur \in DOMAIN positions
    /\ mode = "DEGRADED" \/ ~MayAdd(positions[cur])
    /\ MayReduce(positions[cur])
    /\ LET position == positions[cur]
           u == ReductionUnits(position.units, position.levels)
       IN  /\ u < position.units
           /\ PartialClose(cur, u,
                  [positions EXCEPT ![cur] = Reduction(@, u)])
    /\ UNCHANGED <<pending, stored, mode, todo, cur, found, seen, job>>

\* Signal HOLD, or an entry that one of the gates stops (pending order,
\* DEGRADED, blackout, circuit breaker, drawdown, macro, regime, correlation,
\* signal filter), or an order the broker refuses.
NoTrade ==
    /\ phase = "signal"
    /\ EndPair
    /\ UNCHANGED <<account, budget, memory, stored, mode, job>>

\* Mutant: the entry does not look at has_position.
OpenPositionHeld ==
    /\ phase = "signal"
    /\ "order" \notin found
    /\ mode # "DEGRADED"
    /\ \E u \in EntrySizes : Submit(cur, u, FALSE)
    /\ EndPair
    /\ UNCHANGED <<stored, mode, job>>

\* Mutant: the entry does not look at the protocol's status.
OpenPositionDegraded ==
    /\ phase = "signal"
    /\ found = {}
    /\ \E u \in EntrySizes : Submit(cur, u, FALSE)
    /\ EndPair
    /\ UNCHANGED <<stored, mode, job>>

\* Signal LONG on a pair that had no position, every gate open.
OpenPosition ==
    /\ phase = "signal"
    /\ "position" \notin found
    /\ "order" \notin found
    /\ mode # "DEGRADED"
    /\ \E u \in EntrySizes : Submit(cur, u, FALSE)
    /\ EndPair
    /\ UNCHANGED <<stored, mode, job>>

\* Signal CLOSE on a pair that had a position.
CloseOnSignal ==
    /\ phase = "signal"
    /\ "position" \in found
    /\ ClosePosition(cur)
    /\ EndPair
    /\ UNCHANGED job

-----------------------------------------------------------------------------
(* Steps 10b to 12 and the save at the end of the tick.                    *)

\* Degrade, recover, both or neither: module Protocol models the conditions.
ReviewProtocol ==
    /\ phase = "protocol"
    /\ IF mode \in Active THEN mode' \in Active ELSE UNCHANGED mode
    /\ phase' = "trim"
    /\ todo' = DOMAIN positions
    /\ UNCHANGED <<account, budget, memory, stored, cur, found, seen, job>>

\* The abort conditions hold: _close_all_positions over the table as it is.
BeginAbort ==
    /\ phase = "protocol"
    /\ phase' = "abort"
    /\ todo' = DOMAIN positions
    /\ UNCHANGED <<account, budget, memory, stored, mode, cur, found, seen, job>>

AbortClose(p) ==
    /\ phase = "abort" /\ p \in todo
    /\ todo' = todo \ {p}
    /\ ClosePosition(p)
    /\ UNCHANGED <<phase, cur, found, seen, job>>

\* Mutant: the abort does not wait for its closes.
FinishAbortEarly ==
    /\ phase = "abort"
    /\ mode' = "ABORTED"
    /\ phase' = "idle"
    /\ UNCHANGED <<account, budget, memory, stored, todo, cur, found, seen, job>>

\* protocol.abort, save and stop: the scheduler runs no further job.
FinishAbort ==
    /\ phase = "abort" /\ todo = {}
    /\ mode' = "ABORTED"
    /\ phase' = "idle"
    /\ UNCHANGED <<account, budget, memory, stored, todo, cur, found, seen, job>>

\* _check_volatility_scaling needs the entry ATR, so a managed position.
VolatilityTrim(p) ==
    /\ phase = "trim" /\ p \in todo
    /\ p \in DOMAIN positions
    /\ positions[p].managed
    /\ todo' = todo \ {p}
    /\ \E u \in 1..(positions[p].units - 1) :
           PartialClose(p, u, [positions EXCEPT ![p].units = @ - u])
    /\ UNCHANGED <<pending, stored, mode, phase, cur, found, seen, job>>

\* Mutant: the tick ends without saving the positions.
EndTickUnsaved ==
    /\ phase = "trim"
    /\ phase' = "idle"
    /\ todo' = {}
    /\ UNCHANGED <<account, budget, memory, stored, mode, cur, found, seen, job>>

\* store.save_positions rewrites the rows and deletes those of other pairs.
EndTick ==
    /\ phase = "trim"
    /\ stored' = [p \in DOMAIN positions |->
                      [tranches |-> positions[p].tranches,
                       levels   |-> positions[p].levels]]
    /\ phase' = "idle"
    /\ todo' = {}
    /\ UNCHANGED <<account, budget, memory, mode, cur, found, seen, job>>

-----------------------------------------------------------------------------
(* The jobs next to the tick, and the trading week.                        *)

StartWeekendClose ==
    /\ "weekend" \in Jobs
    /\ week = "open" /\ week' = "friday"
    /\ phase # "down" /\ mode # "ABORTED"
    /\ closing' = DOMAIN positions
    /\ UNCHANGED <<account, budget, memory, stored, mode, tick>>

WeekendClose(p) ==
    /\ p \in closing
    /\ closing' = closing \ {p}
    /\ ClosePosition(p)
    /\ UNCHANGED <<tick, week>>

\* Friday 17:00 in New York, at least an hour after the job fired.
MarketCloses ==
    /\ week = "friday" /\ closing = {} /\ phase = "idle"
    /\ week' = "shut"
    /\ UNCHANGED <<account, budget, memory, stored, mode, tick, closing>>

MarketOpens ==
    /\ week = "shut" /\ week' = "open"
    /\ UNCHANGED <<account, budget, memory, stored, mode, tick, closing>>

\* _daily_rollover records the last day of the protocol: no further tick
\* trades, but one that is under way goes on.
Complete ==
    /\ "rollover" \in Jobs
    /\ phase # "down" /\ mode \in Active
    /\ mode' = "COMPLETED"
    /\ UNCHANGED <<account, budget, memory, stored, tick, job>>

-----------------------------------------------------------------------------
(* The process ends (crash, or SIGTERM from the container) and restarts.   *)

Stop ==
    /\ phase # "down"
    /\ Fault("restart")
    /\ phase' = "down"
    /\ positions' = NoTable
    /\ pending' = NoTable
    /\ todo' = {} /\ cur' = NoPair /\ found' = {} /\ seen' = NoReplies
    /\ closing' = {}
    /\ UNCHANGED <<account, stored, mode, week>>

\* _sync_positions: units from the broker, trade ids and stops from its open
\* trades, tranche_count and levels_taken from the store.  Pending orders are
\* not asked for.  _restore_or_create_protocol resumes ABORTED as DEGRADED.
RestoredTable ==
    [p \in DOMAIN GetAllPositions |->
        [units    |-> held[p],
         tranches |-> IF p \in DOMAIN stored THEN stored[p].tranches ELSE 1,
         levels   |-> IF p \in DOMAIN stored THEN stored[p].levels ELSE 0,
         managed  |-> TRUE]]

Restart ==
    /\ phase = "down"
    /\ phase' = "idle"
    /\ mode' = IF mode = "ABORTED" THEN "DEGRADED" ELSE mode
    /\ \/ positions' = RestoredTable /\ UNCHANGED <<account, budget>>
       \/ Unreachable /\ UNCHANGED positions              \* no positions
       \/ /\ Unreachable                                  \* no open trades
          /\ positions' = [p \in DOMAIN GetAllPositions |-> Adopted(held[p])]
    /\ UNCHANGED <<pending, stored, todo, cur, found, seen, job>>

-----------------------------------------------------------------------------
Broker ==
    /\ week # "shut"
    /\ BrokerStep
    /\ UNCHANGED <<memory, stored, mode, tick, job>>

Tick ==
    \/ FetchPositions \/ ReconcilePositions
    \/ FetchPendingOrders \/ FetchOpenTrades
    \/ \E p \in Pairs : SweepPending(p)
    \/ \E p \in Pairs : BeginPair(p) \/ SkipPair(p)
    \/ KeepPosition \/ ExitPosition
    \/ NoScaling \/ ScaleIn \/ ScaleOut
    \/ NoTrade \/ OpenPosition \/ CloseOnSignal
    \/ ReviewProtocol \/ BeginAbort \/ FinishAbort
    \/ \E p \in Pairs : AbortClose(p) \/ VolatilityTrim(p)
    \/ EndTick

Weekend ==
    \/ StartWeekendClose
    \/ \E p \in Pairs : WeekendClose(p)
    \/ MarketCloses \/ MarketOpens

Next == Tick \/ Weekend \/ Complete \/ Broker \/ Stop \/ Restart

Spec == Init /\ [][Next]_vars

\* The scheduler keeps starting ticks and jobs and a started one runs on; a
\* stopped container is restarted.  Fairness of the tick is strong because a
\* tick cannot begin while the market is shut, and the hourly scheduler starts
\* many in every open week.  The broker owes no fill, stop or cancel.
Fairness == SF_vars(Tick) /\ WF_vars(Weekend) /\ WF_vars(Restart)

FairSpec == Spec /\ Fairness

-----------------------------------------------------------------------------
(* Safety.                                                                 *)

\* Every limit order that is live at the broker is the one the runner tracks
\* for its pair, so it will be aged, cancelled or promoted, and there is at
\* most one per pair.  Depends on entry and scale-in both testing
\* _pending_orders, on the sweep removing an entry only once the order is
\* gone, and on the tick being the only writer of the table.
LiveOrdersTracked ==
    \A o \in orders : /\ o.pair \in DOMAIN pending
                      /\ pending[o.pair].id = o.id

\* The cap on a pair is computed from the table, which the tick reconciled
\* before; an order that fills in between is not in it.  So the units held
\* and on order can pass MaxUnits, but never by more than one order.
ExposureWithinOneOrder ==
    /\ \A p \in Pairs : held[p] <= 2 * MaxUnits
    /\ \A o \in orders : held[o.pair] + o.units <= 2 * MaxUnits

\* tranche_count never passes max_tranches, whatever mixture of immediate
\* fills, promoted fills, confirmed scale-ins, adoptions and restarts led
\* to it.
TranchesWithinLimit ==
    \A p \in DOMAIN positions : positions[p].tranches <= MaxTranches

\* A stop between two ticks loses no scaling progress: what _sync_positions
\* would restore for a pair is what the table says of it.
IdleStopKeepsProgress ==
    phase = "idle" =>
        \A p \in DOMAIN positions \cap DOMAIN RestoredTable :
            /\ RestoredTable[p].tranches = positions[p].tranches
            /\ RestoredTable[p].levels = positions[p].levels

\* Friday's gap close "eliminates weekend gap risk": nothing is held while
\* the market is shut.
FlatOverWeekend == week = "shut" => \A p \in Pairs : held[p] = 0

\* _close_all_positions works on the list of pairs it takes at its start, while
\* stops and fills go on at the broker; when the broker answers, the abort
\* nevertheless ends with nothing left in the table.
AbortClearsTable == mode = "ABORTED" /\ phase = "idle" => DOMAIN positions = {}

-----------------------------------------------------------------------------
(* Action properties.                                                      *)

\* DEGRADED means no new entries and no scale-in: the broker accepts no
\* order from a runner that is DEGRADED, in whatever thread or phase.
DegradedPlacesNoOrder ==
    [][mode = "DEGRADED" => nextId' = nextId]_vars

\* _check_pending_orders, step 2 of its docstring: an entry order that is
\* found to have filled is promoted to a position with its trade id.
FilledOrdersPromoted ==
    [][\A p \in DOMAIN pending :
          /\ phase = "sweep" /\ p \notin DOMAIN pending'
          /\ pending[p].id \in filled /\ ~pending[p].scaleIn
          => p \in DOMAIN positions' /\ positions'[p].managed]_vars

-----------------------------------------------------------------------------
(* What the account sees of the runner.                                    *)

Mandated == INSTANCE Mandate WITH
    holding <- held,
    live    <- orders,
    status  <- mode

\* In one process with a broker that answers, runner, jobs and broker together
\* keep the mandate (module Mandate): whatever _open_position, _check_scaling,
\* _check_pending_orders and the closes decide by tables that may be out of
\* date, an order goes out only if its pair has none, within the cap and one
\* order, and never after DEGRADED or an abort.
MandateRefined == Mandated!MandateSpec

-----------------------------------------------------------------------------
(* Liveness.                                                               *)

UnitsOf(p) == IF p \in DOMAIN positions THEN positions[p].units ELSE 0

\* As long as the protocol is not over, the runner's table comes back to the units
\* the broker holds, whatever was lost, duplicated or restarted before.
TableConverges ==
    []<>(mode \in Over \/ \A p \in Pairs : UnitsOf(p) = held[p])

\* No limit order is tracked for ever.
PendingResolved ==
    \A p \in Pairs :
        p \in DOMAIN pending ~> p \notin DOMAIN pending \/ mode \in Over

\* max_pending_ticks: an order that does not fill is cancelled.
OrdersResolved ==
    \A i \in OrderId :
        i \in GetPendingOrders ~> i \notin GetPendingOrders \/ mode \in Over

=============================================================================
