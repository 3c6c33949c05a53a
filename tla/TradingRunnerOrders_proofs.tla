--------------------- MODULE TradingRunnerOrders_proofs ---------------------
(***************************************************************************)
(* Theorems about the orders TradingRunner places, the tranches it counts, *)
(* the exposure of a pair, the abort and what a restart restores.  They    *)
(* rest on the type invariant of TradingRunner_proofs.                     *)
(***************************************************************************)
EXTENDS TradingRunner_proofs

-----------------------------------------------------------------------------
(* What the requests leave alone.                                          *)

\* No outcome of _close_position touches orders, their ids or pending entries.
LEMMA CloseFrame ==
    ASSUME NEW p, ClosePosition(p)
    PROVE  /\ nextId' = nextId /\ orders' = orders
           /\ pending' = pending /\ mode' = mode
           /\ positions' = positions \/ positions' = Drop(positions, p)
           /\ stored' = stored \/ stored' = Drop(stored, p)
  BY DEF ClosePosition, Reduced, ReduceRefused, ReduceResent, Unreachable, account

\* A partial close touches neither the orders nor their ids.
LEMMA PartialFrame ==
    ASSUME NEW p, NEW u, NEW done, PartialClose(p, u, done)
    PROVE  /\ nextId' = nextId /\ orders' = orders
           /\ positions' = positions \/ positions' = done
  BY DEF PartialClose, Reduced, ReduceResent

\* Any outcome of a cancel leaves at most the other orders, and no new one.
LEMMA CancelFrame ==
    ASSUME NEW id, CancelAccepted(id) \/ CancelRefused(id) \/ Unreachable
    PROVE  nextId' = nextId /\ orders' \subseteq orders
  BY DEF CancelAccepted, CancelRefused, Unreachable, account

\* The broker by itself only removes orders.
LEMMA BrokerFrame ==
    ASSUME BrokerStep PROVE nextId' = nextId /\ orders' \subseteq orders
  BY DEF BrokerStep, Fill, BrokerCancel, StopOut

-----------------------------------------------------------------------------
(* DEGRADED places no order.                                               *)

\* Only an entry and a scale-in place orders, and both ask for the status.
LEMMA OrdersPlaced ==
    ASSUME [Next]_vars, nextId' # nextId PROVE mode # "DEGRADED"
<1>1. CASE ScaleIn \/ OpenPosition
  BY <1>1 DEF ScaleIn, OpenPosition
<1>2. ASSUME NEW p \in Pairs, SweepPending(p) PROVE nextId' = nextId
  BY <1>2, CancelFrame
     DEF SweepPending, AwaitFill, CancelStale, PromoteFill, ConfirmScaleIn,
         ForgetOrder, account
<1>3. ASSUME NEW p \in Pairs,
             ExitPosition \/ CloseOnSignal \/ AbortClose(p) \/ WeekendClose(p)
      PROVE  nextId' = nextId
  BY <1>3, CloseFrame DEF ExitPosition, CloseOnSignal, AbortClose, WeekendClose
<1>4. ASSUME NEW p \in Pairs, ScaleOut \/ VolatilityTrim(p) PROVE nextId' = nextId
  BY <1>4, PartialFrame DEF ScaleOut, VolatilityTrim
<1>5. CASE Broker
  BY <1>5, BrokerFrame DEF Broker
<1>6. CASE FetchPositions \/ FetchPendingOrders \/ FetchOpenTrades \/ Restart
  BY <1>6 DEF FetchPositions, FetchPendingOrders, FetchOpenTrades, Restart,
              Unreachable, account
<1>7. CASE \/ ReconcilePositions \/ \E p \in Pairs : BeginPair(p) \/ SkipPair(p)
           \/ KeepPosition \/ NoScaling \/ NoTrade
           \/ ReviewProtocol \/ BeginAbort \/ FinishAbort \/ EndTick
           \/ StartWeekendClose \/ MarketCloses \/ MarketOpens \/ Complete \/ Stop
           \/ UNCHANGED vars
  BY <1>7 DEF ReconcilePositions, BeginPair, SkipPair, KeepPosition, NoScaling,
              NoTrade, ReviewProtocol, BeginAbort, FinishAbort, EndTick,
              StartWeekendClose, MarketCloses, MarketOpens, Complete, Stop, vars, account
<1>8. CASE ExitPosition \/ CloseOnSignal
  BY <1>8, CloseFrame DEF ExitPosition, CloseOnSignal
<1>9. CASE ScaleOut
  BY <1>9, PartialFrame DEF ScaleOut
<1> QED BY <1>1, <1>2, <1>3, <1>4, <1>5, <1>6, <1>7, <1>8, <1>9
        DEF Next, Tick, Weekend

\* A runner that is DEGRADED has no order accepted by the broker, with any
\* faults, restarts and jobs: neither an entry nor a scale-in.
THEOREM DegradedPlaces == Spec => DegradedPlacesNoOrder
<1>1. [Next]_vars => [mode = "DEGRADED" => nextId' = nextId]_vars
  BY OrdersPlaced
<1> QED BY <1>1, PTL DEF Spec, DegradedPlacesNoOrder

-----------------------------------------------------------------------------
(* Every live order is tracked, as long as no fault occurs.                *)

\* The reply to the pending-orders query still has every live order: none is
\* placed before the sweep is over.
RepliesComplete ==
    phase \in {"trades", "sweep"} => GetPendingOrders \subseteq seen.orders

\* What _process_pair saw at its start still holds where it is relied on.
FoundFresh ==
    /\ phase \in {"exit", "scale"} => "position" \in found
    /\ phase = "signal" /\ found = {} => cur \notin DOMAIN pending

OrderInv == TypeInv /\ LiveOrdersTracked /\ RepliesComplete /\ FoundFresh

\* The account begins without orders and the runner without entries.
LEMMA OrderInit == Init => OrderInv
  BY TypeInit DEF Init, AccountInit, OrderInv, LiveOrdersTracked, RepliesComplete,
                  FoundFresh

\* Without faults none of the fault outcomes can be taken.
LEMMA NoFault == ASSUME Faults = {}, NEW kind PROVE ~Fault(kind)
  BY DEF Fault

\* A sweep stops tracking an order only when the broker no longer has it.
LEMMA OrderSweep ==
    ASSUME Faults = {}, OrderInv, NEW p \in Pairs, SweepPending(p)
    PROVE  LiveOrdersTracked' /\ RepliesComplete' /\ FoundFresh'
<1> USE DEF OrderInv, LiveOrdersTracked
<1>0. phase = "sweep" /\ p \in DOMAIN pending /\ GetPendingOrders \subseteq seen.orders
  BY DEF SweepPending, TypeInv, SweepTracked, RepliesComplete
<1>1. orders' \subseteq orders
  BY CancelFrame
     DEF SweepPending, AwaitFill, CancelStale, PromoteFill, ConfirmScaleIn,
         ForgetOrder, account
<1>2. LiveOrdersTracked'
  <2>1. CASE AwaitFill(p)
    <3>1. /\ DOMAIN pending' = DOMAIN pending
          /\ \A q \in DOMAIN pending : pending'[q].id = pending[q].id
      BY <2>1, <1>0 DEF AwaitFill, TypeInv, TypeOK, IsTable, Tracked
    <3> QED BY <3>1, <1>1
  <2>2. ASSUME pending' = Drop(pending, p), \A o \in orders' : o.pair # p
        PROVE  LiveOrdersTracked'
    BY <2>2, <1>1 DEF Drop
  <2>3. CASE CancelStale(p)
    <3>1. CancelAccepted(pending[p].id) \/ CancelRefused(pending[p].id)
      BY <2>3, NoFault DEF CancelStale, Unreachable
    <3>2. pending[p].id \notin {o.id : o \in orders'}
      BY <3>1 DEF CancelAccepted, CancelRefused, GetPendingOrders, account
    <3>3. \A o \in orders' : o.pair # p
      BY <3>2, <1>1
    <3> QED BY <2>2, <2>3, <3>3 DEF CancelStale
  <2>4. CASE PromoteFill(p) \/ ConfirmScaleIn(p) \/ ForgetOrder(p)
    <3>1. pending[p].id \notin GetPendingOrders /\ pending' = Drop(pending, p)
      BY <2>4, <1>0 DEF PromoteFill, ConfirmScaleIn, ForgetOrder
    <3>2. \A o \in orders' : o.pair # p
      BY <3>1, <1>1 DEF GetPendingOrders
    <3> QED BY <2>2, <3>1, <3>2
  <2> QED BY <2>1, <2>3, <2>4 DEF SweepPending
<1>3. RepliesComplete'
  <2>1. phase' \in {"trades", "sweep"} => seen' = seen
    BY <1>0 DEF SweepPending, Visited
  <2> QED BY <1>0, <1>1, <2>1 DEF RepliesComplete, GetPendingOrders
<1>4. FoundFresh'
  BY <1>0 DEF SweepPending, Visited, FoundFresh
<1> QED BY <1>2, <1>3, <1>4

\* An order is placed only for a pair that has none.
LEMMA OrderSubmit ==
    ASSUME Faults = {}, OrderInv, NEW p \in Pairs, NEW u \in Nat \ {0},
           NEW s \in BOOLEAN, p \notin DOMAIN pending, Submit(p, u, s)
    PROVE  LiveOrdersTracked'
<1> USE DEF OrderInv, LiveOrdersTracked
<1>1. CASE OrderAccepted(p, u) /\ Track(p, u, s, nextId) /\ UNCHANGED positions
  BY <1>1 DEF OrderAccepted, Track, Put
<1>2. CASE OrderFilledAtOnce(p, u) /\ positions' = Promoted(p, u, s) /\ UNCHANGED pending
  BY <1>2 DEF OrderFilledAtOnce
<1> QED BY <1>1, <1>2, NoFault DEF Submit, OrderResent

\* Every step keeps OrderInv, one named step per group of actions.
LEMMA OrderStep == ASSUME Faults = {}, OrderInv, [Next]_vars PROVE OrderInv'
<1>0. TypeInv' /\ TypeInv
  BY TypeStep DEF OrderInv
<1> SUFFICES LiveOrdersTracked' /\ RepliesComplete' /\ FoundFresh'
  BY <1>0 DEF OrderInv
<1>f. /\ ~Unreachable /\ ~Stop
  BY NoFault DEF Unreachable, Stop
<1> USE DEF OrderInv
<1>1. ASSUME NEW p \in Pairs, SweepPending(p)
      PROVE  LiveOrdersTracked' /\ RepliesComplete' /\ FoundFresh'
  BY <1>1, OrderSweep
<1>2. CASE ScaleIn
  <2>1. cur \in Pairs /\ cur \notin DOMAIN pending
        /\ positions[cur].units \in Nat
    BY <1>2, <1>0 DEF ScaleIn, TypeInv, TypeOK, PairAtWork, IsTable, Position
  <2> DEFINE tranche == TrancheUnits(positions[cur].units)
             room == MaxUnits - positions[cur].units
             u == IF tranche > room THEN room ELSE tranche
  <2>2. Submit(cur, u, TRUE) /\ room > 0
    BY <1>2 DEF ScaleIn
  <2>3. u \in Nat \ {0}
    <3>1. tranche \in Nat \ {0}
      BY <2>1, TranchePositive
    <3>2. room \in Nat \ {0}
      BY <2>1, <2>2, RunnerAssumption
    <3> HIDE DEF tranche, room
    <3> QED BY <3>1, <3>2
  <2> HIDE DEF u
  <2>4. LiveOrdersTracked'
    BY <2>1, <2>2, <2>3, OrderSubmit
  <2> QED BY <1>2, <2>4 DEF ScaleIn, RepliesComplete, FoundFresh
<1>3. CASE OpenPosition
  <2>1. found = {} /\ cur \in Pairs /\ cur \notin DOMAIN pending
    BY <1>3, <1>0 DEF OpenPosition, TypeInv, TypeOK, PairAtWork, FoundFresh
  <2>2. PICK u \in EntrySizes : Submit(cur, u, FALSE)
    BY <1>3 DEF OpenPosition
  <2>3. u \in Nat \ {0}
    BY RunnerAssumption
  <2>4. LiveOrdersTracked'
    BY <2>1, <2>2, <2>3, OrderSubmit
  <2> QED BY <1>3, <2>4 DEF OpenPosition, EndPair, RepliesComplete, FoundFresh
<1>4. CASE ExitPosition \/ CloseOnSignal
  <2>1. orders' = orders /\ pending' = pending
    BY <1>4, CloseFrame DEF ExitPosition, CloseOnSignal
  <2> QED BY <1>4, <2>1 DEF ExitPosition, CloseOnSignal, EndPair, LiveOrdersTracked,
                            RepliesComplete, FoundFresh
<1>5. ASSUME NEW p \in Pairs, AbortClose(p) \/ WeekendClose(p)
      PROVE  LiveOrdersTracked' /\ RepliesComplete' /\ FoundFresh'
  <2>1. orders' = orders /\ pending' = pending
    BY <1>5, CloseFrame DEF AbortClose, WeekendClose
  <2>2. UNCHANGED <<phase, cur, found, seen>>
    BY <1>5 DEF AbortClose, WeekendClose, tick
  <2> QED BY <2>1, <2>2 DEF LiveOrdersTracked, RepliesComplete, FoundFresh,
                            GetPendingOrders
<1>6. CASE ScaleOut
  <2>1. orders' = orders
    BY <1>6, PartialFrame DEF ScaleOut
  <2> QED BY <1>6, <2>1 DEF ScaleOut, LiveOrdersTracked, RepliesComplete, FoundFresh
<1>7. ASSUME NEW p \in Pairs, VolatilityTrim(p)
      PROVE  LiveOrdersTracked' /\ RepliesComplete' /\ FoundFresh'
  <2>1. orders' = orders
    BY <1>7, PartialFrame DEF VolatilityTrim
  <2> QED BY <1>7, <2>1 DEF VolatilityTrim, LiveOrdersTracked, RepliesComplete,
                            FoundFresh
<1>8. CASE Broker
  <2>1. orders' \subseteq orders
    BY <1>8, BrokerFrame DEF Broker
  <2> QED BY <1>8, <2>1 DEF Broker, memory, tick, LiveOrdersTracked, RepliesComplete,
                            FoundFresh, GetPendingOrders
<1>9. CASE FetchPositions \/ ReconcilePositions \/ FetchPendingOrders \/ FetchOpenTrades
  <2>1. orders' = orders /\ pending' = pending
    BY <1>9, <1>f DEF FetchPositions, ReconcilePositions, FetchPendingOrders,
                      FetchOpenTrades, memory, account
  <2>2. /\ phase' = "trades" => seen'.orders = GetPendingOrders
        /\ phase' = "sweep" => phase = "trades" /\ seen'.orders = seen.orders
    <3>1. seen = [positions |-> seen.positions, orders |-> seen.orders,
                  trades |-> seen.trades]
      BY <1>0 DEF TypeInv, TypeOK
    <3> QED BY <1>9, <1>f, <2>1, <3>1 DEF FetchPositions, ReconcilePositions,
                      FetchPendingOrders, FetchOpenTrades, StartPairs
  <2>3. phase' \notin {"exit", "scale", "signal"}
    BY <1>9 DEF FetchPositions, ReconcilePositions, FetchPendingOrders,
                FetchOpenTrades, StartPairs
  <2> QED BY <2>1, <2>2, <2>3 DEF LiveOrdersTracked, RepliesComplete, FoundFresh,
                                  GetPendingOrders
<1>10. CASE \E p \in Pairs : BeginPair(p) \/ SkipPair(p)
  <2>1. orders' = orders /\ pending' = pending /\ seen' = seen
    BY <1>10 DEF BeginPair, SkipPair, memory, account
  <2>2. phase = "pairs" /\ phase' \notin {"trades", "sweep", "scale"}
    BY <1>10 DEF BeginPair, SkipPair, Visited
  <2>3. phase' = "exit" => "position" \in found'
    BY <1>10 DEF BeginPair, SkipPair, Visited
  <2>4. phase' = "signal" /\ found' = {} => cur' \notin DOMAIN pending
    BY <1>10 DEF BeginPair, SkipPair, Visited
  <2> QED BY <2>1, <2>2, <2>3, <2>4 DEF LiveOrdersTracked, RepliesComplete, FoundFresh
<1>11. CASE KeepPosition \/ NoScaling \/ NoTrade
  BY <1>11 DEF KeepPosition, NoScaling, NoTrade, EndPair, memory, account,
               LiveOrdersTracked, RepliesComplete, FoundFresh
<1>12. CASE \/ ReviewProtocol \/ BeginAbort \/ FinishAbort \/ EndTick
  BY <1>12 DEF ReviewProtocol, BeginAbort, FinishAbort, EndTick, memory, account,
               LiveOrdersTracked, RepliesComplete, FoundFresh
<1>13. CASE StartWeekendClose \/ MarketCloses \/ MarketOpens \/ Complete \/ UNCHANGED vars
  BY <1>13 DEF StartWeekendClose, MarketCloses, MarketOpens, Complete, vars, memory, tick,
               account, LiveOrdersTracked, RepliesComplete, FoundFresh, GetPendingOrders
<1>14. CASE Restart
  BY <1>14, <1>f DEF Restart, account, LiveOrdersTracked, RepliesComplete, FoundFresh
<1> QED BY <1>f, <1>1, <1>2, <1>3, <1>4, <1>5, <1>6, <1>7, <1>8, <1>9, <1>10, <1>11,
           <1>12, <1>13, <1>14
        DEF Next, Tick, Weekend

\* Without faults every live limit order is the tracked order of its pair, at
\* every step of the tick and next to the weekend job.
THEOREM OrdersTracked ==
    ASSUME Faults = {} PROVE Spec => []LiveOrdersTracked
<1>1. OrderInv /\ [Next]_vars => OrderInv'
  BY OrderStep
<1>2. OrderInv => LiveOrdersTracked
  BY DEF OrderInv
<1> QED BY OrderInit, <1>1, <1>2, PTL DEF Spec

-----------------------------------------------------------------------------
(* Tranches.                                                               *)

\* A scale-in that is on its way has a tranche left to become.  Holds in the
\* store, so that a restart at any moment starts from it again.
TranchesLeft ==
    /\ \A p \in DOMAIN positions : positions[p].tranches \in 1..MaxTranches
    /\ \A p \in DOMAIN stored : stored[p].tranches \in 1..MaxTranches
    /\ \A p \in DOMAIN pending : pending[p].scaleIn =>
           /\ MaxTranches > 1
           /\ p \in DOMAIN positions => positions[p].tranches < MaxTranches
    /\ phase = "down" => pending = NoTable

TrancheInv == TypeInv /\ TranchesLeft

\* A new runner has no position and no stored row.
LEMMA TrancheInit == Init => TrancheInv
  BY TypeInit DEF Init, TrancheInv, TranchesLeft, NoTable

\* Dropping positions, pending orders or rows disturbs nothing.
LEMMA TrancheDrop ==
    ASSUME TranchesLeft, NEW p,
           positions' = positions \/ positions' = Drop(positions, p),
           stored' = stored \/ stored' = Drop(stored, p),
           pending' = pending \/ pending' = Drop(pending, p),
           phase' # "down" \/ (phase' = phase /\ pending' = pending)
    PROVE  TranchesLeft'
<1>1. /\ DOMAIN positions' \subseteq DOMAIN positions
      /\ \A q \in DOMAIN positions' : positions'[q] = positions[q]
  BY DEF Drop
<1>2. /\ DOMAIN stored' \subseteq DOMAIN stored
      /\ \A q \in DOMAIN stored' : stored'[q] = stored[q]
  BY DEF Drop
<1>3. /\ DOMAIN pending' \subseteq DOMAIN pending
      /\ \A q \in DOMAIN pending' : pending'[q] = pending[q]
  BY DEF Drop
<1>4. phase' = "down" => pending' = NoTable
  BY DEF TranchesLeft
<1> QED BY <1>1, <1>2, <1>3, <1>4 DEF TranchesLeft

\* A step that changes neither the count of a position nor the orders.
LEMMA TrancheKeep ==
    ASSUME TranchesLeft, DOMAIN positions' = DOMAIN positions,
           \A p \in DOMAIN positions : positions'[p].tranches = positions[p].tranches,
           pending' = pending, stored' = stored,
           phase' # "down" \/ phase' = phase
    PROVE  TranchesLeft'
  BY DEF TranchesLeft

\* One position gets a new count, and no order of its pair is pending.
LEMMA TrancheOne ==
    ASSUME TranchesLeft, NEW p,
           DOMAIN positions' = DOMAIN positions \cup {p},
           positions'[p].tranches \in 1..MaxTranches,
           \A q \in DOMAIN positions : q # p => positions'[q] = positions[q],
           DOMAIN pending' \subseteq DOMAIN pending, p \notin DOMAIN pending',
           \A q \in DOMAIN pending' : pending'[q] = pending[q],
           stored' = stored, phase' # "down"
    PROVE  TranchesLeft'
<1>1. \A q \in DOMAIN positions' : positions'[q].tranches \in 1..MaxTranches
  BY DEF TranchesLeft
<1>2. ASSUME NEW q \in DOMAIN pending', pending'[q].scaleIn
      PROVE  /\ MaxTranches > 1
             /\ q \in DOMAIN positions' => positions'[q].tranches < MaxTranches
  <2>1. q # p /\ q \in DOMAIN pending /\ pending[q].scaleIn
    BY <1>2
  <2> QED BY <2>1 DEF TranchesLeft
<1> QED BY <1>1, <1>2 DEF TranchesLeft

\* Whatever an order's reply is, the pair keeps the tranche it may still need.
LEMMA TrancheSubmit ==
    ASSUME TrancheInv, NEW p \in Pairs, NEW u \in Nat \ {0}, NEW s \in BOOLEAN,
           s => /\ p \in DOMAIN positions /\ p \notin DOMAIN pending
                /\ MayAdd(positions[p]),
           stored' = stored, phase' # "down", Submit(p, u, s)
    PROVE  TranchesLeft'
<1>0. MaxTranches \in Nat \ {0} /\ TranchesLeft
  BY ScaleAssumption DEF TrancheInv
<1>m. s => /\ MaxTranches > 1 /\ positions[p].tranches < MaxTranches
           /\ positions[p].tranches \in 1..MaxTranches
  BY <1>0 DEF TranchesLeft, MayAdd
<1>t. ASSUME NEW id, Track(p, u, s, id), positions' = positions PROVE TranchesLeft'
  <2>1. /\ DOMAIN pending' = DOMAIN pending \cup {p}
        /\ pending'[p].scaleIn = s
        /\ \A q \in DOMAIN pending : q # p => pending'[q] = pending[q]
    BY <1>t DEF Track, Put
  <2> QED BY <1>0, <1>t, <1>m, <2>1 DEF TranchesLeft
<1>1. CASE OrderAccepted(p, u) /\ Track(p, u, s, nextId) /\ UNCHANGED positions
  BY <1>1, <1>t
<1>2. CASE OrderFilledAtOnce(p, u) /\ positions' = Promoted(p, u, s) /\ UNCHANGED pending
  <2>1. CASE s /\ p \in DOMAIN positions
    <3>1. positions' = [positions EXCEPT ![p] = WithTranche(@, u)]
      BY <1>2, <2>1 DEF Promoted
    <3>2. positions'[p].tranches = positions[p].tranches + 1
      BY <2>1, <3>1 DEF WithTranche
    <3>3. /\ DOMAIN positions' = DOMAIN positions \cup {p}
          /\ \A q \in DOMAIN positions : q # p => positions'[q] = positions[q]
      BY <2>1, <3>1
    <3>4. positions'[p].tranches \in 1..MaxTranches
      BY <1>0, <1>m, <2>1, <3>2
    <3> QED BY <1>0, <1>2, <2>1, <3>3, <3>4, TrancheOne
  <2>2. CASE ~(s /\ p \in DOMAIN positions)
    <3>1. /\ DOMAIN positions' = DOMAIN positions \cup {p}
          /\ positions'[p].tranches = 1
          /\ \A q \in DOMAIN positions : q # p => positions'[q] = positions[q]
      BY <1>2, <2>2 DEF Promoted, Put
    <3>2. ASSUME NEW q \in DOMAIN positions'
          PROVE  \/ q \in DOMAIN positions /\ positions'[q] = positions[q]
                 \/ positions'[q].tranches = 1
      BY <3>1
    <3>3. \A q \in DOMAIN positions' : positions'[q].tranches \in 1..MaxTranches
      BY <1>0, <3>2 DEF TranchesLeft
    <3>4. ASSUME NEW q \in DOMAIN pending, pending[q].scaleIn
          PROVE  /\ MaxTranches > 1
                 /\ q \in DOMAIN positions' => positions'[q].tranches < MaxTranches
      BY <1>0, <3>2, <3>4 DEF TranchesLeft
    <3> QED BY <1>0, <1>2, <3>3, <3>4 DEF TranchesLeft
  <2> QED BY <2>1, <2>2
<1>3. ASSUME NEW n \in 1..MaxRetries, UNCHANGED positions,
             \/ UNCHANGED pending
             \/ n > 1 /\ Track(p, u, s, nextId + n - 1)
      PROVE  TranchesLeft'
  <2>1. CASE UNCHANGED pending
    BY <1>0, <1>3, <2>1 DEF TranchesLeft
  <2>2. CASE Track(p, u, s, nextId + n - 1)
    BY <1>3, <1>t, <2>2
  <2> QED BY <1>3, <2>1, <2>2
<1> QED BY <1>1, <1>2, <1>3 DEF Submit

\* A promoted or confirmed scale-in uses the tranche that was left for it.
LEMMA TrancheSweep ==
    ASSUME TrancheInv, NEW p \in Pairs, SweepPending(p) PROVE TranchesLeft'
<1> USE DEF TrancheInv
<1>0. /\ p \in DOMAIN pending /\ stored' = stored /\ phase' # "down"
      /\ MaxTranches \in Nat \ {0} /\ TranchesLeft
  BY ScaleAssumption DEF SweepPending, Visited, TypeInv, SweepTracked
<1>1. CASE AwaitFill(p)
  <2>1. /\ DOMAIN pending' = DOMAIN pending /\ positions' = positions
        /\ \A q \in DOMAIN pending : pending'[q].scaleIn = pending[q].scaleIn
    BY <1>0, <1>1 DEF AwaitFill, TypeInv, TypeOK, IsTable, Tracked
  <2> QED BY <1>0, <2>1 DEF TranchesLeft
<1>2. CASE CancelStale(p) \/ ForgetOrder(p)
  <2>1. positions' = positions /\ pending' = Drop(pending, p)
    BY <1>2 DEF CancelStale, ForgetOrder
  <2>2. /\ phase' # "down" \/ (phase' = phase /\ pending' = pending)
        /\ stored' = stored \/ stored' = Drop(stored, p)
        /\ pending' = pending \/ pending' = Drop(pending, p)
        /\ positions' = positions \/ positions' = Drop(positions, p)
    BY <1>0, <2>1
  <2> QED BY <1>0, <2>2, TrancheDrop, Zenon
<1>3. CASE PromoteFill(p)
  <2>1. /\ DOMAIN positions' = DOMAIN positions \cup {p}
        /\ positions'[p].tranches = 1
        /\ \A q \in DOMAIN positions : q # p => positions'[q] = positions[q]
    BY <1>3 DEF PromoteFill, Promoted, Put
  <2>2. /\ DOMAIN pending' = DOMAIN pending \ {p}
        /\ \A q \in DOMAIN pending' : pending'[q] = pending[q]
    BY <1>3 DEF PromoteFill, Drop
  <2>3. positions'[p].tranches \in 1..MaxTranches
    BY <1>0, <2>1
  <2> QED BY <1>0, <2>1, <2>2, <2>3, TrancheOne
<1>4. CASE ConfirmScaleIn(p)
  <2>1. /\ DOMAIN positions' = DOMAIN positions \cup {p} /\ p \in DOMAIN positions
        /\ positions'[p].tranches = positions[p].tranches + 1
        /\ \A q \in DOMAIN positions : q # p => positions'[q] = positions[q]
    BY <1>4 DEF ConfirmScaleIn, WithTranche
  <2>2. positions[p].tranches \in 1..MaxTranches /\ positions[p].tranches < MaxTranches
    BY <1>0, <1>4, <2>1 DEF ConfirmScaleIn, TranchesLeft
  <2>3. /\ DOMAIN pending' = DOMAIN pending \ {p}
        /\ \A q \in DOMAIN pending' : pending'[q] = pending[q]
    BY <1>4 DEF ConfirmScaleIn, Drop
  <2>4. positions'[p].tranches \in 1..MaxTranches
    BY <1>0, <2>1, <2>2
  <2> QED BY <1>0, <2>1, <2>3, <2>4, TrancheOne
<1> QED BY <1>1, <1>2, <1>3, <1>4 DEF SweepPending

\* The reconciler keeps the count of a position and starts a new one at 1.
LEMMA TrancheReconcile ==
    ASSUME TrancheInv, ReconcilePositions PROVE TranchesLeft'
<1>0. TranchesLeft /\ MaxTranches \in Nat \ {0}
  BY ScaleAssumption DEF TrancheInv
<1>1. /\ IsTable(positions, Position) /\ IsTable(seen.positions, Nat)
  BY DEF TrancheInv, TypeInv, TypeOK
<1>2. /\ positions' = Reconciled(positions, seen.positions, Pairs)
      /\ pending' = pending /\ stored' = stored /\ phase' # "down"
  BY DEF ReconcilePositions, StartPairs
<1>3. ASSUME NEW q \in DOMAIN positions'
      PROVE  \/ /\ q \in DOMAIN positions
                /\ positions'[q].tranches = positions[q].tranches
             \/ positions'[q].tranches = 1
  <2>1. \A p \in DOMAIN positions' \cap DOMAIN positions :
            positions'[p].tranches = positions[p].tranches
    BY <1>1, <1>2, ReconciledMatchesBroker
  <2>2. \A p \in DOMAIN positions' \ DOMAIN positions :
            positions'[p] = Adopted(seen.positions[p])
    BY <1>1, <1>2, ReconciledMatchesBroker
  <2> QED BY <2>1, <2>2 DEF Adopted
<1>4. \A q \in DOMAIN positions' : positions'[q].tranches \in 1..MaxTranches
  BY <1>0, <1>3 DEF TranchesLeft
<1>5. ASSUME NEW q \in DOMAIN pending, pending[q].scaleIn
      PROVE  /\ MaxTranches > 1
             /\ q \in DOMAIN positions' => positions'[q].tranches < MaxTranches
  BY <1>0, <1>3, <1>5 DEF TranchesLeft
<1> QED BY <1>0, <1>2, <1>4, <1>5 DEF TranchesLeft

\* A restart takes the counts from the store, with no order pending.
LEMMA TrancheRestart == ASSUME TrancheInv, Restart PROVE TranchesLeft'
<1>0. TranchesLeft /\ MaxTranches \in Nat \ {0}
  BY ScaleAssumption DEF TrancheInv
<1>1. pending' = NoTable /\ stored' = stored /\ phase' # "down"
  BY <1>0 DEF Restart, TranchesLeft
<1>2. DOMAIN pending' = {}
  BY <1>1 DEF NoTable
<1>3. \A q \in DOMAIN positions' : positions'[q].tranches \in 1..MaxTranches
  <2>1. CASE positions' = RestoredTable
    <3>1. ASSUME NEW q \in DOMAIN positions'
          PROVE  positions'[q].tranches = IF q \in DOMAIN stored
                                          THEN stored[q].tranches ELSE 1
      BY <2>1 DEF RestoredTable
    <3> QED BY <1>0, <3>1 DEF TranchesLeft
  <2>2. CASE positions' = positions
    BY <1>0, <2>2 DEF TranchesLeft
  <2>3. CASE positions' = [p \in DOMAIN GetAllPositions |-> Adopted(held[p])]
    <3>1. \A q \in DOMAIN positions' : positions'[q].tranches = 1
      BY <2>3 DEF Adopted
    <3> QED BY <1>0, <3>1
  <2> QED BY <2>1, <2>2, <2>3 DEF Restart
<1> QED BY <1>0, <1>1, <1>2, <1>3 DEF TranchesLeft

\* A stop empties the tables and leaves the rows.
LEMMA TrancheStop == ASSUME TrancheInv, Stop PROVE TranchesLeft'
<1>1. DOMAIN positions' = {} /\ DOMAIN pending' = {} /\ pending' = NoTable
      /\ stored' = stored
  BY DEF Stop, NoTable
<1> QED BY <1>1 DEF TrancheInv, TranchesLeft

\* The save copies tranche counts that are within their limit.
LEMMA TrancheSave == ASSUME TrancheInv, EndTick PROVE TranchesLeft'
<1>1. /\ positions' = positions /\ pending' = pending /\ phase' # "down"
      /\ DOMAIN stored' = DOMAIN positions
      /\ \A p \in DOMAIN positions : stored'[p].tranches = positions[p].tranches
  BY DEF EndTick, memory
<1> QED BY <1>1 DEF TrancheInv, TranchesLeft

\* Every step keeps TranchesLeft.
LEMMA TrancheStep == ASSUME TrancheInv, [Next]_vars PROVE TranchesLeft'
<1>0. TranchesLeft /\ TypeOK /\ PairAtWork
  BY DEF TrancheInv, TypeInv
<1>1. CASE ScaleIn
  <2>1. /\ cur \in DOMAIN positions /\ cur \notin DOMAIN pending /\ cur \in Pairs
        /\ MayAdd(positions[cur]) /\ stored' = stored /\ phase' # "down"
    BY <1>0, <1>1 DEF ScaleIn, PairAtWork
  <2>2. positions[cur].units \in Nat
    BY <1>0, <2>1 DEF TypeOK, IsTable, Position
  <2> DEFINE tranche == TrancheUnits(positions[cur].units)
             room == MaxUnits - positions[cur].units
             u == IF tranche > room THEN room ELSE tranche
  <2>3. Submit(cur, u, TRUE) /\ room > 0
    BY <1>1 DEF ScaleIn
  <2>4. u \in Nat \ {0}
    <3>1. tranche \in Nat \ {0}
      BY <2>2, TranchePositive
    <3>2. room \in Nat \ {0}
      BY <2>2, <2>3, RunnerAssumption
    <3> HIDE DEF tranche, room
    <3> QED BY <3>1, <3>2
  <2> HIDE DEF u
  <2> QED BY <2>1, <2>3, <2>4, TrancheSubmit
<1>2. CASE OpenPosition
  <2>1. stored' = stored /\ phase' # "down" /\ cur \in Pairs
    BY <1>0, <1>2 DEF OpenPosition, EndPair, PairAtWork
  <2>2. PICK u \in EntrySizes : Submit(cur, u, FALSE)
    BY <1>2 DEF OpenPosition
  <2>3. u \in Nat \ {0}
    BY RunnerAssumption
  <2> QED BY <2>1, <2>2, <2>3, TrancheSubmit
<1>3. CASE ExitPosition \/ CloseOnSignal
  <2>1. phase' # "down" /\ ClosePosition(cur)
    BY <1>3 DEF ExitPosition, CloseOnSignal, EndPair
  <2> QED BY <1>0, <2>1, CloseFrame, TrancheDrop
<1>4. ASSUME NEW p \in Pairs, AbortClose(p) \/ WeekendClose(p) PROVE TranchesLeft'
  <2>1. phase' = phase /\ ClosePosition(p)
    BY <1>4 DEF AbortClose, WeekendClose, tick
  <2> QED BY <1>0, <2>1, CloseFrame, TrancheDrop
<1>5. CASE ScaleOut
  <2>1. /\ pending' = pending /\ stored' = stored /\ phase' # "down"
        /\ cur \in DOMAIN positions
    BY <1>5 DEF ScaleOut
  <2>2. \/ positions' = positions
        \/ \E u : positions' = [positions EXCEPT ![cur] = Reduction(@, u)]
    BY <1>5, PartialFrame DEF ScaleOut
  <2>3. /\ DOMAIN positions' = DOMAIN positions
        /\ \A q \in DOMAIN positions : positions'[q].tranches = positions[q].tranches
    <3>1. CASE positions' = positions
      BY <3>1
    <3>2. ASSUME NEW u, positions' = [positions EXCEPT ![cur] = Reduction(@, u)]
          PROVE  /\ DOMAIN positions' = DOMAIN positions
                 /\ \A q \in DOMAIN positions :
                        positions'[q].tranches = positions[q].tranches
      <4>1. positions'[cur] = Reduction(positions[cur], u)
        BY <2>1, <3>2
      <4>2. positions'[cur].tranches = positions[cur].tranches
        BY <4>1 DEF Reduction
      <4>3. \A q \in DOMAIN positions : q # cur => positions'[q] = positions[q]
        BY <3>2
      <4> QED BY <3>2, <4>2, <4>3
    <3> QED BY <2>2, <3>1, <3>2
  <2> QED BY <1>0, <2>1, <2>3, TrancheKeep
<1>6. ASSUME NEW p \in Pairs, VolatilityTrim(p) PROVE TranchesLeft'
  <2>1. /\ pending' = pending /\ stored' = stored /\ phase' = phase
        /\ p \in DOMAIN positions /\ positions[p] \in Position
    BY <1>0, <1>6 DEF VolatilityTrim, TypeOK, IsTable
  <2>2. \/ positions' = positions
        \/ \E u : positions' = [positions EXCEPT ![p].units = @ - u]
    BY <1>6, PartialFrame DEF VolatilityTrim
  <2>3. /\ DOMAIN positions' = DOMAIN positions
        /\ \A q \in DOMAIN positions : positions'[q].tranches = positions[q].tranches
    BY <2>1, <2>2 DEF Position
  <2> QED BY <1>0, <2>1, <2>3, TrancheKeep
<1>7. ASSUME NEW p \in Pairs, BeginPair(p) \/ SkipPair(p) PROVE TranchesLeft'
  <2>1. positions' = positions /\ pending' = pending /\ stored' = stored
    BY <1>7 DEF BeginPair, SkipPair, memory
  <2>2. phase' # "down"
    BY <1>7 DEF BeginPair, SkipPair, Visited
  <2> QED BY <1>0, <2>1, <2>2, TrancheKeep
<1>8. CASE \/ FetchPositions \/ FetchPendingOrders \/ FetchOpenTrades
           \/ KeepPosition \/ NoScaling \/ NoTrade
           \/ ReviewProtocol \/ BeginAbort \/ FinishAbort
           \/ StartWeekendClose \/ MarketCloses \/ MarketOpens \/ Complete \/ Broker
           \/ UNCHANGED vars
  <2>1. positions' = positions /\ pending' = pending /\ stored' = stored
    BY <1>8 DEF FetchPositions, FetchPendingOrders, FetchOpenTrades, KeepPosition,
                NoScaling, NoTrade, ReviewProtocol, BeginAbort, FinishAbort,
                StartWeekendClose, MarketCloses, MarketOpens, Complete, Broker, memory, vars
  <2>2. phase' # "down" \/ phase' = phase
    BY <1>8 DEF FetchPositions, FetchPendingOrders, FetchOpenTrades, KeepPosition,
                NoScaling, NoTrade, ReviewProtocol, BeginAbort, FinishAbort,
                StartWeekendClose, MarketCloses, MarketOpens, Complete, Broker, tick, vars,
                StartPairs, EndPair
  <2> QED BY <1>0, <2>1, <2>2, TrancheKeep
<1> QED BY <1>1, <1>2, <1>3, <1>4, <1>5, <1>6, <1>7, <1>8, TrancheSweep,
           TrancheReconcile, TrancheRestart, TrancheStop, TrancheSave
        DEF Next, Tick, Weekend

\* No mixture of immediate fills, promoted fills, confirmed scale-ins,
\* adoptions, closes and restarts counts more than max_tranches tranches.
THEOREM TranchesBounded == Spec => []TranchesWithinLimit
<1>1. Init => TrancheInv
  BY TrancheInit
<1>2. TrancheInv /\ [Next]_vars => TrancheInv'
  BY TrancheStep, TypeStep DEF TrancheInv
<1>3. TrancheInv => TranchesWithinLimit
  BY ScaleAssumption DEF TrancheInv, TranchesLeft, TranchesWithinLimit
<1> QED BY <1>1, <1>2, <1>3, PTL DEF Spec

-----------------------------------------------------------------------------
(* A pair never exceeds its cap by more than one order.                    *)

SeenUnits(p) == IF p \in DOMAIN seen.positions THEN seen.positions[p] ELSE 0

\* The pairs the running tick may still place an order for.
MayOrder(p) ==
    \/ phase \in {"orders", "trades", "sweep"}
    \/ phase \in {"pairs", "exit", "scale", "signal"} /\ p \in todo
    \/ phase \in {"exit", "scale"} /\ p = cur
    \/ phase = "signal" /\ p = cur /\ "position" \notin found

\* What is held of a pair, alone and with an order added, stays in a limit.
Committed(p, limit) ==
    /\ held[p] <= limit
    /\ \A o \in orders : o.pair = p => held[p] + o.units <= limit

\* Between the query and the next order of a pair, only the one order that
\* was live at the query can lift the pair above what the table says.
Backed(p) ==
    /\ Committed(p, 2 * MaxUnits)
    /\ phase = "reconcile" => Committed(p, SeenUnits(p) + MaxUnits)
    /\ MayOrder(p) => Committed(p, UnitsOf(p) + MaxUnits)

\* A pair has at most one live order, and no order passes MaxUnits.
OneOrderEach ==
    /\ \A o \in orders : o.units <= MaxUnits
    /\ \A a, b \in orders : a.pair = b.pair => a = b

\* The pair at work is not visited again, and if it had no position at the
\* start of its visit it has none at the end of it.
VisitOnce ==
    /\ phase \in {"exit", "scale", "signal"} => cur \notin todo
    /\ phase = "signal" /\ "position" \notin found => cur \notin DOMAIN positions

ExposureInv == OrderInv /\ OneOrderEach /\ VisitOnce /\ \A p \in Pairs : Backed(p)

\* Numbers the comparisons are about.
LEMMA ExposureTypes ==
    ASSUME TypeOK, NEW p \in Pairs
    PROVE  /\ held[p] \in Nat /\ UnitsOf(p) \in Nat /\ SeenUnits(p) \in Nat
           /\ MaxUnits \in Nat \ {0}
           /\ \A o \in orders : o.units \in Nat /\ o.pair \in Pairs
<1>1. held[p] \in Nat /\ \A o \in orders : o.units \in Nat /\ o.pair \in Pairs
  BY DEF TypeOK, AccountTypeOK, Order
<1>2. UnitsOf(p) \in Nat
  BY DEF TypeOK, IsTable, Position, UnitsOf
<1>3. SeenUnits(p) \in Nat
  BY DEF TypeOK, IsTable, SeenUnits
<1> QED BY <1>1, <1>2, <1>3, RunnerAssumption

\* Nothing is held, ordered or seen at the start.
LEMMA ExposureInit == Init => ExposureInv
<1> SUFFICES ASSUME Init PROVE ExposureInv
  OBVIOUS
<1>1. OrderInv
  BY OrderInit
<1>2. OneOrderEach /\ VisitOnce
  BY DEF Init, AccountInit, OneOrderEach, VisitOnce
<1>3. ASSUME NEW p \in Pairs PROVE Backed(p)
  <2>1. held[p] = 0 /\ orders = {} /\ phase = "idle"
    BY DEF Init, AccountInit
  <2> QED BY <2>1, RunnerAssumption DEF Backed, Committed, MayOrder
<1> QED BY <1>1, <1>2, <1>3 DEF ExposureInv

\* A pair of which no more is held or ordered, and that the tick may order
\* only if it might before, by a table that does not say less.
LEMMA BackedKeep ==
    ASSUME TypeOK, TypeOK', NEW p \in Pairs, Backed(p),
           held'[p] <= held[p], orders' \subseteq orders,
           MayOrder(p)' => MayOrder(p) /\ UnitsOf(p)' >= UnitsOf(p),
           phase' = "reconcile" => phase = "reconcile" /\ SeenUnits(p)' = SeenUnits(p)
    PROVE  Backed(p)'
<1>1. /\ held[p] \in Nat /\ UnitsOf(p) \in Nat /\ SeenUnits(p) \in Nat
      /\ MaxUnits \in Nat /\ \A o \in orders : o.units \in Nat
  BY ExposureTypes
<1>2. held'[p] \in Nat /\ UnitsOf(p)' \in Nat
  BY DEF TypeOK, AccountTypeOK, IsTable, Position, UnitsOf
<1>3. ASSUME NEW low \in Int, NEW high \in Int, low <= high, Committed(p, low)
      PROVE  /\ held'[p] <= high
             /\ \A o \in orders' : o.pair = p => held'[p] + o.units <= high
  BY <1>1, <1>2, <1>3 DEF Committed
<1>4. Committed(p, 2 * MaxUnits)'
  BY <1>1, <1>3 DEF Backed, Committed
<1>5. phase' = "reconcile" => Committed(p, SeenUnits(p) + MaxUnits)'
  BY <1>1, <1>3 DEF Backed, Committed
<1>6. MayOrder(p)' => Committed(p, UnitsOf(p) + MaxUnits)'
  BY <1>1, <1>2, <1>3 DEF Backed, Committed
<1> QED BY <1>4, <1>5, <1>6 DEF Backed

\* A pair of which nothing is held any more.
LEMMA BackedClosed ==
    ASSUME TypeOK, TypeOK', NEW p \in Pairs, OneOrderEach,
           held'[p] = 0, orders' = orders
    PROVE  Backed(p)'
<1>1. MaxUnits \in Nat /\ \A o \in orders : o.units \in Nat /\ o.units <= MaxUnits
  BY ExposureTypes DEF OneOrderEach
<1>2. UnitsOf(p)' \in Nat /\ SeenUnits(p)' \in Nat
  BY DEF TypeOK, IsTable, Position, UnitsOf, SeenUnits
<1>3. ASSUME NEW limit \in Int, MaxUnits <= limit
      PROVE  /\ held'[p] <= limit
             /\ \A o \in orders' : o.pair = p => held'[p] + o.units <= limit
  BY <1>1, <1>3
<1>4. Committed(p, 2 * MaxUnits)'
  BY <1>1, <1>3 DEF Committed
<1>5. Committed(p, SeenUnits(p) + MaxUnits)' /\ Committed(p, UnitsOf(p) + MaxUnits)'
  BY <1>1, <1>2, <1>3 DEF Committed
<1> QED BY <1>4, <1>5 DEF Backed

\* Without faults a close leaves nothing of its pair, at the broker and in the
\* table, and everything of the others.
LEMMA CloseClears ==
    ASSUME {"unreachable", "lost_reply"} \cap Faults = {}, TypeOK,
           NEW p \in Pairs, ClosePosition(p)
    PROVE  /\ held'[p] = 0
           /\ \A q \in Pairs : q # p => held'[q] = held[q]
           /\ positions' = Drop(positions, p)
           /\ \/ stored' = Drop(stored, p)
              \/ stored' = stored /\ p \notin DOMAIN positions
<1>0. held \in [Pairs -> Nat]
  BY DEF TypeOK, AccountTypeOK
<1>f. ~Fault("unreachable") /\ ~Fault("lost_reply")
  BY DEF Fault
<1>1. CASE Reduced(p, held[p])
  <2>1. held' = [held EXCEPT ![p] = held[p] - held[p]]
    BY <1>1 DEF Reduced
  <2>2. held'[p] = 0 /\ \A q \in Pairs : q # p => held'[q] = held[q]
    BY <1>0, <2>1
  <2> QED BY <1>1, <1>f, <2>2, <1>0
          DEF ClosePosition, ReduceRefused, ReduceResent, Unreachable, Reduced
<1>2. CASE held[p] = 0 /\ ReduceRefused(p, 0)
  <2>1. held' = held /\ ~Reduced(p, held[p])
    BY <1>2 DEF ReduceRefused, account, Reduced
  <2> QED BY <1>2, <1>f, <2>1 DEF ClosePosition, ReduceResent, Unreachable
<1> QED BY <1>f, <1>1, <1>2 DEF ClosePosition, ReduceResent, Unreachable

\* A close keeps every pair backed: the closed one has nothing left.
LEMMA BackedClose ==
    ASSUME Faults = {}, ExposureInv, TypeOK', NEW p \in Pairs, ClosePosition(p),
           phase' = phase \/ phase' \in {"pairs", "protocol"},
           todo' = todo, cur' = cur \/ phase' \in {"pairs", "protocol"},
           found' = found \/ phase' \in {"pairs", "protocol"}, seen' = seen,
           phase' = "pairs" => phase \in {"pairs", "exit", "scale", "signal"}
    PROVE  \A q \in Pairs : Backed(q)'
<1>0. TypeOK /\ OneOrderEach
  BY DEF ExposureInv, OrderInv, TypeInv
<1>1. /\ held'[p] = 0 /\ orders' = orders
      /\ \A q \in Pairs : q # p => held'[q] = held[q]
      /\ positions' = Drop(positions, p)
  BY <1>0, CloseClears, CloseFrame
<1>2. ASSUME NEW q \in Pairs, q # p PROVE Backed(q)'
  <2>1. held'[q] <= held[q]
    BY <1>0, <1>1, <1>2 DEF TypeOK, AccountTypeOK
  <2>2. UnitsOf(q)' = UnitsOf(q) /\ UnitsOf(q) \in Nat
    BY <1>0, <1>1, <1>2, ExposureTypes DEF UnitsOf, Drop
  <2>3. MayOrder(q)' => MayOrder(q)
    BY DEF MayOrder
  <2>4. SeenUnits(q)' = SeenUnits(q)
    BY DEF SeenUnits
  <2>5. Backed(q)
    BY DEF ExposureInv
  <2> QED BY <1>0, <1>1, <2>1, <2>2, <2>3, <2>4, <2>5, BackedKeep
<1>3. Backed(p)'
  BY <1>0, <1>1, BackedClosed
<1> QED BY <1>2, <1>3

\* A partial close takes the same units from the broker and from the table.
LEMMA BackedPartial ==
    ASSUME Faults = {}, ExposureInv, TypeOK', NEW p \in DOMAIN positions,
           NEW u \in Nat, NEW done, PartialClose(p, u, done),
           DOMAIN done = DOMAIN positions, done[p].units = positions[p].units - u,
           \A q \in DOMAIN positions : q # p => done[q].units = positions[q].units,
           phase' # "reconcile", \A q \in Pairs : MayOrder(q)' => MayOrder(q)
    PROVE  \A q \in Pairs : Backed(q)'
<1>0. TypeOK /\ OneOrderEach /\ p \in Pairs
  BY DEF ExposureInv, OrderInv, TypeInv, TypeOK, IsTable
<1>1. /\ held' = [held EXCEPT ![p] = @ - u] /\ orders' = orders
      /\ positions' = done /\ u <= held[p]
  BY NoFault DEF PartialClose, Reduced, ReduceResent
<1>2. held \in [Pairs -> Nat] /\ held' \in [Pairs -> Nat] /\ positions[p].units \in Nat
  BY <1>0 DEF TypeOK, AccountTypeOK, IsTable, Position
<1>3. ASSUME NEW q \in Pairs PROVE Backed(q)'
  <2>0. Backed(q)
    BY DEF ExposureInv
  <2>1. CASE q # p
    <3>1. held'[q] <= held[q]
      BY <1>1, <1>2, <2>1
    <3>2. UnitsOf(q)' = UnitsOf(q) /\ UnitsOf(q) \in Nat
      BY <1>0, <1>1, <2>1, ExposureTypes DEF UnitsOf
    <3> QED BY <1>0, <1>1, <2>0, <3>1, <3>2, BackedKeep
  <2>2. CASE q = p
    <3>1. UnitsOf(p) = positions[p].units /\ UnitsOf(p)' = positions[p].units - u
      BY <1>1 DEF UnitsOf
    <3>2. held'[p] = held[p] - u
      BY <1>0, <1>1, <1>2
    <3>3. /\ MaxUnits \in Nat
          /\ \A o \in orders : o.units \in Nat
      BY <1>0, ExposureTypes
    <3>4. Committed(p, 2 * MaxUnits)'
      BY <1>0, <1>1, <1>2, <2>0, <2>2, <3>2, <3>3 DEF Backed, Committed
    <3>5. MayOrder(p)' => Committed(p, UnitsOf(p) + MaxUnits)'
      BY <1>0, <1>1, <1>2, <2>0, <2>2, <3>1, <3>2, <3>3 DEF Backed, Committed
    <3> QED BY <2>2, <3>4, <3>5 DEF Backed
  <2> QED BY <2>1, <2>2
<1> QED BY <1>3

\* An entry for a pair the table does not have, or a scale-in within what the
\* table leaves free, ends within the cap and one order.
LEMMA SubmitWithinCap ==
    ASSUME ExposureInv, NEW p \in Pairs, NEW u \in 1..MaxUnits, NEW s \in BOOLEAN,
           MayOrder(p),
           IF s THEN p \in DOMAIN positions /\ u <= MaxUnits - positions[p].units
                ELSE p \notin DOMAIN positions
    PROVE  held[p] + u <= 2 * MaxUnits
<1>0. TypeOK /\ MaxUnits \in Nat
  BY RunnerAssumption DEF ExposureInv, OrderInv, TypeInv
<1>1. held[p] <= UnitsOf(p) + MaxUnits
  BY DEF ExposureInv, Backed, Committed
<1>2. UnitsOf(p) + u <= MaxUnits
  <2>1. UnitsOf(p) \in Nat
    BY <1>0, ExposureTypes
  <2>2. CASE s
    BY <2>1, <2>2, <1>0 DEF UnitsOf
  <2>3. CASE ~s
    BY <2>3, <1>0 DEF UnitsOf
  <2> QED BY <2>2, <2>3
<1> QED BY <1>0, <1>1, <1>2, ExposureTypes

\* An order for a pair that has none, within what the table leaves free.
LEMMA BackedSubmit ==
    ASSUME Faults = {}, ExposureInv, TypeOK', NEW p \in Pairs, NEW u \in 1..MaxUnits,
           NEW s \in BOOLEAN, p \notin DOMAIN pending, MayOrder(p),
           IF s THEN p \in DOMAIN positions /\ u <= MaxUnits - positions[p].units
                ELSE p \notin DOMAIN positions,
           Submit(p, u, s),
           phase' # "reconcile",
           \A q \in Pairs : MayOrder(q)' => q # p /\ MayOrder(q)
    PROVE  OneOrderEach' /\ \A q \in Pairs : Backed(q)'
<1>0. TypeOK /\ OneOrderEach /\ LiveOrdersTracked /\ MaxUnits \in Nat
  BY RunnerAssumption DEF ExposureInv, OrderInv, TypeInv
<1>1. \A o \in orders : o.pair # p
  BY <1>0 DEF LiveOrdersTracked
<1>2. held[p] + u <= 2 * MaxUnits
  BY SubmitWithinCap
<1>3. held \in [Pairs -> Nat]
  BY <1>0 DEF TypeOK, AccountTypeOK
<1>4. CASE OrderAccepted(p, u) /\ Track(p, u, s, nextId) /\ UNCHANGED positions
  <2>1. /\ held' = held /\ positions' = positions
        /\ \A o \in orders' : o \in orders \/ o = [id |-> nextId, pair |-> p, units |-> u]
    BY <1>4 DEF OrderAccepted
  <2>2. OneOrderEach'
    BY <1>0, <1>1, <2>1 DEF OneOrderEach
  <2>3. ASSUME NEW q \in Pairs, q # p PROVE Backed(q)'
    <3>1. \A o \in orders' : o.pair = q => o \in orders
      BY <2>1, <2>3
    <3>2. MayOrder(q)' => MayOrder(q)
      BY <2>3
    <3>3. UnitsOf(q)' = UnitsOf(q)
      BY <2>1 DEF UnitsOf
    <3>4. Backed(q)
      BY DEF ExposureInv
    <3> QED BY <2>1, <3>1, <3>2, <3>3, <3>4 DEF Backed, Committed
  <2>4. Backed(p)'
    <3>1. \A o \in orders' : o.pair = p => o.units = u
      BY <1>1, <2>1
    <3>2. held[p] <= 2 * MaxUnits
      BY DEF ExposureInv, Backed, Committed
    <3>3. Committed(p, 2 * MaxUnits)'
      BY <1>2, <2>1, <3>1, <3>2 DEF Committed
    <3> QED BY <3>3 DEF Backed
  <2> QED BY <2>2, <2>3, <2>4
<1>5. CASE OrderFilledAtOnce(p, u) /\ positions' = Promoted(p, u, s) /\ UNCHANGED pending
  <2>1. orders' = orders /\ held' = [held EXCEPT ![p] = @ + u]
    BY <1>5 DEF OrderFilledAtOnce
  <2>2. \A q \in DOMAIN positions : q # p => q \in DOMAIN positions' /\ positions'[q] = positions[q]
    BY <1>5 DEF Promoted, Put
  <2>3. \A q \in DOMAIN positions' : q # p => q \in DOMAIN positions
    BY <1>5 DEF Promoted, Put
  <2>4. ASSUME NEW q \in Pairs, q # p PROVE Backed(q)'
    <3>1. held'[q] <= held[q]
      BY <1>3, <2>1, <2>4
    <3>2. UnitsOf(q)' = UnitsOf(q) /\ UnitsOf(q) \in Nat
      BY <1>0, <2>2, <2>3, <2>4, ExposureTypes DEF UnitsOf
    <3>3. Backed(q)
      BY DEF ExposureInv
    <3> QED BY <1>0, <2>1, <3>1, <3>2, <3>3, BackedKeep
  <2>5. Backed(p)'
    <3>1. held'[p] = held[p] + u
      BY <1>3, <2>1
    <3>2. Committed(p, 2 * MaxUnits)'
      BY <1>1, <1>2, <2>1, <3>1 DEF Committed
    <3> QED BY <3>2 DEF Backed
  <2>6. OneOrderEach'
    BY <1>0, <2>1 DEF OneOrderEach
  <2> QED BY <2>4, <2>5, <2>6
<1> QED BY <1>4, <1>5, NoFault DEF Submit, OrderResent

\* A fill moves units from on order to held.
LEMMA BackedBroker ==
    ASSUME ExposureInv, TypeOK', Broker
    PROVE  OneOrderEach' /\ \A q \in Pairs : Backed(q)'
<1>0. TypeOK /\ OneOrderEach /\ orders' \subseteq orders
      /\ UNCHANGED <<positions, phase, todo, cur, found, seen>>
  BY BrokerFrame DEF ExposureInv, OrderInv, TypeInv, Broker, memory, tick
<1>1. OneOrderEach'
  BY <1>0 DEF OneOrderEach
<1>2. \A q \in Pairs : /\ MayOrder(q)' <=> MayOrder(q)
                       /\ UnitsOf(q)' = UnitsOf(q) /\ SeenUnits(q)' = SeenUnits(q)
                       /\ Backed(q) /\ UnitsOf(q) \in Nat
  BY <1>0, ExposureTypes DEF MayOrder, UnitsOf, SeenUnits, ExposureInv
<1>3. held \in [Pairs -> Nat] /\ held' \in [Pairs -> Nat]
  BY <1>0 DEF TypeOK, AccountTypeOK
<1>4. ASSUME \A q \in Pairs : held'[q] <= held[q]
      PROVE  \A q \in Pairs : Backed(q)'
  <2> TAKE q \in Pairs
  <2>1. UnitsOf(q)' >= UnitsOf(q)
    BY <1>2
  <2> QED BY <1>0, <1>2, <1>4, <2>1, BackedKeep
<1>5. ASSUME NEW o \in orders, Fill(o) PROVE \A q \in Pairs : Backed(q)'
  <2>1. /\ o.pair \in Pairs /\ o.units \in Nat /\ orders' = orders \ {o}
        /\ held' = [held EXCEPT ![o.pair] = @ + o.units]
    BY <1>0, <1>5 DEF Fill, TypeOK, AccountTypeOK, Order
  <2> TAKE q \in Pairs
  <2>2. ASSUME NEW limit \in Int, Committed(q, limit)
        PROVE  /\ held'[q] <= limit
               /\ \A a \in orders' : a.pair = q => held'[q] + a.units <= limit
    <3>1. CASE q = o.pair
      <4>1. held'[q] = held[q] + o.units
        BY <1>3, <2>1, <3>1
      <4>2. \A a \in orders' : a.pair # q
        BY <1>0, <2>1, <3>1 DEF OneOrderEach
      <4> QED BY <2>1, <2>2, <3>1, <4>1, <4>2 DEF Committed
    <3>2. CASE q # o.pair
      <4>1. held'[q] = held[q]
        BY <1>3, <2>1, <3>2
      <4> QED BY <1>0, <2>2, <4>1 DEF Committed
    <3> QED BY <3>1, <3>2
  <2>3. /\ UnitsOf(q) \in Nat /\ SeenUnits(q) \in Nat /\ MaxUnits \in Nat
    BY <1>0, ExposureTypes
  <2>4. Committed(q, 2 * MaxUnits)'
    BY <1>2, <2>2, <2>3 DEF Backed, Committed
  <2>5. phase' = "reconcile" => Committed(q, SeenUnits(q) + MaxUnits)'
    BY <1>0, <1>2, <2>2, <2>3 DEF Backed, Committed
  <2>6. MayOrder(q)' => Committed(q, UnitsOf(q) + MaxUnits)'
    BY <1>2, <2>2, <2>3 DEF Backed, Committed
  <2> QED BY <2>4, <2>5, <2>6 DEF Backed
<1>6. ASSUME NEW o \in orders, BrokerCancel(o) PROVE \A q \in Pairs : held'[q] <= held[q]
  BY <1>3, <1>6 DEF BrokerCancel
<1>7. ASSUME NEW p \in Pairs, StopOut(p) PROVE \A q \in Pairs : held'[q] <= held[q]
  <2>1. PICK left \in 0..(held[p] - 1) : held' = [held EXCEPT ![p] = left]
    BY <1>7 DEF StopOut
  <2>2. held[p] \in Nat /\ left <= held[p]
    BY <1>3
  <2> QED BY <1>3, <2>1, <2>2
<1> QED BY <1>1, <1>4, <1>5, <1>6, <1>7 DEF Broker, BrokerStep

\* The query sees what is held, and the repair takes it over: from there on
\* only the live order of a pair is not in the table.
LEMMA BackedFetch ==
    ASSUME Faults = {}, ExposureInv, TypeOK',
           \/ FetchPositions \/ ReconcilePositions
           \/ FetchPendingOrders \/ FetchOpenTrades
    PROVE  \A q \in Pairs : Backed(q)'
<1>0. TypeOK /\ OneOrderEach /\ \A q \in Pairs : Backed(q)
  BY DEF ExposureInv, OrderInv, TypeInv
<1>f. ~Unreachable
  BY NoFault DEF Unreachable
<1>1. orders' = orders /\ held' = held
  BY <1>f DEF FetchPositions, ReconcilePositions, FetchPendingOrders,
              FetchOpenTrades, account
<1>2. \A q \in Pairs : Committed(q, 2 * MaxUnits)'
  BY <1>0, <1>1 DEF Backed, Committed
<1>3. CASE FetchPositions
  <2>1. /\ phase' = "reconcile" /\ seen' = [seen EXCEPT !.positions = GetAllPositions]
    BY <1>3, <1>f DEF FetchPositions
  <2>2. seen = [positions |-> seen.positions, orders |-> seen.orders,
                trades |-> seen.trades]
    BY <1>0 DEF TypeOK
  <2>3. seen'.positions = GetAllPositions
    BY <2>1, <2>2
  <2> TAKE q \in Pairs
  <2>4. SeenUnits(q)' = held[q] /\ held[q] \in Nat
    BY <1>0, <2>3, ExposureTypes DEF SeenUnits, GetAllPositions
  <2>5. Committed(q, SeenUnits(q) + MaxUnits)'
    BY <1>0, <1>1, <2>4, ExposureTypes DEF Committed, OneOrderEach
  <2>6. ~MayOrder(q)'
    BY <2>1 DEF MayOrder
  <2> QED BY <1>2, <2>5, <2>6 DEF Backed
<1>4. CASE ReconcilePositions
  <2>1. /\ phase = "reconcile" /\ phase' # "reconcile"
        /\ positions' = Reconciled(positions, seen.positions, Pairs)
    BY <1>4 DEF ReconcilePositions, StartPairs
  <2>2. IsTable(positions, Position) /\ IsTable(seen.positions, Nat)
    BY <1>0 DEF TypeOK
  <2>3. /\ DOMAIN positions' = DOMAIN seen.positions
        /\ \A p \in DOMAIN positions' : positions'[p].units = seen.positions[p]
    BY <2>1, <2>2, ReconciledMatchesBroker
  <2> TAKE q \in Pairs
  <2>4. UnitsOf(q)' = SeenUnits(q)
    BY <2>3 DEF UnitsOf, SeenUnits
  <2>5. Committed(q, UnitsOf(q) + MaxUnits)'
    BY <1>0, <1>1, <2>1, <2>4 DEF Backed, Committed
  <2> QED BY <1>2, <2>1, <2>5 DEF Backed
<1>5. CASE FetchPendingOrders \/ FetchOpenTrades
  <2>1. positions' = positions /\ phase \in {"orders", "trades"} /\ phase' # "reconcile"
    BY <1>5 DEF FetchPendingOrders, FetchOpenTrades, memory
  <2> TAKE q \in Pairs
  <2>2. MayOrder(q) /\ UnitsOf(q)' = UnitsOf(q)
    BY <2>1 DEF MayOrder, UnitsOf
  <2>3. Committed(q, UnitsOf(q) + MaxUnits)'
    BY <1>0, <1>1, <2>2 DEF Backed, Committed
  <2> QED BY <1>2, <2>1, <2>3 DEF Backed
<1> QED BY <1>3, <1>4, <1>5

\* Steps that leave what is held and ordered, or only drop an order, and leave
\* the table or enter a filled order in it.
LEMMA BackedQuiet ==
    ASSUME ExposureInv, TypeOK', held' = held, orders' \subseteq orders,
           phase' # "reconcile",
           \A q \in Pairs : /\ MayOrder(q)' => MayOrder(q)
                            /\ UnitsOf(q)' >= UnitsOf(q)
    PROVE  OneOrderEach' /\ \A q \in Pairs : Backed(q)'
<1>0. TypeOK /\ OneOrderEach /\ \A q \in Pairs : Backed(q)
  BY DEF ExposureInv, OrderInv, TypeInv
<1>1. OneOrderEach'
  BY <1>0 DEF OneOrderEach
<1>2. ASSUME NEW q \in Pairs PROVE Backed(q)'
  <2>1. held'[q] <= held[q]
    BY <1>0, ExposureTypes
  <2> QED BY <1>0, <1>2, <2>1, BackedKeep
<1> QED BY <1>1, <1>2

\* Every step keeps ExposureInv, one named step per group of actions.
LEMMA ExposureStep ==
    ASSUME Faults = {}, ExposureInv, [Next]_vars PROVE ExposureInv'
<1>0. /\ OrderInv /\ OneOrderEach /\ VisitOnce /\ TypeOK /\ PairAtWork /\ FoundFresh
      /\ \A q \in Pairs : Backed(q)
  BY DEF ExposureInv, OrderInv, TypeInv
<1>1. OrderInv' /\ TypeOK'
  BY <1>0, OrderStep DEF OrderInv, TypeInv
<1> SUFFICES OneOrderEach' /\ VisitOnce' /\ \A q \in Pairs : Backed(q)'
  BY <1>1 DEF ExposureInv
<1>f. ~Unreachable /\ ~Stop
  BY NoFault DEF Unreachable, Stop
<1>2. CASE ScaleIn
  <2>1. /\ phase = "scale" /\ phase' = "signal" /\ cur \in DOMAIN positions
        /\ cur \in Pairs /\ cur \notin DOMAIN pending /\ cur \notin todo
        /\ "position" \in found /\ UNCHANGED <<todo, cur, found, seen>>
        /\ positions[cur].units \in Nat
    BY <1>0, <1>2 DEF ScaleIn, PairAtWork, VisitOnce, FoundFresh, TypeOK, IsTable, Position
  <2> DEFINE tranche == TrancheUnits(positions[cur].units)
             room == MaxUnits - positions[cur].units
             u == IF tranche > room THEN room ELSE tranche
  <2>2. Submit(cur, u, TRUE) /\ room > 0
    BY <1>2 DEF ScaleIn
  <2>3. u \in 1..MaxUnits /\ u <= room
    <3>1. tranche \in Nat \ {0}
      BY <2>1, TranchePositive
    <3>2. room \in Nat \ {0} /\ room <= MaxUnits
      BY <2>1, <2>2, RunnerAssumption
    <3> HIDE DEF tranche, room
    <3> QED BY <3>1, <3>2, RunnerAssumption
  <2> HIDE DEF u
  <2>4. MayOrder(cur) /\ \A q \in Pairs : MayOrder(q)' => q # cur /\ MayOrder(q)
    BY <2>1 DEF MayOrder
  <2>5. VisitOnce'
    BY <2>1 DEF VisitOnce
  <2> QED BY <1>1, <2>1, <2>2, <2>3, <2>4, <2>5, BackedSubmit
<1>3. CASE OpenPosition
  <2>1. /\ phase = "signal" /\ phase' \in {"protocol", "pairs"}
        /\ phase' = "protocol" => todo = {}
        /\ found = {} /\ cur \in Pairs /\ cur \notin DOMAIN pending
        /\ cur \notin todo /\ cur \notin DOMAIN positions /\ todo' = todo
    BY <1>0, <1>3 DEF OpenPosition, EndPair, PairAtWork, VisitOnce, FoundFresh, TypeOK
  <2>2. PICK u \in EntrySizes : Submit(cur, u, FALSE)
    BY <1>3 DEF OpenPosition
  <2>3. u \in 1..MaxUnits
    BY RunnerAssumption
  <2>4. MayOrder(cur) /\ \A q \in Pairs : MayOrder(q)' => q # cur /\ MayOrder(q)
    BY <2>1 DEF MayOrder
  <2>5. VisitOnce'
    BY <2>1 DEF VisitOnce
  <2> QED BY <1>1, <2>1, <2>2, <2>3, <2>4, <2>5, BackedSubmit
<1>4. CASE ExitPosition \/ CloseOnSignal
  <2>1. /\ ClosePosition(cur) /\ cur \in Pairs /\ phase \in {"exit", "signal"}
        /\ phase' \in {"pairs", "protocol"} /\ UNCHANGED <<todo, seen>>
    BY <1>0, <1>4 DEF ExitPosition, CloseOnSignal, EndPair, PairAtWork
  <2>2. \A q \in Pairs : Backed(q)'
    BY <1>1, <2>1, BackedClose
  <2>3. orders' = orders
    BY <2>1, CloseFrame
  <2> QED BY <1>0, <2>1, <2>2, <2>3 DEF OneOrderEach, VisitOnce
<1>5. ASSUME NEW p \in Pairs, AbortClose(p) \/ WeekendClose(p)
      PROVE  OneOrderEach' /\ VisitOnce' /\ \A q \in Pairs : Backed(q)'
  <2>0. ClosePosition(p) /\ UNCHANGED <<phase, cur, found, seen>>
    BY <1>5 DEF AbortClose, WeekendClose, tick
  <2>1. orders' = orders /\ positions' \in {positions, Drop(positions, p)}
    BY <2>0, CloseFrame
  <2>2. todo' = todo \/ phase = "abort"
    BY <1>5 DEF AbortClose, WeekendClose, tick
  <2>3. VisitOnce'
    BY <1>0, <2>0, <2>1, <2>2 DEF VisitOnce, Drop
  <2>4. CASE todo' = todo
    <3>1. \A q \in Pairs : Backed(q)'
      BY <1>1, <2>0, <2>4, BackedClose
    <3> QED BY <1>0, <2>1, <2>3, <3>1 DEF OneOrderEach
  <2>5. CASE phase = "abort"
    <3>1. held'[p] = 0 /\ \A q \in Pairs : q # p => held'[q] = held[q]
      BY <1>0, <2>0, CloseClears
    <3>2. ASSUME NEW q \in Pairs PROVE Backed(q)'
      <4>1. held'[q] <= held[q]
        BY <1>0, <3>1, ExposureTypes
      <4>2. ~MayOrder(q)' /\ phase' # "reconcile"
        BY <2>0, <2>5 DEF MayOrder
      <4> QED BY <1>0, <1>1, <2>1, <4>1, <4>2, BackedKeep
    <3> QED BY <1>0, <2>1, <2>3, <3>2 DEF OneOrderEach
  <2> QED BY <2>2, <2>4, <2>5
<1>6. CASE ScaleOut
  <2>1. /\ phase = "scale" /\ phase' = "signal" /\ cur \in DOMAIN positions
        /\ cur \notin todo /\ "position" \in found
        /\ UNCHANGED <<todo, cur, found, seen>> /\ positions[cur] \in Position
    BY <1>0, <1>6 DEF ScaleOut, VisitOnce, FoundFresh, TypeOK, IsTable
  <2>2. PICK u : u = ReductionUnits(positions[cur].units, positions[cur].levels)
    OBVIOUS
  <2>3. u \in Nat
    BY <2>1, <2>2, ReductionNat DEF Position
  <2>4. PICK done : done = [positions EXCEPT ![cur] = Reduction(@, u)]
    OBVIOUS
  <2>5. PartialClose(cur, u, done)
    BY <1>6, <2>2, <2>4 DEF ScaleOut
  <2>6. /\ DOMAIN done = DOMAIN positions
        /\ done[cur].units = positions[cur].units - u
        /\ \A q \in DOMAIN positions : q # cur => done[q].units = positions[q].units
    BY <2>1, <2>4 DEF Reduction
  <2>7. \A q \in Pairs : MayOrder(q)' => MayOrder(q)
    BY <2>1 DEF MayOrder
  <2>8. \A q \in Pairs : Backed(q)'
    BY <1>1, <2>1, <2>3, <2>5, <2>6, <2>7, BackedPartial
  <2>9. orders' = orders
    BY <2>5, PartialFrame
  <2> QED BY <1>0, <2>1, <2>8, <2>9 DEF OneOrderEach, VisitOnce
<1>7. ASSUME NEW p \in Pairs, VolatilityTrim(p)
      PROVE  OneOrderEach' /\ VisitOnce' /\ \A q \in Pairs : Backed(q)'
  <2>1. phase = "trim" /\ phase' = "trim" /\ p \in DOMAIN positions
    BY <1>7 DEF VolatilityTrim
  <2>2. positions[p] \in Position
    BY <1>0, <2>1 DEF TypeOK, IsTable
  <2>3. PICK u \in 1..(positions[p].units - 1) :
            PartialClose(p, u, [positions EXCEPT ![p].units = @ - u])
    BY <1>7 DEF VolatilityTrim
  <2>4. PICK done : done = [positions EXCEPT ![p].units = @ - u]
    OBVIOUS
  <2>5. u \in Nat
    BY <2>2 DEF Position
  <2>6. /\ DOMAIN done = DOMAIN positions
        /\ done[p].units = positions[p].units - u
        /\ \A q \in DOMAIN positions : q # p => done[q].units = positions[q].units
    BY <2>1, <2>2, <2>4 DEF Position
  <2>7. \A q \in Pairs : MayOrder(q)' => MayOrder(q)
    BY <2>1 DEF MayOrder
  <2>8. \A q \in Pairs : Backed(q)'
    BY <1>1, <2>1, <2>3, <2>4, <2>5, <2>6, <2>7, BackedPartial
  <2>9. orders' = orders
    BY <2>3, PartialFrame
  <2> QED BY <1>0, <2>1, <2>8, <2>9 DEF OneOrderEach, VisitOnce
<1>8. CASE FetchPositions \/ ReconcilePositions \/ FetchPendingOrders \/ FetchOpenTrades
  <2>1. orders' = orders /\ phase' \notin {"exit", "scale", "signal"}
    BY <1>8, <1>f DEF FetchPositions, ReconcilePositions, FetchPendingOrders,
                      FetchOpenTrades, StartPairs, account
  <2> QED BY <1>0, <1>1, <1>8, <2>1, BackedFetch DEF OneOrderEach, VisitOnce
<1>9. ASSUME NEW p \in Pairs, SweepPending(p)
      PROVE  OneOrderEach' /\ VisitOnce' /\ \A q \in Pairs : Backed(q)'
  <2>1. phase = "sweep" /\ phase' \in {"sweep", "pairs"}
    BY <1>9 DEF SweepPending, Visited
  <2>2. held' = held /\ orders' \subseteq orders
    BY <1>9, <1>f DEF SweepPending, AwaitFill, CancelStale, CancelAccepted,
         CancelRefused, PromoteFill, ConfirmScaleIn, ForgetOrder, account
  <2>3. ASSUME NEW q \in Pairs PROVE UnitsOf(q)' >= UnitsOf(q)
    <3>0. UnitsOf(q) \in Nat
      BY <1>0, ExposureTypes
    <3>1. CASE positions' = positions
      BY <3>0, <3>1 DEF UnitsOf
    <3>2. CASE PromoteFill(p)
      <4>1. /\ p \notin DOMAIN positions
            /\ \A r \in DOMAIN positions : r \in DOMAIN positions' /\ positions'[r] = positions[r]
            /\ \A r \in DOMAIN positions' : r \in DOMAIN positions \/ r = p
        BY <3>2 DEF PromoteFill, Promoted, Put
      <4>2. UnitsOf(q)' \in Nat
        BY <1>1, ExposureTypes DEF TypeOK, IsTable, Position, UnitsOf
      <4>3. CASE q \in DOMAIN positions
        BY <4>1, <4>3, <3>0 DEF UnitsOf
      <4>4. CASE q \notin DOMAIN positions
        BY <4>2, <4>4, <3>0 DEF UnitsOf
      <4> QED BY <4>3, <4>4
    <3>3. CASE ConfirmScaleIn(p)
      <4>1. positions' = [positions EXCEPT ![p] = WithTranche(@, 0)] /\ p \in DOMAIN positions
        BY <3>3 DEF ConfirmScaleIn
      <4>2. positions[p].units \in Nat
        BY <1>0, <4>1 DEF TypeOK, IsTable, Position
      <4>3. positions'[p].units = positions[p].units
        BY <4>1, <4>2 DEF WithTranche
      <4>4. \A r \in DOMAIN positions : positions'[r].units = positions[r].units
        BY <4>1, <4>3
      <4> QED BY <3>0, <4>1, <4>4 DEF UnitsOf
    <3> QED BY <1>9, <3>1, <3>2, <3>3
            DEF SweepPending, AwaitFill, CancelStale, ForgetOrder
  <2>4. \A q \in Pairs : MayOrder(q)' => MayOrder(q)
    BY <2>1 DEF MayOrder
  <2> QED BY <1>1, <2>1, <2>2, <2>3, <2>4, BackedQuiet DEF VisitOnce
<1>10. ASSUME NEW p \in Pairs, BeginPair(p) \/ SkipPair(p)
       PROVE  OneOrderEach' /\ VisitOnce' /\ \A q \in Pairs : Backed(q)'
  <2>1. /\ phase = "pairs" /\ p \in todo /\ positions' = positions
        /\ held' = held /\ orders' = orders
    BY <1>10 DEF BeginPair, SkipPair, memory, account
  <2>2. /\ todo' \subseteq todo /\ phase' # "reconcile"
        /\ phase' \in {"exit", "signal"} => cur' = p /\ p \notin todo'
        /\ phase' \notin {"orders", "trades", "sweep", "scale"}
        /\ phase' = "signal" /\ "position" \notin found' => p \notin DOMAIN positions
    BY <1>10, <2>1 DEF BeginPair, SkipPair, Visited
  <2>3. \A q \in Pairs : MayOrder(q)' => MayOrder(q)
    BY <2>1, <2>2 DEF MayOrder
  <2>4. \A q \in Pairs : UnitsOf(q)' >= UnitsOf(q)
    BY <1>0, <2>1, ExposureTypes DEF UnitsOf
  <2>5. VisitOnce'
    BY <2>1, <2>2 DEF VisitOnce
  <2> QED BY <1>1, <2>1, <2>2, <2>3, <2>4, <2>5, BackedQuiet
<1>11. CASE \/ KeepPosition \/ NoScaling \/ NoTrade
            \/ ReviewProtocol \/ BeginAbort \/ FinishAbort \/ EndTick
  <2>1. held' = held /\ orders' = orders /\ positions' = positions /\ phase' # "reconcile"
    BY <1>11 DEF KeepPosition, NoScaling, NoTrade, EndPair, ReviewProtocol, BeginAbort,
                 FinishAbort, EndTick, memory, account
  <2>2. \A q \in Pairs : MayOrder(q)' => MayOrder(q)
    BY <1>11, <1>0 DEF KeepPosition, NoScaling, NoTrade, EndPair, ReviewProtocol,
                 BeginAbort, FinishAbort, EndTick, MayOrder, FoundFresh
  <2>3. VisitOnce'
    BY <1>11, <1>0 DEF KeepPosition, NoScaling, NoTrade, EndPair, ReviewProtocol,
                 BeginAbort, FinishAbort, EndTick, VisitOnce, FoundFresh
  <2>4. \A q \in Pairs : UnitsOf(q)' >= UnitsOf(q)
    BY <1>0, <2>1, ExposureTypes DEF UnitsOf
  <2> QED BY <1>1, <2>1, <2>2, <2>3, <2>4, BackedQuiet
<1>12. CASE StartWeekendClose \/ MarketCloses \/ MarketOpens \/ Complete \/ UNCHANGED vars
  <2>1. UNCHANGED <<held, orders, positions, phase, todo, cur, found, seen>>
    BY <1>12 DEF StartWeekendClose, MarketCloses, MarketOpens, Complete, vars, memory,
                 tick, account
  <2>2. OneOrderEach' /\ VisitOnce'
    BY <1>0, <2>1 DEF OneOrderEach, VisitOnce
  <2>3. \A q \in Pairs : Backed(q)'
    BY <1>0, <2>1 DEF Backed, Committed, MayOrder, UnitsOf, SeenUnits
  <2> QED BY <2>2, <2>3
<1>13. CASE Restart
  <2>1. held' = held /\ orders' = orders /\ phase' = "idle"
    BY <1>13, <1>f DEF Restart, account
  <2>2. OneOrderEach' /\ VisitOnce'
    BY <1>0, <2>1 DEF OneOrderEach, VisitOnce
  <2>3. \A q \in Pairs : Committed(q, 2 * MaxUnits)' /\ ~MayOrder(q)'
    BY <1>0, <2>1 DEF Backed, Committed, MayOrder
  <2> QED BY <2>1, <2>2, <2>3 DEF Backed
<1>14. CASE Broker
  <2>1. UNCHANGED <<positions, phase, todo, cur, found>>
    BY <1>14 DEF Broker, memory, tick
  <2>2. VisitOnce'
    BY <1>0, <2>1 DEF VisitOnce
  <2> QED BY <1>1, <1>14, <2>2, BackedBroker
<1> QED BY <1>f, <1>2, <1>3, <1>4, <1>5, <1>6, <1>7, <1>8, <1>9, <1>10, <1>11,
           <1>12, <1>13, <1>14
        DEF Next, Tick, Weekend

\* Without faults the units held of a pair, with its order or without, never
\* pass the cap by more than one order, whatever fills between the tick's
\* query and its next order, and next to the weekend job.
THEOREM ExposureBounded ==
    ASSUME Faults = {} PROVE Spec => []ExposureWithinOneOrder
<1>1. ExposureInv /\ [Next]_vars => ExposureInv'
  BY ExposureStep
<1>2. ExposureInv => ExposureWithinOneOrder
  <2> SUFFICES ASSUME ExposureInv PROVE ExposureWithinOneOrder
    OBVIOUS
  <2>1. \A o \in orders : o.pair \in Pairs
    BY DEF ExposureInv, OrderInv, TypeInv, TypeOK, AccountTypeOK, Order
  <2> QED BY <2>1 DEF ExposureInv, Backed, Committed, ExposureWithinOneOrder
<1> QED BY ExposureInit, <1>1, <1>2, PTL DEF Spec

-----------------------------------------------------------------------------
(* The abort empties the table, and an idle runner's progress is stored.   *)

\* What a restart would restore of every pair is what the table says.
Saved ==
    \A p \in DOMAIN positions :
        /\ positions[p].tranches = IF p \in DOMAIN stored THEN stored[p].tranches ELSE 1
        /\ positions[p].levels = IF p \in DOMAIN stored THEN stored[p].levels ELSE 0

\* The list of the abort covers the table, which only the end of a tick and an
\* abort leave to be idle.
ProgressInv ==
    /\ TypeInv
    /\ phase = "abort" => DOMAIN positions \subseteq todo
    /\ mode = "ABORTED" => phase \in {"idle", "down"} /\ DOMAIN positions = {}
    /\ phase = "idle" => Saved

\* A new runner has an empty table.
LEMMA ProgressInit == Init => ProgressInv
  BY TypeInit DEF Init, ProgressInv, Saved, NoTable

\* The steps of the tick.
LEMMA ProgressTick ==
    ASSUME {"unreachable", "lost_reply"} \cap Faults = {},
           ProgressInv, TypeInv', Tick
    PROVE  ProgressInv'
<1>f. ~Unreachable
  BY DEF Unreachable, Fault
<1>0. TypeOK /\ PairAtWork
  BY DEF ProgressInv, TypeInv
<1>1. ASSUME phase \notin {"idle", "down"}, phase' \notin {"idle", "abort"}, mode' = mode
      PROVE  ProgressInv'
  BY <1>1 DEF ProgressInv
<1>2. CASE FetchPositions
  BY <1>2, <1>f DEF FetchPositions, ProgressInv, Active
<1>3. CASE ReconcilePositions \/ FetchPendingOrders \/ FetchOpenTrades
  BY <1>1, <1>3 DEF ReconcilePositions, FetchPendingOrders, FetchOpenTrades, StartPairs
<1>4. ASSUME NEW p \in Pairs, SweepPending(p) \/ BeginPair(p) \/ SkipPair(p)
      PROVE  ProgressInv'
  BY <1>1, <1>4 DEF SweepPending, BeginPair, SkipPair, Visited
<1>5. CASE ExitPosition \/ CloseOnSignal
  <2>1. mode' = mode
    BY <1>5, CloseFrame DEF ExitPosition, CloseOnSignal
  <2> QED BY <1>1, <1>5, <2>1 DEF ExitPosition, CloseOnSignal, EndPair
<1>6. CASE \/ KeepPosition \/ NoScaling \/ ScaleIn \/ ScaleOut
           \/ NoTrade \/ OpenPosition
  BY <1>1, <1>6 DEF KeepPosition, NoScaling, ScaleIn, ScaleOut, NoTrade, OpenPosition,
                    EndPair
<1>7. CASE ReviewProtocol
  BY <1>7 DEF ReviewProtocol, ProgressInv, Active
<1>8. CASE BeginAbort
  BY <1>8 DEF BeginAbort, ProgressInv, memory
<1>9. CASE FinishAbort
  <2>1. DOMAIN positions' = {} /\ mode' = "ABORTED" /\ phase' = "idle"
    BY <1>9 DEF FinishAbort, ProgressInv, memory
  <2> QED BY <2>1 DEF ProgressInv, Saved
<1>10. ASSUME NEW p \in Pairs, AbortClose(p) PROVE ProgressInv'
  <2>1. ClosePosition(p) /\ phase = "abort" /\ phase' = "abort" /\ todo' = todo \ {p}
    BY <1>10 DEF AbortClose
  <2>2. positions' = Drop(positions, p) /\ mode' = mode
    BY <1>0, <2>1, CloseClears, CloseFrame
  <2>3. DOMAIN positions' \subseteq todo'
    BY <2>1, <2>2 DEF Drop, ProgressInv
  <2> QED BY <2>1, <2>2, <2>3 DEF ProgressInv
<1>11. ASSUME NEW p \in Pairs, VolatilityTrim(p) PROVE ProgressInv'
  BY <1>1, <1>11 DEF VolatilityTrim
<1>12. CASE EndTick
  <2>1. /\ phase = "trim" /\ phase' = "idle" /\ mode' = mode /\ positions' = positions
        /\ stored' = [p \in DOMAIN positions |-> [tranches |-> positions[p].tranches,
                                                  levels |-> positions[p].levels]]
    BY <1>12 DEF EndTick, memory
  <2>2. Saved'
    BY <2>1 DEF Saved
  <2> QED BY <2>1, <2>2 DEF ProgressInv
<1> QED BY <1>2, <1>3, <1>4, <1>5, <1>6, <1>7, <1>8, <1>9, <1>10, <1>11, <1>12
        DEF Tick

\* The jobs, the broker, a restart: a close that the weekend job makes of an
\* idle runner takes the row of its pair along.
LEMMA ProgressOthers ==
    ASSUME {"unreachable", "lost_reply"} \cap Faults = {},
           ProgressInv, TypeInv',
           Weekend \/ Complete \/ Broker \/ Stop \/ Restart \/ UNCHANGED vars
    PROVE  ProgressInv'
<1>f. ~Unreachable
  BY DEF Unreachable, Fault
<1>0. TypeOK
  BY DEF ProgressInv, TypeInv
<1>1. CASE \/ StartWeekendClose \/ MarketCloses \/ MarketOpens \/ Broker
           \/ UNCHANGED vars
  <2>1. UNCHANGED <<positions, stored, mode, phase, todo>>
    BY <1>1 DEF StartWeekendClose, MarketCloses, MarketOpens, Broker, memory,
                tick, vars
  <2> QED BY <2>1 DEF ProgressInv, Saved
<1>2. CASE Complete
  <2>1. UNCHANGED <<positions, stored, phase, todo>> /\ mode' = "COMPLETED"
    BY <1>2 DEF Complete, memory, tick
  <2> QED BY <2>1 DEF ProgressInv, Saved
<1>3. ASSUME NEW p \in Pairs, WeekendClose(p) PROVE ProgressInv'
  <2>1. ClosePosition(p) /\ UNCHANGED <<phase, todo>>
    BY <1>3 DEF WeekendClose, tick
  <2>2. /\ positions' = Drop(positions, p) /\ mode' = mode
        /\ \/ stored' = Drop(stored, p)
           \/ stored' = stored /\ p \notin DOMAIN positions
    BY <1>0, <2>1, CloseClears, CloseFrame
  <2>3. /\ DOMAIN positions' = DOMAIN positions \ {p}
        /\ \A q \in DOMAIN positions' : positions'[q] = positions[q]
    BY <2>2 DEF Drop
  <2>4. \A q \in DOMAIN positions' : /\ q \in DOMAIN stored' <=> q \in DOMAIN stored
                                     /\ q \in DOMAIN stored => stored'[q] = stored[q]
    BY <2>2, <2>3 DEF Drop
  <2>5. Saved => Saved'
    BY <2>3, <2>4 DEF Saved
  <2> QED BY <2>1, <2>2, <2>3, <2>5 DEF ProgressInv
<1>4. CASE Stop
  <2>1. phase' = "down" /\ DOMAIN positions' = {}
    BY <1>4 DEF Stop, NoTable
  <2> QED BY <2>1 DEF ProgressInv
<1>5. CASE Restart
  <2>1. positions' = RestoredTable /\ phase' = "idle" /\ mode' # "ABORTED" /\ stored' = stored
    BY <1>5, <1>f DEF Restart
  <2>2. Saved'
    BY <2>1 DEF RestoredTable, Saved
  <2> QED BY <2>1, <2>2 DEF ProgressInv
<1> QED BY <1>1, <1>2, <1>3, <1>4, <1>5 DEF Weekend

\* Every step keeps ProgressInv as long as the broker answers.
LEMMA ProgressStep ==
    ASSUME {"unreachable", "lost_reply"} \cap Faults = {},
           ProgressInv, [Next]_vars
    PROVE  ProgressInv'
<1>1. TypeInv'
  BY TypeStep DEF ProgressInv
<1> QED BY <1>1, ProgressTick, ProgressOthers DEF Next

\* While the broker answers, an abort ends with an empty table, whatever stops
\* out, fills or is closed by the weekend job next to it.
THEOREM AbortClears ==
    ASSUME {"unreachable", "lost_reply"} \cap Faults = {}
    PROVE  Spec => []AbortClearsTable
<1>1. ProgressInv /\ [Next]_vars => ProgressInv'
  BY ProgressStep
<1>2. ProgressInv => AbortClearsTable
  BY DEF ProgressInv, AbortClearsTable
<1> QED BY ProgressInit, <1>1, <1>2, PTL DEF Spec

\* While the broker answers, a stop between two ticks loses no tranche and no
\* level, after any number of restarts and with the jobs running.
THEOREM ProgressKept ==
    ASSUME {"unreachable", "lost_reply"} \cap Faults = {}
    PROVE  Spec => []IdleStopKeepsProgress
<1>1. ProgressInv /\ [Next]_vars => ProgressInv'
  BY ProgressStep
<1>2. ProgressInv => IdleStopKeepsProgress
  BY DEF ProgressInv, Saved, RestoredTable, IdleStopKeepsProgress
<1> QED BY ProgressInit, <1>1, <1>2, PTL DEF Spec

-----------------------------------------------------------------------------
(* The runner keeps the mandate.                                           *)

\* The broker gives every order an id of its own.
IdsFresh ==
    /\ \A o \in orders : o.id < nextId
    /\ \A a, b \in orders : a.id = b.id => a = b

\* Nothing but a stop takes the process down.
KeepsInv == ExposureInv /\ ProgressInv /\ IdsFresh /\ phase # "down"

\* A new process is up and has no orders.
LEMMA KeepsInit == Init => KeepsInv /\ Mandated!MandateInit
<1> SUFFICES ASSUME Init PROVE KeepsInv /\ Mandated!MandateInit
  OBVIOUS
<1>1. ExposureInv /\ ProgressInv
  BY ExposureInit, ProgressInit
<1> QED BY <1>1 DEF Init, AccountInit, KeepsInv, IdsFresh, Mandated!MandateInit

\* What a step of the runner is for its account.
KeepsMandate == [Mandated!MandateNext]_(Mandated!mandateVars)

\* A step that leaves holdings, orders and status alone is none of its.
LEMMA KeepsQuiet ==
    ASSUME UNCHANGED <<held, orders, mode>> PROVE KeepsMandate
  BY DEF KeepsMandate, Mandated!mandateVars

\* Less of one pair is a reduction, or nothing.
LEMMA KeepsReduced ==
    ASSUME TypeOK, NEW p \in Pairs, NEW left \in 0..held[p],
           held' = [held EXCEPT ![p] = left], orders' = orders, mode' = mode
    PROVE  KeepsMandate
<1>1. held \in [Pairs -> Nat]
  BY DEF TypeOK, AccountTypeOK
<1>2. CASE left = held[p]
  <2>1. held' = held
    BY <1>1, <1>2
  <2> QED BY <2>1, KeepsQuiet
<1>3. CASE left # held[p]
  <2>1. left \in 0..(held[p] - 1)
    BY <1>1, <1>3
  <2>2. Mandated!Reduce(p)
    BY <2>1 DEF Mandated!Reduce
  <2> QED BY <2>2 DEF KeepsMandate, Mandated!MandateNext
<1> QED BY <1>2, <1>3

\* A live order that goes takes no other with it.
LEMMA KeepsEnded ==
    ASSUME NEW o \in orders, orders' = orders \ {o},
           held' = held \/ held' = [held EXCEPT ![o.pair] = @ + o.units],
           mode' = mode
    PROVE  KeepsMandate
<1>1. Mandated!EndOrder(o)
  BY DEF Mandated!EndOrder, Mandated!Bought
<1> QED BY <1>1 DEF KeepsMandate, Mandated!MandateNext

\* A close of what is held, whatever the broker answers short of a fault.
LEMMA KeepsClose ==
    ASSUME Faults = {}, TypeOK, NEW p \in Pairs, ClosePosition(p)
    PROVE  KeepsMandate
<1>1. /\ held \in [Pairs -> Nat]
      /\ held' = [held EXCEPT ![p] = 0] \/ held' = held
  BY NoFault DEF ClosePosition, Reduced, ReduceRefused, ReduceResent, Unreachable,
                 account, TypeOK, AccountTypeOK
<1>2. orders' = orders /\ mode' = mode
  BY CloseFrame
<1>3. 0 \in 0..held[p]
  BY DEF TypeOK, AccountTypeOK
<1> QED BY <1>1, <1>2, <1>3, KeepsReduced, KeepsQuiet

\* A partial close sells no more than is held.
LEMMA KeepsPartial ==
    ASSUME Faults = {}, TypeOK, NEW p \in Pairs, NEW u \in Int, NEW done,
           PartialClose(p, u, done), mode' = mode
    PROVE  KeepsMandate
<1>1. /\ 0 < u /\ u <= held[p] /\ orders' = orders
      /\ held' = [held EXCEPT ![p] = held[p] - u]
  BY NoFault DEF PartialClose, Reduced, ReduceResent
<1>2. held[p] \in Nat
  BY DEF TypeOK, AccountTypeOK
<1>3. PICK left : left = held[p] - u
  OBVIOUS
<1>4. left \in 0..held[p]
  BY <1>1, <1>2, <1>3
<1>5. held' = [held EXCEPT ![p] = left]
  BY <1>1, <1>3
<1> QED BY <1>1, <1>4, <1>5, KeepsReduced

\* An order of a runner that trades, for a pair that has none, within what the
\* table leaves free, is within the mandate.
LEMMA KeepsSubmit ==
    ASSUME Faults = {}, KeepsInv, NEW p \in Pairs, NEW u \in 1..MaxUnits,
           NEW s \in BOOLEAN, p \notin DOMAIN pending, MayOrder(p),
           IF s THEN p \in DOMAIN positions /\ u <= MaxUnits - positions[p].units
                ELSE p \notin DOMAIN positions,
           Submit(p, u, s), mode \notin {"DEGRADED", "ABORTED"}, mode' = mode
    PROVE  KeepsMandate
<1>0. TypeOK /\ LiveOrdersTracked /\ IdsFresh /\ ExposureInv
  BY DEF KeepsInv, ExposureInv, OrderInv, TypeInv
<1>1. nextId \in 1..MaxOrders
  BY <1>0, NoFault, AccountAssumption
     DEF Submit, OrderAccepted, OrderFilledAtOnce, OrderResent, TypeOK, AccountTypeOK
<1>2. PICK o : o = [id |-> nextId, pair |-> p, units |-> u]
  OBVIOUS
<1>3. o \in Mandated!LimitOrder /\ o.id = nextId /\ o.pair = p /\ o.units = u
  BY <1>1, <1>2 DEF Mandated!LimitOrder
<1>4. held[p] + u <= 2 * MaxUnits
  BY <1>0, SubmitWithinCap
<1>5. \A a \in orders : a.id # nextId /\ a.pair # p
  <2>1. \A a \in orders : a.id \in Nat
    BY <1>0 DEF TypeOK, AccountTypeOK, Order, OrderId
  <2> QED BY <1>0, <1>1, <2>1 DEF IdsFresh, LiveOrdersTracked
<1>6. Mandated!MayPlace(o)
  BY <1>3, <1>4, <1>5 DEF Mandated!MayPlace
<1>7. \/ orders' = orders \cup {o} /\ held' = held
      \/ held' = [held EXCEPT ![o.pair] = @ + o.units] /\ orders' = orders
  BY <1>2, <1>3, NoFault DEF Submit, OrderAccepted, OrderFilledAtOnce, OrderResent
<1>8. Mandated!PlaceOrder(o)
  BY <1>6, <1>7 DEF Mandated!PlaceOrder, Mandated!Bought
<1> QED BY <1>3, <1>8 DEF KeepsMandate, Mandated!MandateNext

\* A step that places no order gives no id twice.
LEMMA IdsQuiet ==
    ASSUME IdsFresh, nextId' = nextId, orders' \subseteq orders
    PROVE  IdsFresh'
  BY DEF IdsFresh

\* An order gets the next id, which no other has.
LEMMA IdsSubmit ==
    ASSUME Faults = {}, TypeOK, IdsFresh, NEW p, NEW u, NEW s, Submit(p, u, s)
    PROVE  IdsFresh'
<1>1. nextId \in Nat /\ \A o \in orders : o.id \in Nat
  BY DEF TypeOK, AccountTypeOK, Order, OrderId
<1>2. nextId' = nextId + 1
  BY NoFault DEF Submit, OrderAccepted, OrderFilledAtOnce, OrderResent
<1>3. \A o \in orders' : o \in orders \/ o = [id |-> nextId, pair |-> p, units |-> u]
  BY NoFault DEF Submit, OrderAccepted, OrderFilledAtOnce, OrderResent
<1>4. \A o \in orders' : o \in orders \/ o.id = nextId
  BY <1>3
<1>5. \A o \in orders' : o.id < nextId'
  BY <1>1, <1>2, <1>4 DEF IdsFresh
<1>6. \A a, b \in orders' : a.id = b.id => a = b
  BY <1>1, <1>3 DEF IdsFresh
<1> QED BY <1>5, <1>6 DEF IdsFresh

\* Every step of a process that goes on is one of the mandate, or none.
LEMMA KeepsStep ==
    ASSUME Faults = {}, KeepsInv, [Next]_vars
    PROVE  KeepsMandate /\ IdsFresh' /\ phase' # "down"
<1>0. /\ OrderInv /\ OneOrderEach /\ VisitOnce /\ TypeOK /\ PairAtWork /\ FoundFresh
      /\ ExposureInv /\ ProgressInv /\ IdsFresh
  BY DEF KeepsInv, ExposureInv, OrderInv, TypeInv
<1>f. ~Unreachable /\ ~Stop /\ ~Restart
  BY NoFault DEF Unreachable, Stop, Restart, KeepsInv
<1>1. CASE ScaleIn
  <2>1. /\ phase = "scale" /\ phase' = "signal" /\ cur \in DOMAIN positions
        /\ cur \in Pairs /\ cur \notin DOMAIN pending /\ mode' = mode
        /\ mode \notin {"DEGRADED", "ABORTED"} /\ positions[cur].units \in Nat
    BY <1>0, <1>1 DEF ScaleIn, TypeOK, IsTable, Position, ProgressInv
  <2> DEFINE tranche == TrancheUnits(positions[cur].units)
             room == MaxUnits - positions[cur].units
             u == IF tranche > room THEN room ELSE tranche
  <2>2. Submit(cur, u, TRUE) /\ room > 0
    BY <1>1 DEF ScaleIn
  <2>3. u \in 1..MaxUnits /\ u <= room
    <3>1. tranche \in Nat \ {0}
      BY <2>1, TranchePositive
    <3>2. room \in Nat \ {0} /\ room <= MaxUnits
      BY <2>1, <2>2, RunnerAssumption
    <3> HIDE DEF tranche, room
    <3> QED BY <3>1, <3>2, RunnerAssumption
  <2> HIDE DEF u
  <2>4. MayOrder(cur)
    BY <2>1 DEF MayOrder
  <2>5. KeepsMandate
    BY <2>1, <2>2, <2>3, <2>4, KeepsSubmit
  <2>6. IdsFresh'
    BY <1>0, <2>2, IdsSubmit
  <2> QED BY <2>1, <2>5, <2>6
<1>2. CASE OpenPosition
  <2>1. /\ phase = "signal" /\ phase' # "down" /\ found = {} /\ cur \in Pairs
        /\ cur \notin DOMAIN pending /\ cur \notin DOMAIN positions /\ mode' = mode
        /\ mode \notin {"DEGRADED", "ABORTED"}
    BY <1>0, <1>2 DEF OpenPosition, EndPair, PairAtWork, VisitOnce, FoundFresh, TypeOK,
                      ProgressInv
  <2>2. PICK u \in EntrySizes : Submit(cur, u, FALSE)
    BY <1>2 DEF OpenPosition
  <2>3. u \in 1..MaxUnits
    BY RunnerAssumption
  <2>4. MayOrder(cur)
    BY <2>1 DEF MayOrder
  <2>5. KeepsMandate
    BY <2>1, <2>2, <2>3, <2>4, KeepsSubmit
  <2>6. IdsFresh'
    BY <1>0, <2>2, IdsSubmit
  <2> QED BY <2>1, <2>5, <2>6
<1>3. ASSUME NEW p \in Pairs, ClosePosition(p), phase' # "down"
      PROVE  KeepsMandate /\ IdsFresh' /\ phase' # "down"
  BY <1>0, <1>3, KeepsClose, CloseFrame, IdsQuiet
<1>4. CASE ExitPosition \/ CloseOnSignal
  <2>1. ClosePosition(cur) /\ cur \in Pairs /\ phase' # "down"
    BY <1>0, <1>4 DEF ExitPosition, CloseOnSignal, EndPair, PairAtWork
  <2> QED BY <1>3, <2>1
<1>5. ASSUME NEW p \in Pairs, AbortClose(p) \/ WeekendClose(p)
      PROVE  KeepsMandate /\ IdsFresh' /\ phase' # "down"
  <2>1. ClosePosition(p) /\ phase' = phase
    BY <1>5 DEF AbortClose, WeekendClose, tick
  <2> QED BY <1>3, <2>1 DEF KeepsInv
<1>6. CASE ScaleOut
  <2>1. /\ cur \in DOMAIN positions /\ cur \in Pairs /\ phase' = "signal" /\ mode' = mode
        /\ positions[cur] \in Position
    BY <1>0, <1>6 DEF ScaleOut, TypeOK, IsTable
  <2>2. PICK u, done : PartialClose(cur, u, done) /\ u \in Int
    <3>1. ReductionUnits(positions[cur].units, positions[cur].levels) \in Int
      BY <2>1, ReductionNat DEF Position
    <3> QED BY <1>6, <3>1 DEF ScaleOut
  <2>3. KeepsMandate
    BY <1>0, <2>1, <2>2, KeepsPartial
  <2>4. IdsFresh'
    BY <1>0, <2>2, PartialFrame, IdsQuiet
  <2> QED BY <2>1, <2>3, <2>4
<1>7. ASSUME NEW p \in Pairs, VolatilityTrim(p)
      PROVE  KeepsMandate /\ IdsFresh' /\ phase' # "down"
  <2>1. phase' = phase /\ mode' = mode
    BY <1>7 DEF VolatilityTrim
  <2>2. PICK u, done : PartialClose(p, u, done) /\ u \in Int
    BY <1>7 DEF VolatilityTrim
  <2>3. KeepsMandate
    BY <1>0, <2>1, <2>2, KeepsPartial
  <2>4. IdsFresh'
    BY <1>0, <2>2, PartialFrame, IdsQuiet
  <2> QED BY <2>1, <2>3, <2>4 DEF KeepsInv
<1>8. CASE Broker
  <2>1. mode' = mode /\ phase' = phase /\ IdsFresh'
    BY <1>0, <1>8, BrokerFrame, IdsQuiet DEF Broker, tick
  <2>2. ASSUME NEW o \in orders, Fill(o) \/ BrokerCancel(o) PROVE KeepsMandate
    BY <2>1, <2>2, KeepsEnded DEF Fill, BrokerCancel
  <2>3. ASSUME NEW p \in Pairs, StopOut(p) PROVE KeepsMandate
    <3>1. PICK left \in 0..(held[p] - 1) : held' = [held EXCEPT ![p] = left]
      BY <2>3 DEF StopOut
    <3>2. orders' = orders /\ left \in 0..held[p]
      BY <1>0, <2>3 DEF StopOut, TypeOK, AccountTypeOK
    <3> QED BY <1>0, <2>1, <3>1, <3>2, KeepsReduced
  <2> QED BY <1>8, <2>1, <2>2, <2>3 DEF Broker, BrokerStep, KeepsInv
<1>9. ASSUME NEW p \in Pairs, SweepPending(p)
      PROVE  KeepsMandate /\ IdsFresh' /\ phase' # "down"
  <2>1. mode' = mode /\ phase' # "down" /\ held' = held
    BY <1>9, <1>f DEF SweepPending, Visited, AwaitFill, CancelStale, CancelAccepted,
         CancelRefused, PromoteFill, ConfirmScaleIn, ForgetOrder, account
  <2>2. IdsFresh'
    <3>1. nextId' = nextId /\ orders' \subseteq orders
      BY <1>9, CancelFrame DEF SweepPending, AwaitFill, CancelStale, PromoteFill,
           ConfirmScaleIn, ForgetOrder, account
    <3> QED BY <1>0, <3>1, IdsQuiet
  <2>3. CASE orders' = orders
    BY <2>1, <2>2, <2>3, KeepsQuiet
  <2>4. CASE CancelAccepted(pending[p].id)
    <3>1. PICK o \in orders : o.id = pending[p].id
      BY <2>4 DEF CancelAccepted, GetPendingOrders
    <3>2. orders' = orders \ {o}
      BY <1>0, <2>4, <3>1 DEF CancelAccepted, IdsFresh
    <3> QED BY <2>1, <2>2, <3>2, KeepsEnded
  <2> QED BY <1>9, <1>f, <2>1, <2>2, <2>3, <2>4
          DEF SweepPending, AwaitFill, CancelStale, CancelRefused, PromoteFill,
              ConfirmScaleIn, ForgetOrder, account
<1>10. CASE \/ FetchPositions \/ ReconcilePositions \/ FetchPendingOrders \/ FetchOpenTrades
            \/ \E p \in Pairs : BeginPair(p) \/ SkipPair(p)
            \/ KeepPosition \/ NoScaling \/ NoTrade \/ BeginAbort \/ EndTick
            \/ StartWeekendClose \/ MarketCloses \/ MarketOpens \/ UNCHANGED vars
  <2>1. UNCHANGED <<account, mode>> /\ phase' # "down"
    BY <1>10, <1>f DEF FetchPositions, ReconcilePositions, FetchPendingOrders,
         FetchOpenTrades, StartPairs, BeginPair, SkipPair, Visited, KeepPosition, NoScaling,
         NoTrade, EndPair, BeginAbort, EndTick, StartWeekendClose, MarketCloses,
         MarketOpens, vars, tick, KeepsInv
  <2> QED BY <1>0, <2>1, KeepsQuiet, IdsQuiet DEF account
<1>11. CASE ReviewProtocol \/ FinishAbort \/ Complete
  <2>1. /\ UNCHANGED account /\ phase' # "down"
        /\ \/ mode \in Active /\ mode' \in Active \cup Over
           \/ mode = "COMPLETED" /\ mode' = "ABORTED"
           \/ mode' = mode
    BY <1>0, <1>11 DEF ReviewProtocol, FinishAbort, Complete, Active, Over, TypeOK,
         ProgressInv, tick, KeepsInv
  <2>2. KeepsMandate
    BY <2>1, KeepsQuiet DEF account, Active, Over, KeepsMandate, Mandated!MandateNext,
         Mandated!ChangeStatus
  <2> QED BY <1>0, <2>1, <2>2, IdsQuiet DEF account
<1> QED BY <1>f, <1>1, <1>2, <1>4, <1>5, <1>6, <1>7, <1>8, <1>9, <1>10, <1>11
        DEF Next, Tick, Weekend

\* In a process that goes on, with a broker that answers, every behaviour of
\* runner, jobs and broker is one of the mandate: for any number of pairs, with
\* fills, cancels and stops between any two steps, no order goes out for a pair
\* that has one, beyond the cap and one order, or after DEGRADED or an abort.
THEOREM MandateKept ==
    ASSUME Faults = {} PROVE Spec => MandateRefined
<1>1. ASSUME KeepsInv, [Next]_vars
      PROVE  KeepsInv' /\ [Mandated!MandateNext]_(Mandated!mandateVars)
  <2>1. ExposureInv' /\ ProgressInv'
    BY <1>1, ExposureStep, ProgressStep DEF KeepsInv
  <2>2. KeepsMandate /\ IdsFresh' /\ phase' # "down"
    BY <1>1, KeepsStep
  <2> QED BY <2>1, <2>2 DEF KeepsInv, KeepsMandate
<1> QED BY KeepsInit, <1>1, PTL DEF Spec, MandateRefined, Mandated!MandateSpec

=============================================================================
