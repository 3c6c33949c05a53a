----------------------- MODULE TradingRunner_proofs -----------------------
(***************************************************************************)
(* Theorems about TradingRunner, for every set of pairs, every size of     *)
(* order and every bound.                                                  *)
(***************************************************************************)
EXTENDS TradingRunner, TLAPS

-----------------------------------------------------------------------------
(* Tables.                                                                 *)

\* Writing an entry of the right kind for a pair keeps a table a table.
LEMMA PutTable ==
    ASSUME NEW T, NEW table, NEW p \in Pairs, NEW e \in T, IsTable(table, T)
    PROVE  IsTable(Put(table, p, e), T)
  BY DEF IsTable, Put

\* Removing a pair keeps a table a table.
LEMMA DropTable ==
    ASSUME NEW T, NEW table, NEW p, IsTable(table, T)
    PROVE  IsTable(Drop(table, p), T)
  BY DEF IsTable, Drop

\* The empty table is a table of any kind of entry.
LEMMA NoTableTable == ASSUME NEW T PROVE IsTable(NoTable, T)
  BY DEF IsTable, NoTable

-----------------------------------------------------------------------------
(* Sizes.                                                                  *)

\* A share of a position is a whole number of units.
LEMMA ShareNat == ASSUME NEW u \in Nat PROVE Share(u) \in Nat
<1>1. ScalePercent \in Nat
  BY ScaleAssumption
<1>2. u * ScalePercent \in Nat
  BY <1>1
<1> DEFINE n == u * ScalePercent
<1>3. n \in Nat => n \div 100 \in Nat
  <2> HIDE DEF n
  <2> QED OBVIOUS
<1> QED BY <1>2, <1>3 DEF Share

\* A tranche and a reduction are at least one unit.
LEMMA TranchePositive == ASSUME NEW u \in Nat PROVE TrancheUnits(u) \in Nat \ {0}
  BY ShareNat DEF TrancheUnits, AtLeastOne

\* What a scale-out sells is a natural number.
LEMMA ReductionNat ==
    ASSUME NEW u \in Nat, NEW l \in Nat PROVE ReductionUnits(u, l) \in Nat
  BY ShareNat DEF ReductionUnits, AtLeastOne

-----------------------------------------------------------------------------
(* The reconciler.                                                         *)

\* The repaired table has exactly the managed pairs the broker holds, with
\* the broker's units; a known position keeps its tranche count and the levels
\* taken, an unknown one starts as a single tranche.
THEOREM ReconciledMatchesBroker ==
    ASSUME IsTable(positions, Position), NEW broker, IsTable(broker, Nat)
    PROVE  LET table == Reconciled(positions, broker, Pairs)
           IN  /\ IsTable(table, Position)
               /\ DOMAIN table = DOMAIN broker
               /\ \A p \in DOMAIN table : table[p].units = broker[p]
               /\ \A p \in DOMAIN table \cap DOMAIN positions :
                      /\ table[p].tranches = positions[p].tranches
                      /\ table[p].levels = positions[p].levels
               /\ \A p \in DOMAIN table \ DOMAIN positions :
                      table[p] = Adopted(broker[p])
<1> DEFINE result == Compare(positions, broker, Pairs)
           fixed  == ApplyFixes(positions, result, broker)
<1>1. /\ result.orphanedBroker = DOMAIN broker \ DOMAIN positions
      /\ result.orphanedInternal = DOMAIN positions \ DOMAIN broker
      /\ result.mismatched = {p \in DOMAIN broker \cap DOMAIN positions :
                                  positions[p].units # broker[p]}
  BY DEF IsTable, Compare
<1>2. DOMAIN fixed = DOMAIN broker
  <2> HIDE DEF result
  <2> QED BY <1>1 DEF ApplyFixes
<1>3. ASSUME NEW p \in DOMAIN broker
      PROVE  /\ fixed[p] \in Position
             /\ fixed[p].units = broker[p]
             /\ p \in DOMAIN positions =>
                   /\ fixed[p].tranches = positions[p].tranches
                   /\ fixed[p].levels = positions[p].levels
             /\ p \notin DOMAIN positions => fixed[p] = Adopted(broker[p])
  <2>0. broker[p] \in Nat
    BY <1>3 DEF IsTable
  <2>1. CASE p \notin DOMAIN positions
    <3>1. fixed[p] = Adopted(broker[p])
      <4> HIDE DEF result
      <4> QED BY <1>1, <2>1, <1>3 DEF ApplyFixes
    <3> QED BY <3>1, <2>0, <2>1 DEF Adopted, Position
  <2>2. CASE p \in DOMAIN positions
    <3>1. positions[p] \in Position
      BY <2>2 DEF IsTable
    <3>2. fixed[p] = IF positions[p].units # broker[p]
                     THEN [positions[p] EXCEPT !.units = broker[p]]
                     ELSE positions[p]
      <4> HIDE DEF result
      <4> QED BY <1>1, <2>2, <1>3 DEF ApplyFixes
    <3> HIDE DEF fixed
    <3> QED BY <3>1, <3>2, <2>0, <2>2 DEF Position
  <2> QED BY <2>1, <2>2
<1>4. IsTable(fixed, Position)
  <2>1. fixed = [p \in DOMAIN fixed |-> fixed[p]]
    BY DEF ApplyFixes
  <2> HIDE DEF fixed
  <2> QED BY <1>2, <1>3, <2>1 DEF IsTable
<1>5. CASE IsClean(result)
  <2>1. DOMAIN positions = DOMAIN broker
    BY <1>1, <1>5 DEF IsClean
  <2>2. \A p \in DOMAIN positions : positions[p].units = broker[p]
    BY <1>1, <1>5, <2>1 DEF IsClean
  <2>3. Reconciled(positions, broker, Pairs) = positions
    BY <1>5 DEF Reconciled
  <2>4. \A p \in DOMAIN positions \ DOMAIN positions :
            positions[p] = Adopted(broker[p])
    OBVIOUS
  <2>5. \A p \in DOMAIN positions \cap DOMAIN positions :
            /\ positions[p].tranches = positions[p].tranches
            /\ positions[p].levels = positions[p].levels
    OBVIOUS
  <2>6. \A p \in DOMAIN positions : positions[p].units = broker[p]
    BY <2>2
  <2> QED BY <2>1, <2>3, <2>4, <2>5, <2>6, Zenon
<1>6. CASE ~IsClean(result)
  <2>1. Reconciled(positions, broker, Pairs) = fixed
    BY <1>6 DEF Reconciled
  <2> HIDE DEF fixed
  <2> QED BY <1>2, <1>3, <1>4, <2>1
<1> QED BY <1>5, <1>6

-----------------------------------------------------------------------------
(* The account keeps its type under every request and every broker step.   *)

\* A fault takes one from a budget that has some left.
LEMMA FaultType ==
    ASSUME AccountTypeOK, NEW kind, Fault(kind) PROVE budget' \in 0..MaxFaults
  BY AccountAssumption DEF AccountTypeOK, Fault

\* An accepted order keeps the account's types.
LEMMA OrderAcceptedType ==
    ASSUME AccountTypeOK, NEW p \in Pairs, NEW u \in Nat \ {0}, OrderAccepted(p, u)
    PROVE  AccountTypeOK' /\ nextId \in OrderId
  BY AccountAssumption DEF AccountTypeOK, OrderAccepted, OrderId, Order

\* So does an order that fills at once.
LEMMA OrderFilledType ==
    ASSUME AccountTypeOK, NEW p \in Pairs, NEW u \in Nat \ {0}, OrderFilledAtOnce(p, u)
    PROVE  AccountTypeOK'
  BY AccountAssumption DEF AccountTypeOK, OrderFilledAtOnce, OrderId

\* So do the copies of an order that is sent again.
LEMMA OrderResentType ==
    ASSUME AccountTypeOK, NEW p \in Pairs, NEW u \in Nat \ {0},
           NEW n \in 1..MaxRetries, OrderResent(p, u, n)
    PROVE  AccountTypeOK' /\ nextId + n - 1 \in OrderId
<1>1. nextId \in 1..(MaxOrders + 1) /\ MaxRetries \in Nat /\ MaxOrders \in Nat
  BY AccountAssumption DEF AccountTypeOK
<1>2. \A i \in nextId..(nextId + n - 1) : i \in OrderId
  BY <1>1 DEF OrderResent, OrderId
<1>3. \A i \in nextId..(nextId + n - 1) : [id |-> i, pair |-> p, units |-> u] \in Order
  BY <1>2 DEF Order
<1>4. orders' \subseteq Order
  BY <1>3 DEF OrderResent, AccountTypeOK
<1>5. nextId' \in 1..(MaxOrders + 1) /\ nextId + n - 1 \in OrderId
  BY <1>1 DEF OrderResent, OrderId
<1>6. budget' \in 0..MaxFaults
  BY FaultType DEF OrderResent
<1> QED BY <1>4, <1>5, <1>6 DEF OrderResent, AccountTypeOK

\* So does a cancel, whatever its outcome.
LEMMA CancelType ==
    ASSUME AccountTypeOK, NEW id, CancelAccepted(id) \/ CancelRefused(id) \/ Unreachable
    PROVE  AccountTypeOK'
  BY FaultType
     DEF AccountTypeOK, CancelAccepted, CancelRefused, Unreachable, account

\* So does a close.
LEMMA ReducedType ==
    ASSUME AccountTypeOK, NEW p \in Pairs, NEW u \in Nat, Reduced(p, u)
    PROVE  AccountTypeOK'
<1>1. held[p] - u \in Nat
  BY DEF Reduced, AccountTypeOK
<1> QED BY <1>1 DEF Reduced, AccountTypeOK

\* So does a close that is executed several times.
LEMMA ReduceResentType ==
    ASSUME AccountTypeOK, NEW p \in Pairs, NEW u \in Nat, NEW n \in Nat,
           ReduceResent(p, u, n)
    PROVE  AccountTypeOK'
<1>1. n * u \in Nat
  OBVIOUS
<1>2. held[p] \in Nat /\ n * u <= held[p]
  BY DEF ReduceResent, AccountTypeOK
<1>3. held[p] - n * u \in Nat
  BY <1>1, <1>2
<1>4. held' \in [Pairs -> Nat]
  BY <1>3 DEF ReduceResent, AccountTypeOK
<1>5. budget' \in 0..MaxFaults
  BY FaultType DEF ReduceResent
<1> QED BY <1>4, <1>5 DEF ReduceResent, AccountTypeOK

\* So does what the broker does by itself.
LEMMA BrokerStepType == ASSUME AccountTypeOK, BrokerStep PROVE AccountTypeOK'
<1>1. ASSUME NEW o \in orders, Fill(o) PROVE AccountTypeOK'
  BY <1>1 DEF AccountTypeOK, Fill, Order
<1>2. ASSUME NEW o \in orders, BrokerCancel(o) PROVE AccountTypeOK'
  BY <1>2 DEF AccountTypeOK, BrokerCancel
<1>3. ASSUME NEW p \in Pairs, StopOut(p) PROVE AccountTypeOK'
  BY <1>3 DEF AccountTypeOK, StopOut
<1> QED BY <1>1, <1>2, <1>3 DEF BrokerStep

-----------------------------------------------------------------------------
(* Type correctness.                                                       *)

\* The part of TypeOK a request to the broker can touch.
Tables == /\ IsTable(positions, Position)
          /\ IsTable(pending, Tracked)
          /\ IsTable(stored, Row)

\* _pending_orders stays a table when an order is tracked.
LEMMA TrackType ==
    ASSUME Tables, NEW p \in Pairs, NEW u \in Nat \ {0}, NEW s \in BOOLEAN,
           NEW id \in OrderId, Track(p, u, s, id)
    PROVE  IsTable(pending', Tracked)
<1>1. [id |-> id, units |-> u, ticks |-> 0, scaleIn |-> s] \in Tracked
  BY DEF Tracked
<1> QED BY <1>1, PutTable DEF Track, Tables

\* A merged tranche leaves a position.
LEMMA WithTrancheType ==
    ASSUME NEW position \in Position, NEW u \in Nat
    PROVE  WithTranche(position, u) \in Position
  BY DEF WithTranche, Position

\* A scale-out of fewer units than held leaves a position.
LEMMA ReductionType ==
    ASSUME NEW position \in Position, NEW u \in Nat, u < position.units
    PROVE  Reduction(position, u) \in Position
  BY DEF Reduction, Position

\* _strategy_positions stays a table when a fill is promoted.
LEMMA PromotedType ==
    ASSUME Tables, NEW p \in Pairs, NEW u \in Nat \ {0}, NEW s \in BOOLEAN
    PROVE  IsTable(Promoted(p, u, s), Position)
<1> DEFINE new == [units |-> u, tranches |-> 1, levels |-> 0, managed |-> TRUE]
<1>1. new \in Position
  BY DEF Position
<1>2. IsTable(Put(positions, p, new), Position)
  BY <1>1, PutTable DEF Tables
<1>3. ASSUME p \in DOMAIN positions
      PROVE  IsTable([positions EXCEPT ![p] = WithTranche(@, u)], Position)
  <2>1. positions[p] \in Position
    BY <1>3 DEF Tables, IsTable
  <2>2. WithTranche(positions[p], u) \in Position
    BY <2>1, WithTrancheType
  <2> QED BY <2>2, <1>3 DEF Tables, IsTable
<1> QED BY <1>2, <1>3 DEF Promoted

\* Every outcome of submit_limit_order keeps the types of both sides.
LEMMA SubmitType ==
    ASSUME AccountTypeOK, Tables, NEW p \in Pairs, NEW u \in Nat \ {0},
           NEW s \in BOOLEAN, Submit(p, u, s)
    PROVE  /\ AccountTypeOK'
           /\ IsTable(positions', Position)
           /\ IsTable(pending', Tracked)
<1>1. CASE OrderAccepted(p, u) /\ Track(p, u, s, nextId) /\ UNCHANGED positions
  BY <1>1, OrderAcceptedType, TrackType DEF Tables
<1>2. CASE OrderFilledAtOnce(p, u) /\ positions' = Promoted(p, u, s) /\ UNCHANGED pending
  BY <1>2, OrderFilledType, PromotedType DEF Tables
<1>3. ASSUME NEW n \in 1..MaxRetries, OrderResent(p, u, n), UNCHANGED positions,
             \/ UNCHANGED pending
             \/ n > 1 /\ Track(p, u, s, nextId + n - 1)
      PROVE  /\ AccountTypeOK'
             /\ IsTable(positions', Position)
             /\ IsTable(pending', Tracked)
  BY <1>3, OrderResentType, TrackType DEF Tables
<1> QED BY <1>1, <1>2, <1>3 DEF Submit

\* So does every outcome of _close_position.
LEMMA CloseType ==
    ASSUME AccountTypeOK, Tables, NEW p \in Pairs, ClosePosition(p)
    PROVE  /\ AccountTypeOK'
           /\ IsTable(positions', Position)
           /\ IsTable(stored', Row)
<1>1. held[p] \in Nat
  BY DEF AccountTypeOK
<1>2. /\ Reduced(p, held[p]) => AccountTypeOK'
      /\ ReduceRefused(p, 0) => AccountTypeOK'
      /\ ReduceResent(p, held[p], 1) => AccountTypeOK'
      /\ Unreachable => AccountTypeOK'
  <2>1. ReduceRefused(p, 0) => AccountTypeOK'
    BY DEF ReduceRefused, AccountTypeOK, account
  <2>2. Unreachable => AccountTypeOK'
    BY CancelType
  <2> QED BY <1>1, <2>1, <2>2, ReducedType, ReduceResentType
<1>3. /\ IsTable(Drop(positions, p), Position)
      /\ IsTable(Drop(stored, p), Row)
  BY DropTable DEF Tables
<1> QED BY <1>2, <1>3 DEF ClosePosition, Tables

\* So does every outcome of a partial close, if what is recorded is a table.
LEMMA PartialType ==
    ASSUME AccountTypeOK, Tables, NEW p \in Pairs, NEW u \in Nat, NEW done,
           IsTable(done, Position), PartialClose(p, u, done)
    PROVE  AccountTypeOK' /\ IsTable(positions', Position)
<1>1. CASE Reduced(p, u) /\ positions' = done
  BY <1>1, ReducedType
<1>2. ASSUME NEW n \in 1..MaxRetries, ReduceResent(p, u, n),
             UNCHANGED positions \/ (n > 1 /\ positions' = done)
      PROVE  AccountTypeOK' /\ IsTable(positions', Position)
  <2>1. n \in Nat
    BY AccountAssumption
  <2> QED BY <1>2, <2>1, ReduceResentType DEF Tables
<1> QED BY <1>1, <1>2 DEF PartialClose

\* While _process_pair runs there is a pair it works on.
PairAtWork == phase \in {"exit", "scale", "signal"} => cur \in Pairs

\* The sweep visits pairs whose orders are tracked: nothing else removes one.
SweepTracked == phase = "sweep" => todo \subseteq DOMAIN pending

TypeInv == TypeOK /\ PairAtWork /\ SweepTracked

\* The initial state is of the types.
LEMMA TypeInit == Init => TypeInv
<1> SUFFICES ASSUME Init PROVE TypeInv
  OBVIOUS
<1>1. AccountTypeOK
  BY AccountAssumption DEF Init, AccountInit, AccountTypeOK
<1>2. \A T : IsTable(NoTable, T)
  BY NoTableTable
<1> QED BY <1>1, <1>2 DEF Init, TypeInv, TypeOK, PairAtWork, SweepTracked, NoReplies, Phases,
                          Active

\* The reply of the positions query is a table of units.
LEMMA GetAllPositionsType == ASSUME AccountTypeOK PROVE IsTable(GetAllPositions, Nat)
  BY DEF AccountTypeOK, GetAllPositions, IsTable

\* The steps of the tick up to the sweep keep the types.
LEMMA TypeReconcile ==
    ASSUME TypeInv,
           \/ FetchPositions \/ ReconcilePositions
           \/ FetchPendingOrders \/ FetchOpenTrades
    PROVE  TypeInv'
<1> USE DEF TypeInv, TypeOK, PairAtWork, SweepTracked, Phases, memory, job, StartPairs
<1>1. CASE FetchPositions
  <2>1. AccountTypeOK'
    BY <1>1, CancelType DEF FetchPositions, AccountTypeOK, account
  <2>2. IsTable(GetAllPositions, Nat) /\ Pairs \subseteq Pairs
    BY GetAllPositionsType
  <2> QED BY <1>1, <2>1, <2>2 DEF FetchPositions
<1>2. CASE ReconcilePositions
  <2>1. AccountTypeOK'
    BY <1>2 DEF ReconcilePositions, AccountTypeOK, account
  <2>2. IsTable(positions', Position)
    BY <1>2, ReconciledMatchesBroker DEF ReconcilePositions
  <2>3. IsTable(NoTable, Nat)
    BY NoTableTable
  <2> QED BY <1>2, <2>1, <2>2, <2>3 DEF ReconcilePositions
<1>3. CASE FetchPendingOrders
  <2>1. AccountTypeOK'
    BY <1>3, CancelType DEF FetchPendingOrders, AccountTypeOK, account
  <2>2. GetPendingOrders \subseteq OrderId
    BY DEF GetPendingOrders, AccountTypeOK, Order
  <2> QED BY <1>3, <2>1, <2>2 DEF FetchPendingOrders
<1>4. CASE FetchOpenTrades
  <2>1. AccountTypeOK'
    BY <1>4, CancelType DEF FetchOpenTrades, AccountTypeOK, account
  <2>2. DOMAIN pending \subseteq Pairs /\ GetOpenTrades \subseteq Pairs
    BY DEF IsTable, GetOpenTrades
  <2> QED BY <1>4, <2>1, <2>2 DEF FetchOpenTrades
<1> QED BY <1>1, <1>2, <1>3, <1>4

\* The sweep over the pending orders keeps the types.
LEMMA TypeSweep ==
    ASSUME TypeInv, NEW p \in Pairs, SweepPending(p) PROVE TypeInv'
<1>0. /\ p \in DOMAIN pending /\ todo \subseteq DOMAIN pending
      /\ pending[p] \in Tracked
      /\ pending[p].units \in Nat \ {0} /\ pending[p].scaleIn \in BOOLEAN
  BY DEF SweepPending, SweepTracked, TypeInv, TypeOK, IsTable, Tracked
<1>t. Tables /\ AccountTypeOK
  BY DEF TypeInv, TypeOK, Tables
<1>1. AccountTypeOK'
  BY <1>t, CancelType
     DEF SweepPending, AwaitFill, CancelStale, PromoteFill, ConfirmScaleIn, ForgetOrder,
         AccountTypeOK, account
<1>2. IsTable(positions', Position)
  <2>1. CASE PromoteFill(p)
    BY <2>1, <1>0, <1>t, PromotedType DEF PromoteFill
  <2>2. CASE ConfirmScaleIn(p)
    <3>1. positions[p] \in Position /\ p \in DOMAIN positions
      BY <2>2, <1>t DEF ConfirmScaleIn, Tables, IsTable
    <3>2. WithTranche(positions[p], 0) \in Position
      BY <3>1, WithTrancheType
    <3> QED BY <2>2, <3>1, <3>2, <1>t DEF ConfirmScaleIn, Tables, IsTable
  <2> QED BY <1>t, <2>1, <2>2
          DEF SweepPending, AwaitFill, CancelStale, ForgetOrder, Tables
<1>3. IsTable(pending', Tracked)
  <2>1. CASE AwaitFill(p)
    <3>1. [pending[p] EXCEPT !.ticks = @ + 1] \in Tracked
      BY <1>0, <2>1 DEF Tracked
    <3> QED BY <2>1, <3>1, <1>t DEF AwaitFill, Tables, IsTable
  <2>2. CASE CancelStale(p) \/ PromoteFill(p) \/ ConfirmScaleIn(p) \/ ForgetOrder(p)
    BY <2>2, <1>t, DropTable
       DEF CancelStale, PromoteFill, ConfirmScaleIn, ForgetOrder, Tables
  <2> QED BY <2>1, <2>2 DEF SweepPending
<1>4. todo' \subseteq Pairs /\ phase' \in Phases /\ (phase' = "pairs" \/ phase' = phase)
  BY DEF SweepPending, Visited, TypeInv, TypeOK, Phases
<1>5. IsTable(NoTable, Nat)
  BY NoTableTable
<1>6. /\ seen'.orders \subseteq OrderId /\ seen'.trades \subseteq Pairs
      /\ IsTable(seen'.positions, Nat)
      /\ seen' = [positions |-> seen'.positions, orders |-> seen'.orders,
                  trades |-> seen'.trades]
  BY <1>5 DEF SweepPending, NoReplies, TypeInv, TypeOK
<1>7. phase' = "sweep" => todo' \subseteq DOMAIN pending'
  <2>1. phase' = "sweep" => todo' = todo \ {p}
    BY DEF SweepPending, Visited
  <2>2. DOMAIN pending \ {p} \subseteq DOMAIN pending'
    <3>1. AwaitFill(p) => DOMAIN pending' = DOMAIN pending
      BY DEF AwaitFill
    <3> QED BY <3>1
       DEF SweepPending, CancelStale, PromoteFill, ConfirmScaleIn, ForgetOrder, Drop
  <2> QED BY <1>0, <2>1, <2>2
<1> QED BY <1>1, <1>2, <1>3, <1>4, <1>6, <1>7
        DEF SweepPending, TypeInv, TypeOK, PairAtWork, SweepTracked, job

\* The visit of a pair keeps the types.
LEMMA TypePair ==
    ASSUME TypeInv,
           \/ \E p \in Pairs : BeginPair(p) \/ SkipPair(p)
           \/ KeepPosition \/ ExitPosition
           \/ NoScaling \/ ScaleIn \/ ScaleOut
           \/ NoTrade \/ OpenPosition \/ CloseOnSignal
    PROVE  TypeInv'
<1>t. Tables /\ AccountTypeOK
  BY DEF TypeInv, TypeOK, Tables
<1>c. ClosePosition(cur) => UNCHANGED <<pending, mode>>
  BY DEF ClosePosition
<1> USE DEF TypeInv, TypeOK, PairAtWork, SweepTracked, Phases, memory, job
<1>1. ASSUME NEW p \in Pairs, BeginPair(p) PROVE TypeInv'
  <2>1. AccountTypeOK'
    BY <1>1 DEF BeginPair, AccountTypeOK, account
  <2> QED BY <1>1, <2>1 DEF BeginPair
<1>2. ASSUME NEW p \in Pairs, SkipPair(p) PROVE TypeInv'
  <2>1. AccountTypeOK'
    BY <1>2 DEF SkipPair, AccountTypeOK, account
  <2> QED BY <1>2, <2>1 DEF SkipPair, Visited
<1>3. CASE KeepPosition
  <2>1. AccountTypeOK'
    BY <1>3 DEF KeepPosition, AccountTypeOK, account
  <2> QED BY <1>3, <2>1 DEF KeepPosition
<1>4. CASE ExitPosition
  <2>1. /\ AccountTypeOK' /\ IsTable(positions', Position) /\ IsTable(stored', Row)
    BY <1>4, <1>t, CloseType DEF ExitPosition
  <2> QED BY <1>4, <1>c, <2>1 DEF ExitPosition, EndPair
<1>5. CASE NoScaling
  <2>1. AccountTypeOK'
    BY <1>5 DEF NoScaling, AccountTypeOK, account
  <2> QED BY <1>5, <2>1 DEF NoScaling
<1>6. CASE ScaleIn
  <2>1. positions[cur].units \in Nat /\ cur \in Pairs
    BY <1>6 DEF ScaleIn, IsTable, Position
  <2> DEFINE tranche == TrancheUnits(positions[cur].units)
             room == MaxUnits - positions[cur].units
             u == IF tranche > room THEN room ELSE tranche
  <2>2. Submit(cur, u, TRUE) /\ room > 0
    BY <1>6 DEF ScaleIn
  <2>u. u \in Nat \ {0}
    <3>1. tranche \in Nat \ {0}
      BY <2>1, TranchePositive
    <3>2. room \in Nat \ {0}
      BY <2>1, <2>2, RunnerAssumption
    <3> HIDE DEF tranche, room
    <3> QED BY <3>1, <3>2
  <2> HIDE DEF u
  <2>3. AccountTypeOK' /\ IsTable(positions', Position) /\ IsTable(pending', Tracked)
    BY <1>t, <2>1, <2>2, <2>u, SubmitType
  <2> QED BY <1>6, <2>3 DEF ScaleIn
<1>7. CASE ScaleOut
  <2>1. /\ cur \in DOMAIN positions /\ cur \in Pairs /\ positions[cur] \in Position
        /\ positions[cur].units \in Nat /\ positions[cur].levels \in Nat
    BY <1>7 DEF ScaleOut, IsTable, Position
  <2>2. PICK u \in Nat : /\ u < positions[cur].units
                         /\ PartialClose(cur, u, [positions EXCEPT ![cur] = Reduction(@, u)])
    BY <1>7, <2>1, ReductionNat DEF ScaleOut
  <2>3. IsTable([positions EXCEPT ![cur] = Reduction(@, u)], Position)
    <3>1. Reduction(positions[cur], u) \in Position
      BY <2>1, <2>2, ReductionType
    <3> QED BY <2>1, <3>1 DEF IsTable
  <2>4. AccountTypeOK' /\ IsTable(positions', Position)
    BY <1>t, <2>1, <2>2, <2>3, PartialType
  <2> QED BY <1>7, <2>4 DEF ScaleOut
<1>8. CASE NoTrade
  <2>1. AccountTypeOK'
    BY <1>8 DEF NoTrade, AccountTypeOK, account
  <2> QED BY <1>8, <2>1 DEF NoTrade, EndPair
<1>9. CASE OpenPosition
  <2>1. cur \in Pairs
    BY <1>9 DEF OpenPosition
  <2>2. PICK u \in EntrySizes : Submit(cur, u, FALSE)
    BY <1>9 DEF OpenPosition
  <2>u. u \in Nat \ {0}
    BY RunnerAssumption
  <2>3. AccountTypeOK' /\ IsTable(positions', Position) /\ IsTable(pending', Tracked)
    BY <1>t, <2>1, <2>2, <2>u, SubmitType
  <2> QED BY <1>9, <2>3 DEF OpenPosition, EndPair
<1>10. CASE CloseOnSignal
  <2>1. cur \in Pairs
    BY <1>10 DEF CloseOnSignal
  <2>2. /\ AccountTypeOK' /\ IsTable(positions', Position) /\ IsTable(stored', Row)
    BY <1>10, <1>t, <2>1, CloseType DEF CloseOnSignal
  <2> QED BY <1>10, <1>c, <2>2 DEF CloseOnSignal, EndPair
<1> QED BY <1>1, <1>2, <1>3, <1>4, <1>5, <1>6, <1>7, <1>8, <1>9, <1>10

\* The end of the tick keeps the types.
LEMMA TypeEnd ==
    ASSUME TypeInv,
           \/ ReviewProtocol \/ BeginAbort \/ FinishAbort
           \/ \E p \in Pairs : AbortClose(p) \/ VolatilityTrim(p)
           \/ EndTick
    PROVE  TypeInv'
<1>t. Tables /\ AccountTypeOK
  BY DEF TypeInv, TypeOK, Tables
<1> USE DEF TypeInv, TypeOK, PairAtWork, SweepTracked, Phases, memory, job
<1>1. CASE ReviewProtocol
  <2>1. AccountTypeOK'
    BY <1>1 DEF ReviewProtocol, AccountTypeOK, account
  <2> QED BY <1>1, <2>1 DEF ReviewProtocol, Active, IsTable
<1>2. CASE BeginAbort
  <2>1. AccountTypeOK'
    BY <1>2 DEF BeginAbort, AccountTypeOK, account
  <2> QED BY <1>2, <2>1 DEF BeginAbort, IsTable
<1>3. CASE FinishAbort
  <2>1. AccountTypeOK'
    BY <1>3 DEF FinishAbort, AccountTypeOK, account
  <2> QED BY <1>3, <2>1 DEF FinishAbort, Over
<1>4. ASSUME NEW p \in Pairs, AbortClose(p) PROVE TypeInv'
  <2>1. /\ AccountTypeOK' /\ IsTable(positions', Position) /\ IsTable(stored', Row)
    BY <1>4, <1>t, CloseType DEF AbortClose
  <2>2. UNCHANGED <<pending, mode>>
    BY <1>4 DEF AbortClose, ClosePosition
  <2> QED BY <1>4, <2>1, <2>2 DEF AbortClose
<1>5. ASSUME NEW p \in Pairs, VolatilityTrim(p) PROVE TypeInv'
  <2>1. /\ p \in DOMAIN positions /\ positions[p] \in Position
        /\ positions[p].units \in Nat
    BY <1>5 DEF VolatilityTrim, IsTable, Position
  <2>2. PICK u \in 1..(positions[p].units - 1) :
             PartialClose(p, u, [positions EXCEPT ![p].units = @ - u])
    BY <1>5 DEF VolatilityTrim
  <2>3. u \in Nat /\ positions[p].units - u \in Nat
    BY <2>1
  <2>4. IsTable([positions EXCEPT ![p].units = @ - u], Position)
    <3>1. [positions[p] EXCEPT !.units = @ - u] \in Position
      BY <2>1, <2>3 DEF Position
    <3> QED BY <2>1, <3>1 DEF IsTable
  <2>5. AccountTypeOK' /\ IsTable(positions', Position)
    BY <1>t, <2>2, <2>3, <2>4, PartialType
  <2> QED BY <1>5, <2>5 DEF VolatilityTrim
<1>6. CASE EndTick
  <2>1. AccountTypeOK'
    BY <1>6 DEF EndTick, AccountTypeOK, account
  <2>2. \A p \in DOMAIN positions :
            [tranches |-> positions[p].tranches, levels |-> positions[p].levels] \in Row
    BY DEF IsTable, Position, Row
  <2>3. IsTable(stored', Row)
    BY <1>6, <2>2 DEF EndTick, IsTable
  <2> QED BY <1>6, <2>1, <2>3 DEF EndTick
<1> QED BY <1>1, <1>2, <1>3, <1>4, <1>5, <1>6

\* What _sync_positions restores is a table.
LEMMA RestoredType ==
    ASSUME TypeOK
    PROVE  /\ IsTable(RestoredTable, Position)
           /\ IsTable([p \in DOMAIN GetAllPositions |-> Adopted(held[p])], Position)
<1>1. DOMAIN GetAllPositions \subseteq Pairs /\ \A p \in Pairs : held[p] \in Nat
  BY DEF GetAllPositions, TypeOK, AccountTypeOK
<1>2. \A p \in DOMAIN stored : stored[p].tranches \in Nat /\ stored[p].levels \in Nat
  BY DEF TypeOK, IsTable, Row
<1>3. \A p \in DOMAIN GetAllPositions : RestoredTable[p] \in Position
  BY <1>1, <1>2 DEF RestoredTable, Position
<1>4. \A p \in DOMAIN GetAllPositions : Adopted(held[p]) \in Position
  BY <1>1 DEF Adopted, Position
<1> QED BY <1>1, <1>3, <1>4 DEF RestoredTable, IsTable

\* The weekend job, the broker, the end and the start of the process do too.
LEMMA TypeOthers ==
    ASSUME TypeInv, Weekend \/ Complete \/ Broker \/ Stop \/ Restart PROVE TypeInv'
<1>t. Tables /\ AccountTypeOK /\ TypeOK
  BY DEF TypeInv, TypeOK, Tables
<1> USE DEF TypeInv, TypeOK, PairAtWork, SweepTracked, Phases, Active, Over, memory, job,
           tick
<1>1. CASE StartWeekendClose \/ MarketCloses \/ MarketOpens \/ Complete
  <2>1. AccountTypeOK'
    BY <1>1 DEF StartWeekendClose, MarketCloses, MarketOpens, Complete, AccountTypeOK,
                account
  <2> QED BY <1>1, <2>1 DEF StartWeekendClose, MarketCloses, MarketOpens, Complete,
                            Active, Over, IsTable
<1>2. ASSUME NEW p \in Pairs, WeekendClose(p) PROVE TypeInv'
  <2>1. /\ AccountTypeOK' /\ IsTable(positions', Position) /\ IsTable(stored', Row)
    BY <1>2, <1>t, CloseType DEF WeekendClose
  <2>2. UNCHANGED <<pending, mode>>
    BY <1>2 DEF WeekendClose, ClosePosition
  <2> QED BY <1>2, <2>1, <2>2 DEF WeekendClose
<1>3. CASE Broker
  <2>1. AccountTypeOK'
    BY <1>3, <1>t, BrokerStepType DEF Broker
  <2> QED BY <1>3, <2>1 DEF Broker
<1>4. CASE Stop
  <2>1. AccountTypeOK'
    BY <1>4, <1>t, FaultType DEF Stop, AccountTypeOK, account
  <2>2. \A T : IsTable(NoTable, T)
    BY NoTableTable
  <2> QED BY <1>4, <2>1, <2>2 DEF Stop, NoReplies
<1>5. CASE Restart
  <2>1. AccountTypeOK'
    BY <1>5, <1>t, CancelType DEF Restart, AccountTypeOK, account
  <2>2. IsTable(positions', Position)
    BY <1>5, <1>t, RestoredType DEF Restart, Tables
  <2> QED BY <1>5, <2>1, <2>2 DEF Restart
<1> QED BY <1>1, <1>2, <1>3, <1>4, <1>5 DEF Weekend

\* A stuttering step keeps the type invariant.
LEMMA TypeStutter == ASSUME TypeInv, UNCHANGED vars PROVE TypeInv'
  BY DEF TypeInv, TypeOK, PairAtWork, SweepTracked, AccountTypeOK, vars, account,
         memory, tick, job

\* Every step keeps the type invariant, one lemma per group of actions.
LEMMA TypeStep == ASSUME TypeInv, [Next]_vars PROVE TypeInv'
<1>1. CASE Tick
  BY <1>1, TypeReconcile, TypeSweep, TypePair, TypeEnd DEF Tick
<1> QED BY <1>1, TypeOthers, TypeStutter DEF Next

\* Type correctness: every behaviour of the runner and the account keeps every
\* variable in its type, with faults, restarts and the weekend job.
THEOREM TypeCorrect == Spec => []TypeOK
<1>1. Spec => []TypeInv
  BY TypeInit, TypeStep, PTL DEF Spec
<1>2. TypeInv => TypeOK
  BY DEF TypeInv
<1> QED BY <1>1, <1>2, PTL

=============================================================================
