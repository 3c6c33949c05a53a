---------------------------- MODULE OandaAccount ----------------------------
(***************************************************************************)
(* The OANDA account as broker/oanda.py sees it.  The account itself is    *)
(* outside the repository: its state is modelled from the fields the       *)
(* adapter reads and the requests it sends.                                *)
(*                                                                         *)
(*  - A limit order is good till cancelled (submit_limit_order passes      *)
(*    time_in_force="GTC"): it stays until it fills, is cancelled by a     *)
(*    request, or is cancelled by the broker.  It may fill at any moment.  *)
(*  - Positions are netted per pair; only longs are ever opened.           *)
(*  - A stop-loss closes some or all of the trades of a pair by itself.    *)
(*                                                                         *)
(* Every request goes through _retry: up to MaxRetries attempts on any     *)
(* error, then None.  A request whose answer is lost was executed, and is  *)
(* sent again: the broker has no request id to recognise it by.            *)
(*                                                                         *)
(* Faults names the failures of the environment a behaviour may contain    *)
(* and budget how many are left.                                           *)
(***************************************************************************)
EXTENDS Integers, FiniteSets

CONSTANTS Pairs,        \* currency pairs the account trades
          MaxOrders,    \* bound: order ids the broker hands out
          MaxRetries,   \* MAX_RETRIES
          BrokerActs,   \* what the broker does by itself: "stop", "cancel"
          Faults,       \* "unreachable", "lost_reply", "restart"
          MaxFaults     \* bound: faults in one behaviour

ASSUME AccountAssumption ==
    /\ MaxOrders \in Nat
    /\ MaxRetries \in Nat \ {0}
    /\ BrokerActs \subseteq {"stop", "cancel"}
    /\ Faults \subseteq {"unreachable", "lost_reply", "restart"}
    /\ MaxFaults \in Nat

VARIABLES held,     \* units of each pair in open trades
          orders,   \* limit orders that are pending at the broker
          filled,   \* ids of the orders that have filled
          nextId,   \* the id the next order gets
          budget    \* faults left

account == <<held, orders, filled, nextId>>

OrderId == 1..MaxOrders
Order   == [id : OrderId, pair : Pairs, units : Nat \ {0}]

AccountInit ==
    /\ held = [p \in Pairs |-> 0]
    /\ orders = {}
    /\ filled = {}
    /\ nextId = 1
    /\ budget = MaxFaults

AccountTypeOK ==
    /\ held \in [Pairs -> Nat]
    /\ orders \subseteq Order
    /\ filled \subseteq OrderId
    /\ nextId \in 1..(MaxOrders + 1)
    /\ budget \in 0..MaxFaults

Fault(kind) == kind \in Faults /\ budget > 0 /\ budget' = budget - 1

-----------------------------------------------------------------------------
(* Queries: what a reply contains at the moment the broker answers.        *)

GetAllPositions  == [p \in {q \in Pairs : held[q] > 0} |-> held[p]]
GetPendingOrders == {o.id : o \in orders}
GetOpenTrades    == {p \in Pairs : held[p] > 0}

-----------------------------------------------------------------------------
(* submit_limit_order.                                                     *)

\* A rejection, or every attempt failed before it reached the broker.
OrderRefused == UNCHANGED <<account, budget>>

\* orderCreateTransaction: the reply is SUBMITTED and carries the order id.
OrderAccepted(p, u) ==
    /\ nextId <= MaxOrders
    /\ orders' = orders \cup {[id |-> nextId, pair |-> p, units |-> u]}
    /\ nextId' = nextId + 1
    /\ UNCHANGED <<held, filled, budget>>

\* orderFillTransaction: the limit was at or above the ask.
OrderFilledAtOnce(p, u) ==
    /\ nextId <= MaxOrders
    /\ held' = [held EXCEPT ![p] = @ + u]
    /\ filled' = filled \cup {nextId}
    /\ nextId' = nextId + 1
    /\ UNCHANGED <<orders, budget>>

\* _retry resends after a lost answer: n copies of the order are accepted.
OrderResent(p, u, n) ==
    /\ Fault("lost_reply")
    /\ nextId + n <= MaxOrders + 1
    /\ orders' = orders \cup {[id |-> i, pair |-> p, units |-> u] :
                                   i \in nextId..(nextId + n - 1)}
    /\ nextId' = nextId + n
    /\ UNCHANGED <<held, filled>>

-----------------------------------------------------------------------------
(* cancel_order and close_position.                                        *)

\* True exactly when the order was still pending.
CancelAccepted(id) ==
    /\ id \in GetPendingOrders
    /\ orders' = {o \in orders : o.id # id}
    /\ UNCHANGED <<held, filled, nextId, budget>>

CancelRefused(id) ==
    /\ id \notin GetPendingOrders
    /\ UNCHANGED <<account, budget>>

\* A close request answered with a fill.
Reduced(p, u) ==
    /\ 0 < u /\ u <= held[p]
    /\ held' = [held EXCEPT ![p] = @ - u]
    /\ UNCHANGED <<orders, filled, nextId, budget>>

\* The broker rejects a close of more than is held; _retry then gives None.
ReduceRefused(p, u) ==
    /\ u > held[p] \/ held[p] = 0
    /\ UNCHANGED <<account, budget>>

\* A lost answer to a close: executed n times, the last reply None or a fill.
ReduceResent(p, u, n) ==
    /\ Fault("lost_reply")
    /\ 0 < u /\ n * u <= held[p]
    /\ held' = [held EXCEPT ![p] = @ - n * u]
    /\ UNCHANGED <<orders, filled, nextId>>

\* No attempt of the request gets through: the reply is None.
Unreachable == Fault("unreachable") /\ UNCHANGED account

-----------------------------------------------------------------------------
(* Steps the broker takes by itself.                                       *)

Fill(o) ==
    /\ orders' = orders \ {o}
    /\ held' = [held EXCEPT ![o.pair] = @ + o.units]
    /\ filled' = filled \cup {o.id}
    /\ UNCHANGED <<nextId, budget>>

StopOut(p) ==
    /\ "stop" \in BrokerActs
    /\ \E left \in 0..(held[p] - 1) : held' = [held EXCEPT ![p] = left]
    /\ UNCHANGED <<orders, filled, nextId, budget>>

\* For instance for lack of margin when the price is reached.
BrokerCancel(o) ==
    /\ "cancel" \in BrokerActs
    /\ orders' = orders \ {o}
    /\ UNCHANGED <<held, filled, nextId, budget>>

BrokerStep ==
    \/ \E o \in orders : Fill(o) \/ BrokerCancel(o)
    \/ \E p \in Pairs : StopOut(p)

=============================================================================
