------------------------------- MODULE Mandate -------------------------------
(***************************************************************************)
(* What the trading runner promises about the account it trades: one       *)
(* order of a pair at a time, no more of a pair than the cap and one order *)
(* beyond it, and no order from a protocol that is degraded or aborted.    *)
(* It knows neither the tick nor the tables the runner decides by.         *)
(***************************************************************************)
EXTENDS Integers

CONSTANTS Pairs, MaxUnits, MaxOrders

VARIABLES holding,  \* units of each pair the account has
          live,     \* limit orders pending at the broker
          status    \* of the protocol

mandateVars == <<holding, live, status>>

LimitOrder == [id : 1..MaxOrders, pair : Pairs, units : 1..MaxUnits]

MandateInit ==
    /\ holding = [p \in Pairs |-> 0]
    /\ live = {}
    /\ status = "RUNNING"

\* An entry or one more tranche.
MayPlace(o) ==
    /\ status \notin {"DEGRADED", "ABORTED"}
    /\ \A other \in live : other.id # o.id /\ other.pair # o.pair
    /\ holding[o.pair] + o.units <= 2 * MaxUnits

Bought(o) == holding' = [holding EXCEPT ![o.pair] = @ + o.units]

PlaceOrder(o) ==
    /\ MayPlace(o)
    /\ \/ live' = live \cup {o} /\ UNCHANGED holding
       \/ Bought(o) /\ UNCHANGED live
    /\ UNCHANGED status

\* A live order fills, or it is cancelled by either side.
EndOrder(o) ==
    /\ live' = live \ {o}
    /\ Bought(o) \/ UNCHANGED holding
    /\ UNCHANGED status

\* A close, a partial close or a stop, of one pair.
Reduce(p) ==
    /\ \E left \in 0..(holding[p] - 1) : holding' = [holding EXCEPT ![p] = left]
    /\ UNCHANGED <<live, status>>

\* A completed protocol can still be aborted by the tick that is under way;
\* an aborted one stays as it is.
ChangeStatus ==
    /\ \/ /\ status \in {"RUNNING", "DEGRADED"}
          /\ status' \in {"RUNNING", "DEGRADED", "COMPLETED", "ABORTED"}
       \/ status = "COMPLETED" /\ status' = "ABORTED"
    /\ UNCHANGED <<holding, live>>

MandateNext ==
    \/ \E o \in LimitOrder : PlaceOrder(o)
    \/ \E o \in live : EndOrder(o)
    \/ \E p \in Pairs : Reduce(p)
    \/ ChangeStatus

MandateSpec == MandateInit /\ [][MandateNext]_mandateVars

=============================================================================
