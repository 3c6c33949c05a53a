------------------------------ MODULE Delivery ------------------------------
(***************************************************************************)
(* What a queue of updates promises its consumer: delivery at least once,  *)
(* in order.  Updates are numbered as they are sent, and an update is      *)
(* deleted only when it and all its predecessors were processed.           *)
(***************************************************************************)
EXTENDS Integers

VARIABLES sent,     \* number of updates sent
          deleted,  \* updates up to this one are gone from the queue
          done      \* updates processed at least once

deliveryVars == <<sent, deleted, done>>

DeliveryInit == sent = 0 /\ deleted = 0 /\ done = {}

SendUpdate == sent' = sent + 1 /\ UNCHANGED <<deleted, done>>

\* The first processing of an update comes after that of its predecessor.
ProcessInOrder ==
    /\ \E u \in 1..sent :
           u \notin done /\ 1..(u - 1) \subseteq done /\ done' = done \cup {u}
    /\ UNCHANGED <<sent, deleted>>

DeleteProcessed ==
    /\ \E d \in (deleted + 1)..sent : 1..d \subseteq done /\ deleted' = d
    /\ UNCHANGED <<sent, done>>

DeliveryNext == SendUpdate \/ ProcessInOrder \/ DeleteProcessed

DeliverySpec == DeliveryInit /\ [][DeliveryNext]_deliveryVars

=============================================================================
