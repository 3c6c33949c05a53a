----------------------------- MODULE Reconciler -----------------------------
(***************************************************************************)
(* ops/reconciler.py: the comparison of the runner's position table with   *)
(* the positions the broker reports, and the repair of the table.  Both    *)
(* sides are partial functions on currency pairs: the runner maps a pair   *)
(* to a position record, the broker maps it to the number of units held.   *)
(*                                                                         *)
(* A position record keeps what the trading logic decides on: the units,   *)
(* tranche_count, levels_taken, and "managed", TRUE when the runner knows  *)
(* the broker's trade_id, the stop price and the entry ATR.  A position    *)
(* the reconciler adopts has none of these three, and its tranche_count    *)
(* and levels_taken are absent, which every reader takes as 1 and 0.       *)
(***************************************************************************)
EXTENDS Integers

\* Mutant: the adopted record has no levels_taken and nobody defaults it.
AdoptedShort(u) == [units |-> u, tranches |-> 1, managed |-> FALSE]

Adopted(u) == [units |-> u, tranches |-> 1, levels |-> 0, managed |-> FALSE]

\* An empty list of managed pairs means no filter (managed_pairs is falsy).
Compare(internal, broker, managed) ==
    LET known == {p \in DOMAIN broker : managed = {} \/ p \in managed}
    IN  [orphanedBroker   |-> known \ DOMAIN internal,
         orphanedInternal |-> DOMAIN internal \ known,
         mismatched       |-> {p \in known \cap DOMAIN internal :
                                    internal[p].units # broker[p]}]

IsClean(result) ==
    /\ result.orphanedBroker = {}
    /\ result.orphanedInternal = {}
    /\ result.mismatched = {}

\* Mutant: differing quantities are reported but not taken over.
ApplyFixesKeepingUnits(internal, result, broker) ==
    [p \in (DOMAIN internal \ result.orphanedInternal)
                \cup result.orphanedBroker |->
        IF p \in result.orphanedBroker THEN Adopted(broker[p]) ELSE internal[p]]

ApplyFixes(internal, result, broker) ==
    [p \in (DOMAIN internal \ result.orphanedInternal)
                \cup result.orphanedBroker |->
        IF p \in result.orphanedBroker THEN Adopted(broker[p])
        ELSE IF p \in result.mismatched
             THEN [internal[p] EXCEPT !.units = broker[p]]
             ELSE internal[p]]

\* What the tick does with the two: fixes are applied only when needed.
Reconciled(internal, broker, managed) ==
    LET result == Compare(internal, broker, managed)
    IN  IF IsClean(result) THEN internal
        ELSE ApplyFixes(internal, result, broker)

=============================================================================
