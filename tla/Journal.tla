------------------------------- MODULE Journal -------------------------------
(***************************************************************************)
(* What the store promises of the paper-trading protocol: days before the  *)
(* newest never change, and the saved status of an active protocol changes *)
(* as the stored days say, or these with a day that is being written.      *)
(* It knows no process, no memory and no review: whatever ends where, only *)
(* a day that was being written can be lost.                               *)
(***************************************************************************)
EXTENDS Integers, FiniteSets

CONSTANTS
    Days,           \* results of a day, each with its date
    Length,         \* days until the protocol is complete
    Degrades(_),    \* whether results degrade a protocol,
    Aborts(_),      \* abort it
    Recovers(_)     \* or let it recover

VARIABLES results,  \* date -> day
          coming,   \* the day that is being written, if any
          saved     \* status

journal == <<results, coming, saved>>

Active == {"RUNNING", "DEGRADED"}

JournalInit ==
    /\ results = [d \in {} |-> 0]
    /\ coming = {}
    /\ saved = "RUNNING"

Extended(day) == [d \in DOMAIN results \cup {day.date} |->
                      IF d = day.date THEN day ELSE results[d]]

\* What a verdict goes by.
Known == IF coming = {} THEN {results} ELSE {Extended(day) : day \in coming}

Newest(day) == \A d \in DOMAIN results : d <= day.date

\* The newest day is written, or written again.
Write(day) == Newest(day) /\ results' = Extended(day)

\* The last day of an active protocol completes it.
Judge == saved' = IF saved \in Active /\ Cardinality(DOMAIN results') >= Length
                  THEN "COMPLETED" ELSE saved

Record == (\E day \in Days : Write(day)) /\ Judge /\ UNCHANGED coming

Announce ==
    /\ coming = {}
    /\ \E day \in Days : Newest(day) /\ coming' = {day}
    /\ UNCHANGED <<results, saved>>

Finish == (\E day \in coming : Write(day)) /\ Judge /\ coming' = {}

\* The process ends, perhaps between the two commits of a record.
Cut ==
    /\ UNCHANGED results \/ \E day \in Days : Write(day)
    /\ coming' = {}
    /\ UNCHANGED saved

Degrade ==
    /\ saved = "RUNNING" /\ \E table \in Known : Degrades(table)
    /\ saved' = "DEGRADED"
    /\ UNCHANGED <<results, coming>>

Recover ==
    /\ saved = "DEGRADED" /\ \E table \in Known : Recovers(table)
    /\ saved' = "RUNNING"
    /\ UNCHANGED <<results, coming>>

\* The process that aborts writes its day last.  A protocol that another
\* thread completed during the review is aborted for what it was before.
Abort ==
    /\ \/ saved \in Active /\ \E table \in Known : Aborts(table)
       \/ saved = "COMPLETED"
    /\ saved' = "ABORTED"
    /\ UNCHANGED results \/ \E day \in Days : Write(day)
    /\ UNCHANGED coming

\* An aborted protocol is taken up again, degraded.
Resume ==
    /\ saved = "ABORTED"
    /\ saved' = "DEGRADED"
    /\ coming' = {}
    /\ UNCHANGED results

JournalNext ==
    \/ Record \/ Announce \/ Finish \/ Cut
    \/ Degrade \/ Recover \/ Abort \/ Resume

JournalSpec == JournalInit /\ [][JournalNext]_journal

=============================================================================
