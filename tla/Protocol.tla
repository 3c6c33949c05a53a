------------------------------ MODULE Protocol ------------------------------
(***************************************************************************)
(* validation/protocol.py driven by engine/runner.py and kept in           *)
(* persistence/store.py: the status of the paper-trading protocol, the     *)
(* history of daily results its criteria read, and what of both survives   *)
(* a restart.                                                              *)
(*                                                                         *)
(* Three callers reach the history: the tick (_check_new_day, and the      *)
(* review in steps 10b, 10c and 11), the rollover job at 21:55, and        *)
(* stop().  The rollover runs in another thread than the tick, so it may   *)
(* fall between two steps of a review, and a review between its record in  *)
(* memory and the one in the store.                                        *)
(*                                                                         *)
(* Equity is a member of Levels, read from the account whenever the code   *)
(* reads it; a query that fails returns no level.                          *)
(***************************************************************************)
EXTENDS Integers, Sequences, FiniteSets

CONSTANTS
    Levels,         \* equities the account can report
    Closes,         \* trades a day can close
    Opens,          \* whether a day opens a trade: a subset of BOOLEAN
    Duration,       \* duration_days
    MaxDate,        \* bound: dates 1..MaxDate
    MaxRestarts,    \* bound: ends of the process
    MinTrades,      \* trades before the win rate counts (10 in the code)
    DegradeDD, DegradeLosing, DegradeCB, DegradeWin,    \* DegradedCriteria
    AbortDD, AbortLosing, AbortCB, AbortWin,            \* AbortCriteria
    RecoverDD, RecoverProfit, RecoverQuiet              \* RecoveryCriteria

ASSUME ProtocolAssumption ==
    /\ Levels \subseteq Nat \ {0}
    /\ Closes \subseteq Nat /\ 0 \in Closes
    /\ Opens \subseteq BOOLEAN /\ FALSE \in Opens
    /\ Duration \in Nat \ {0}
    /\ MaxDate \in Nat \ {0} /\ MaxRestarts \in Nat /\ MinTrades \in Nat
    /\ \A c \in {DegradeDD, DegradeWin, AbortDD, AbortWin, RecoverDD} : c \in 0..100
    /\ \A c \in {DegradeLosing, DegradeCB, AbortLosing, AbortCB,
                 RecoverProfit, RecoverQuiet} : c \in Nat \ {0}

VARIABLES
    status,     \* protocol.status
    reason,     \* degraded_reason: none, criteria or resumed (after an abort)
    days,       \* protocol.days
    today,      \* _today, 0 for None
    start,      \* _day_start_equity
    cb,         \* _cb_triggered_today
    closed,     \* _trades_closed_today
    opened,     \* _trades_opened_today > 0
    step,       \* next step of the tick: idle, degrade, recover, abort; or down
    date,       \* the calendar
    row,        \* protocol_state row: [status, reason]
    rows,       \* daily_results: date -> day
    late,       \* the day the rollover has recorded and not stored yet, if any
    restarts    \* ends of the process so far

protocol == <<status, reason, days>>
counters == <<today, start, cb, closed, opened>>
store    == <<row, rows>>
vars     == <<protocol, counters, step, date, store, late, restarts>>

Active == {"RUNNING", "DEGRADED"}
Status == Active \cup {"ABORTED", "COMPLETED"}
Reason == {"none", "criteria", "resumed"}
Date   == 1..MaxDate
Day    == [date : Date, equity : Levels, pnl : {-1, 0, 1}, closed : Closes,
           opened : Opens, cb : BOOLEAN]

\* Every variable has the kind of value the program gives it; the history
\* and the daily_results table hold days of the calendar.
TypeOK ==
    /\ status \in Status
    /\ reason \in Reason
    /\ days \in Seq(Day)
    /\ today \in Date \cup {0}
    /\ start \in Levels
    /\ cb \in BOOLEAN
    /\ closed \in Closes /\ opened \in Opens
    /\ step \in {"idle", "degrade", "recover", "abort", "down"}
    /\ date \in Date
    /\ row \in [status : Status, reason : Reason]
    /\ DOMAIN rows \subseteq Date
    /\ rows \in [DOMAIN rows -> Day]
    /\ late \subseteq Day
    /\ restarts \in 0..MaxRestarts

-----------------------------------------------------------------------------
(* The criteria, over a history h.                                         *)

Last(h)    == h[Len(h)]
Recent(h, n) == {i \in DOMAIN h : i > Len(h) - n}

\* (peak - current) / peak > limit percent, over recorded ending equities.
DrawdownOver(h, limit) ==
    \E i \in DOMAIN h : (h[i].equity - Last(h).equity) * 100 > limit * h[i].equity

LosingStreak(h, n) == Len(h) >= n /\ \A i \in Recent(h, n) : h[i].pnl < 0

BreakerDays(h) == Cardinality({i \in DOMAIN h : h[i].cb})

\* sum(d.trades_closed) >= MinTrades.
ClosedUpTo(h) ==
    LET sum[i \in 0..Len(h)] == IF i = 0 THEN 0 ELSE sum[i - 1] + h[i].closed
    IN  sum[Len(h)]

\* A day with trades or with profit or loss; others do not count either way.
ActiveDays(h) == {i \in DOMAIN h : h[i].opened \/ h[i].closed > 0 \/ h[i].pnl # 0}
WinningDays(h) == {i \in ActiveDays(h) : h[i].pnl > 0}

WinRateUnder(h, limit) ==
    /\ ClosedUpTo(h) >= MinTrades
    /\ ActiveDays(h) # {}
    /\ Cardinality(WinningDays(h)) * 100 < limit * Cardinality(ActiveDays(h))

AbortConditions(h) ==
    /\ h # <<>>
    /\ \/ DrawdownOver(h, AbortDD)
       \/ LosingStreak(h, AbortLosing)
       \/ BreakerDays(h) >= AbortCB
       \/ WinRateUnder(h, AbortWin)

\* Mutant: circuit breakers do not degrade.
DegradeConditionsNoBreaker(h) ==
    /\ h # <<>>
    /\ \/ DrawdownOver(h, DegradeDD)
       \/ LosingStreak(h, DegradeLosing)
       \/ WinRateUnder(h, DegradeWin)

DegradeConditions(h) ==
    /\ h # <<>>
    /\ \/ DrawdownOver(h, DegradeDD)
       \/ LosingStreak(h, DegradeLosing)
       \/ BreakerDays(h) >= DegradeCB
       \/ WinRateUnder(h, DegradeWin)

RecoveryConditions(h) ==
    /\ h # <<>>
    /\ ~DrawdownOver(h, RecoverDD)
    /\ Len(h) >= RecoverProfit /\ Len(h) >= RecoverQuiet
    /\ \A i \in Recent(h, RecoverProfit) : h[i].pnl >= 0
    /\ \A i \in Recent(h, RecoverQuiet) : ~h[i].cb

-----------------------------------------------------------------------------
\* Mutant: a day that is recorded again becomes a second record.
RecordedTwice(h, day) == Append(h, day)

\* record_day: the record of a date is replaced, a new date is appended.
Recorded(h, day) ==
    IF \E i \in DOMAIN h : h[i].date = day.date
    THEN [i \in DOMAIN h |-> IF h[i].date = day.date THEN day ELSE h[i]]
    ELSE Append(h, day)

\* The criteria look only at the sign of daily_pnl.
Sign(n) == IF n < 0 THEN -1 ELSE IF n > 0 THEN 1 ELSE 0

Today(e) == [date |-> today, equity |-> e, pnl |-> Sign(e - start),
             closed |-> closed, opened |-> opened, cb |-> cb]

\* Mutant: a day that is stored already is left as it is.
StoredOnce(day) ==
    IF day.date \in DOMAIN rows THEN rows
    ELSE [d \in DOMAIN rows \cup {day.date} |->
              IF d = day.date THEN day ELSE rows[d]]

\* save_daily_result: INSERT OR REPLACE by date.
Stored(day) == [d \in DOMAIN rows \cup {day.date} |->
                    IF d = day.date THEN day ELSE rows[d]]

\* record_day and complete: the protocol records a day only while active.
Remember(day) ==
    LET h == Recorded(days, day)
    IN  /\ days' = IF status \in Active THEN h ELSE days
        /\ status' = IF status \in Active /\ Len(h) >= Duration
                     THEN "COMPLETED" ELSE status
        /\ reason' = reason

\* save_daily_result and save_protocol_state: the day is stored whatever the
\* status is.
Save(day) ==
    /\ rows' = Stored(day)
    /\ row' = [status |-> status', reason |-> reason']

\* _record_day_result with the account at equity e.
RecordDay(e) == Remember(Today(e)) /\ Save(Today(e))

\* No day has begun, or the account does not answer: nothing is recorded.
RecordNothing == UNCHANGED <<protocol, store>>

\* Mutant: a result is recorded before the first day has begun.
RecordResultUndated == RecordNothing \/ \E e \in Levels : RecordDay(e)

RecordResult == RecordNothing \/ (today # 0 /\ \E e \in Levels : RecordDay(e))

Init ==
    /\ status = "RUNNING"
    /\ reason = "none"
    /\ days = <<>>
    /\ today = 0
    /\ start \in Levels
    /\ cb = FALSE
    /\ closed = 0 /\ opened = FALSE
    /\ step = "idle"
    /\ date = 1
    /\ row = [status |-> "RUNNING", reason |-> "none"]
    /\ rows = [d \in {} |-> 0]
    /\ late = {}
    /\ restarts = 0

Midnight ==
    /\ date < MaxDate
    /\ date' = date + 1
    /\ UNCHANGED <<protocol, counters, step, store, late, restarts>>

\* _check_new_day at the start of a tick on a new date: the day that ended
\* is recorded and the counters start again; when the account does not
\* answer, the day keeps the previous start equity.  A rollover has ended
\* before: it starts at 21:55, and a date begins at a full hour.
NewDay ==
    /\ step = "idle"
    /\ today # date /\ late = {}
    /\ RecordResult
    /\ today' = date
    /\ start' \in Levels
    /\ cb' = FALSE
    /\ closed' = 0 /\ opened' = FALSE
    /\ UNCHANGED <<step, date, late, restarts>>

\* The trading part of a tick of an active protocol: positions may open
\* and close and circuit breakers may trip (steps 6 to 9).
TradeAndCheck ==
    /\ step = "idle"
    /\ today = date
    /\ status \in Active
    /\ closed' \in {c \in Closes : c >= closed}
    /\ opened' \in {o \in Opens : opened => o}
    /\ cb' \in {cb, TRUE}
    /\ step' = "degrade"
    /\ UNCHANGED <<protocol, today, start, date, store, late, restarts>>

Degrade ==
    /\ step = "degrade"
    /\ step' = "recover"
    /\ IF status = "RUNNING" /\ DegradeConditions(days)
       THEN /\ status' = "DEGRADED" /\ reason' = "criteria"
            /\ row' = [status |-> status', reason |-> reason']
       ELSE UNCHANGED <<status, reason, row>>
    /\ UNCHANGED <<days, counters, date, rows, late, restarts>>

\* Mutant: the recovery is not saved.
RecoverUnsaved ==
    /\ step = "recover"
    /\ step' = "abort"
    /\ IF status = "DEGRADED" /\ RecoveryConditions(days)
       THEN status' = "RUNNING" /\ reason' = "none"
       ELSE UNCHANGED <<status, reason>>
    /\ UNCHANGED <<days, counters, date, store, late, restarts>>

Recover ==
    /\ step = "recover"
    /\ step' = "abort"
    /\ IF status = "DEGRADED" /\ RecoveryConditions(days)
       THEN /\ status' = "RUNNING" /\ reason' = "none"
            /\ row' = [status |-> status', reason |-> reason']
       ELSE UNCHANGED <<status, reason, row>>
    /\ UNCHANGED <<days, counters, date, rows, late, restarts>>

\* Mutant: the abort conditions are not looked at.
NoAbortEver ==
    /\ step = "abort"
    /\ step' = "idle"
    /\ UNCHANGED <<protocol, counters, date, store, late, restarts>>

NoAbort ==
    /\ step = "abort" /\ ~AbortConditions(days)
    /\ step' = "idle"
    /\ UNCHANGED <<protocol, counters, date, store, late, restarts>>

\* abort, save, stop: stop() stores the day but the protocol, no longer
\* active, does not record it.  The process ends.
Abort ==
    /\ step = "abort" /\ AbortConditions(days)
    /\ status' = "ABORTED"
    /\ row' = [status |-> "ABORTED", reason |-> reason]
    /\ \/ UNCHANGED rows
       \/ \E e \in Levels : rows' = Stored(Today(e))
    /\ step' = "down"
    /\ UNCHANGED <<reason, days, counters, date, late, restarts>>

\* The job of 21:55, in a thread of its own: it records the day in memory,
\* sends its summary, which may take a while, and stores what it recorded.
RolloverRecords ==
    /\ step # "down" /\ late = {}
    /\ today # 0
    /\ \E e \in Levels : Remember(Today(e)) /\ late' = {Today(e)}
    /\ UNCHANGED <<counters, step, date, store, restarts>>

\* A process that stops still waits for it.
RolloverSaves ==
    /\ UNCHANGED <<protocol, counters, step, date, restarts>>
    /\ \E day \in late : Save(day)
    /\ late' = {}

\* SIGTERM between two ticks: stop() records and saves.
Stop ==
    /\ step = "idle" /\ restarts < MaxRestarts
    /\ RecordResult
    /\ step' = "down"
    /\ restarts' = restarts + 1
    /\ UNCHANGED <<counters, date, late>>

\* The process dies anywhere, with nothing saved, or with a day of tick,
\* rollover or stop() stored but not the status.
Crash ==
    /\ step # "down" /\ restarts < MaxRestarts
    /\ step' = "down"
    /\ restarts' = restarts + 1
    /\ \/ UNCHANGED rows
       \/ today # 0 /\ \E day \in late \cup {Today(e) : e \in Levels} : rows' = Stored(day)
    /\ late' = {}
    /\ UNCHANGED <<protocol, counters, date, row>>

\* daily_results ORDER BY date.
Sorted(table) ==
    [i \in 1..Cardinality(DOMAIN table) |->
        table[CHOOSE d \in DOMAIN table :
                 Cardinality({e \in DOMAIN table : e < d}) = i - 1]]

\* Mutant: a new process takes an aborted protocol up as if it had gone on.
RestartRunning ==
    /\ step = "down"
    /\ step' = "idle"
    /\ status' = IF row.status = "ABORTED" THEN "RUNNING" ELSE row.status
    /\ reason' = IF row.status = "ABORTED" THEN "resumed" ELSE row.reason
    /\ row' = [status |-> status', reason |-> reason']
    /\ days' = Sorted(rows)
    /\ today' = date
    /\ start' \in Levels
    /\ cb' = FALSE
    /\ closed' = 0 /\ opened' = FALSE
    /\ late' = {}
    /\ UNCHANGED <<date, rows, restarts>>

\* load_protocol_state, _restore_or_create_protocol (ABORTED comes back as
\* DEGRADED and is saved so) and the first _check_new_day, which begins the
\* day again with counters at zero.
Restart ==
    /\ step = "down"
    /\ step' = "idle"
    /\ status' = IF row.status = "ABORTED" THEN "DEGRADED" ELSE row.status
    /\ reason' = IF row.status = "ABORTED" THEN "resumed" ELSE row.reason
    /\ row' = [status |-> status', reason |-> reason']
    /\ days' = Sorted(rows)
    /\ today' = date
    /\ start' \in Levels
    /\ cb' = FALSE
    /\ closed' = 0 /\ opened' = FALSE
    /\ late' = {}
    /\ UNCHANGED <<date, rows, restarts>>

-----------------------------------------------------------------------------
Tick == NewDay \/ TradeAndCheck \/ Degrade \/ Recover \/ NoAbort \/ Abort

DailyRollover == RolloverRecords \/ RolloverSaves

Next == Midnight \/ Tick \/ DailyRollover \/ Stop \/ Crash \/ Restart

Spec == Init /\ [][Next]_vars

\* Ticks keep coming, and the container is restarted by its supervisor
\* (docker-compose.yml: restart unless-stopped).
FairSpec == Spec /\ SF_vars(Tick) /\ WF_vars(RolloverSaves) /\ WF_vars(Restart)

-----------------------------------------------------------------------------
(* What the store says of the protocol.                                    *)

StoreDegrades(table) == DegradeConditions(Sorted(table))
StoreAborts(table)   == AbortConditions(Sorted(table))
StoreRecovers(table) == RecoveryConditions(Sorted(table))

Journaled == INSTANCE Journal WITH
    Days <- Day, Length <- Duration,
    Degrades <- StoreDegrades, Aborts <- StoreAborts, Recovers <- StoreRecovers,
    results <- rows, coming <- late, saved <- row.status

\* The store by itself is a journal: past days never change, an active protocol
\* is degraded, recovered, aborted or completed by the days stored at that moment
\* or being stored, and an end of the process loses no more than such a day.
JournalRefined == Journaled!JournalSpec

-----------------------------------------------------------------------------
\* While the protocol is active and no recording is under way, the store has
\* exactly the days the criteria see, so a restart judges the same history.
HistoryStored ==
    step # "down" /\ status \in Active /\ late = {} =>
        {days[i] : i \in DOMAIN days} = {rows[d] : d \in DOMAIN rows}

\* The history has one record per date, in order, through re-recording by the
\* rollover, the next day, stop() and restarts: "the last n days" are the last.
DatesIncreasing ==
    \A i, j \in DOMAIN days : i < j => days[i].date < days[j].date

\* Every change of status is saved with it: a crash at any step of a review
\* resumes in the status the review had reached.  Only the last day completes a
\* protocol before it is stored.
StatusSaved ==
    step # "down" => \/ row = [status |-> status, reason |-> reason]
                     \/ late # {} /\ status = "COMPLETED"

\* DegradedCriteria: "these fire before AbortCriteria" - a history that
\* aborts also meets the softer thresholds.
SofterFirst == AbortConditions(days) => DegradeConditions(days)

\* A history that meets the abort criteria leads to an abort, unless the day
\* is recorded again with another result or the protocol completes.
AbortHappens ==
    AbortConditions(days) ~> \/ status \in {"ABORTED", "COMPLETED"}
                             \/ ~AbortConditions(days)

\* "3. Circuit breaker triggered today": what degrades the protocol for its
\* circuit breakers alone is a breaker on the last recorded day.
DegradedByTodaysBreaker ==
    [][/\ step = "degrade" /\ status = "RUNNING" /\ status' = "DEGRADED"
       /\ ~DrawdownOver(days, DegradeDD) /\ ~LosingStreak(days, DegradeLosing)
       /\ ~WinRateUnder(days, DegradeWin)
       => Last(days).cb]_vars

=============================================================================
