----------------------------- MODULE Monitoring -----------------------------
(***************************************************************************)
(* Watchdog, market hours and alerts around the hourly tick:               *)
(* ops/watchdog.py, engine/market_hours.py, ops/alerts.py and the jobs of  *)
(* engine/runner.py that use them (_health_check, _send_daily_report).     *)
(*                                                                         *)
(* Time is the hour of a trading week in New York, 0 is Monday 00:00.  A   *)
(* tick is due in every hour; the health check runs at least once in every *)
(* hour, before or after the tick (every five minutes in the code), so two *)
(* hours without a heartbeat may or may not exceed the limit of twice the  *)
(* interval, three always do.  The throttle window of an alert (15 min) is *)
(* taken as the rest of the hour.                                          *)
(***************************************************************************)
EXTENDS Integers

CONSTANTS MinSeverity,      \* rank of AlertConfig.min_severity
          MaxMisses         \* _miss_count is not counted further

ASSUME MonitoringAssumption == MinSeverity \in 0..3 /\ MaxMisses \in Nat

VARIABLES weekHour,    \* the clock
          beatAge,     \* hours since _last_heartbeat, at most 3
          missCount,   \* _miss_count
          wasOpen,     \* the watchdog's _market_was_open
          lastMarket,  \* the runner's _last_market_state
          nextChange,  \* hour named in the last message about the market
          sentNow,     \* titles in _last_sent that are still throttled
          ticked,      \* the tick of this hour has run
          checked,     \* the health check has run in this hour
          outcome,     \* what became of the last alert
          idleHours    \* history: open hours since a tick finished, or since the opening

monitoringVars == <<weekHour, beatAge, missCount, wasOpen, lastMarket,
                    nextChange, sentNow, ticked, checked, outcome, idleHours>>

Severity == [watchdog |-> 3, opened |-> 0, closed |-> 0, report |-> 0]
Titles   == DOMAIN Severity

MonitoringTypeOK ==
    /\ weekHour \in 0..167 /\ beatAge \in 0..3 /\ missCount \in 0..MaxMisses
    /\ {wasOpen, lastMarket, ticked, checked} \subseteq BOOLEAN
    /\ nextChange \in -1..335
    /\ sentNow \subseteq Titles
    /\ outcome \in {"none", "filtered", "throttled", "sent", "failed"}
    /\ idleHours \in 0..3

-----------------------------------------------------------------------------
(* engine/market_hours.py                                                  *)

DayOfWeek(h) == (h \div 24) % 7
HourOfDay(h) == h % 24

\* Closed on Saturday, on Sunday until 17:00 and on Friday from 17:00.
IsMarketOpen(h) ==
    /\ DayOfWeek(h) # 5
    /\ DayOfWeek(h) = 6 => HourOfDay(h) >= 17
    /\ DayOfWeek(h) = 4 => HourOfDay(h) < 17

AtSeventeen(h, days) == (h \div 24 + days) * 24 + 17

\* next_close in an open market: the coming Friday at 17:00.
CloseAfter(h) ==
    AtSeventeen(h, IF (4 - DayOfWeek(h)) % 7 = 0 /\ HourOfDay(h) >= 17 THEN 7
                   ELSE (4 - DayOfWeek(h)) % 7)

\* next_open in a closed market: the coming Sunday, today included.
OpenAfter(h) == AtSeventeen(h, (6 - DayOfWeek(h)) % 7)

\* The two functions call each other once, from the other state of the market.
NextClose(h) == IF IsMarketOpen(h) THEN CloseAfter(h) ELSE CloseAfter(OpenAfter(h))
NextOpen(h)  == IF IsMarketOpen(h) THEN OpenAfter(CloseAfter(h)) ELSE OpenAfter(h)

-----------------------------------------------------------------------------
(* ops/alerts.py                                                           *)

\* _last_sent is written only when Telegram accepted the message.
Remembered(sent, title, ok) == IF ok THEN sent \cup {title} ELSE sent

\* AlertManager.send: filter, throttle, deliver.
Send(title) ==
    IF Severity[title] < MinSeverity
    THEN outcome' = "filtered" /\ UNCHANGED sentNow
    ELSE IF title \in sentNow
    THEN outcome' = "throttled" /\ UNCHANGED sentNow
    ELSE \E ok \in BOOLEAN :
         /\ outcome' = IF ok THEN "sent" ELSE "failed"
         /\ sentNow' = Remembered(sentNow, title, ok)

NoAlert == UNCHANGED <<outcome, sentNow>>

-----------------------------------------------------------------------------
MonitoringInit ==
    /\ weekHour \in {0, 40, 112, 120, 160}
    /\ beatAge = 0 /\ missCount = 0 /\ wasOpen = TRUE /\ lastMarket = TRUE
    /\ nextChange = -1 /\ sentNow = {} /\ outcome = "none"
    /\ ticked = FALSE /\ checked = FALSE /\ idleHours = 0

HourPasses ==
    /\ checked
    /\ weekHour' = (weekHour + 1) % 168
    /\ beatAge' = IF beatAge = 3 THEN 3 ELSE beatAge + 1
    /\ idleHours' = IF ~IsMarketOpen(weekHour) THEN 0
                    ELSE IF idleHours = 3 THEN 3 ELSE idleHours + 1
    /\ nextChange' = IF nextChange = weekHour' THEN -1 ELSE nextChange
    /\ sentNow' = {} /\ outcome' = "none"
    /\ ticked' = FALSE /\ checked' = FALSE
    /\ UNCHANGED <<missCount, wasOpen, lastMarket>>

\* Watchdog.heartbeat at the end of a tick, or of a tick that found the
\* protocol over.  A tick in a closed market, one without an account state and
\* one that raises leave no heartbeat.
TickFinishes ==
    /\ ~ticked /\ IsMarketOpen(weekHour)
    /\ ticked' = TRUE /\ beatAge' = 0 /\ missCount' = 0 /\ idleHours' = 0
    /\ UNCHANGED <<weekHour, wasOpen, lastMarket, nextChange, sentNow, checked,
                   outcome>>

TickLeavesNoBeat ==
    /\ ~ticked /\ ticked' = TRUE
    /\ UNCHANGED <<weekHour, beatAge, missCount, wasOpen, lastMarket, nextChange,
                   sentNow, checked, outcome, idleHours>>

\* Mutant: the timer runs on over the weekend.
ReopenedWithOldTimer == beatAge' = beatAge /\ wasOpen' = TRUE

Reopened == beatAge' = 0 /\ wasOpen' = TRUE

\* elapsed > 2 * expected_interval_sec, seen with the resolution of an hour.
MayBeOverdue == beatAge >= 2
MustBeOverdue == beatAge >= 3

\* Watchdog.check; "overdue" is its answer in an open market.
WatchdogCheck(overdue) ==
    IF ~IsMarketOpen(weekHour)
    THEN /\ missCount' = 0 /\ wasOpen' = FALSE
         /\ UNCHANGED beatAge /\ NoAlert
    ELSE IF ~wasOpen
    THEN Reopened /\ UNCHANGED missCount /\ NoAlert
    ELSE IF overdue
    THEN /\ missCount' = IF missCount = MaxMisses THEN MaxMisses ELSE missCount + 1
         /\ Send("watchdog") /\ UNCHANGED <<beatAge, wasOpen>>
    ELSE UNCHANGED <<beatAge, missCount, wasOpen>> /\ NoAlert

\* _check_market_transition, reached only when the broker answers.
MarketTransition(reachable) ==
    IF reachable /\ IsMarketOpen(weekHour) # lastMarket
    THEN /\ lastMarket' = IsMarketOpen(weekHour)
         /\ nextChange' = IF lastMarket THEN NextOpen(weekHour) ELSE NextClose(weekHour)
    ELSE UNCHANGED <<lastMarket, nextChange>>

\* _health_check.  Its own messages about the market are of severity INFO and
\* end in the filter, so the watchdog's alert is the only one it can send.
HealthCheck ==
    /\ \E overdue, reachable \in BOOLEAN :
           /\ overdue => MayBeOverdue
           /\ MustBeOverdue => overdue
           /\ WatchdogCheck(overdue)
           /\ MarketTransition(reachable)
    /\ checked' = TRUE
    /\ UNCHANGED <<weekHour, ticked, idleHours>>

\* _send_daily_report at 22:00 UTC (hour 17 or 18 in New York).
SendDailyReport ==
    /\ HourOfDay(weekHour) = 17
    /\ Send("report")
    /\ UNCHANGED <<weekHour, beatAge, missCount, wasOpen, lastMarket, nextChange,
                   ticked, checked, idleHours>>

MonitoringNext ==
    \/ HourPasses
    \/ TickFinishes
    \/ TickLeavesNoBeat
    \/ HealthCheck
    \/ SendDailyReport

MonitoringSpec == MonitoringInit /\ [][MonitoringNext]_monitoringVars

-----------------------------------------------------------------------------
(* Properties.                                                             *)

\* The watchdog counts a miss only when the market has been open for two hours
\* since it opened and since a tick finished: a weekend, however old it makes
\* the last heartbeat, raises no alarm.
MissMeansIdleMarket == missCount > 0 => idleHours >= 2

=============================================================================
