------------------------- MODULE Operations_proofs -------------------------
(***************************************************************************)
(* Theorems about operations.  The command bot, together with Telegram's   *)
(* offset, implements delivery at least once, in order (module Delivery);  *)
(* the watchdog raises no alarm for a closed market; and what the program  *)
(* learns: the model registry and the bandit (Learning), and the parameter *)
(* sets (Parameters).                                                      *)
(***************************************************************************)
EXTENDS CommandBot, Monitoring, Learning, Parameters, Operators_proofs,
        SequenceTheorems, TLAPS

-----------------------------------------------------------------------------
(* The invariant.                                                          *)

Done == {id \in DOMAIN handled : handled[id] >= 1}

\* The updates and their counters are two sequences of one length.
InboxInv ==
    /\ inbox \in Seq(Updates) /\ handled \in Seq(Nat) /\ Len(handled) = Len(inbox)
    /\ confirmed \in Nat /\ lastUpdateId \in Nat

\* A batch is a run of consecutive updates that were sent.
BatchInv ==
    /\ batch \in Seq(Nat)
    /\ \A i \in 1..Len(batch) : batch[i] = batch[1] + i - 1 /\ batch[i] \in 1..Len(inbox)

\* What was processed is a prefix of what was sent.  The offset and what was
\* deleted lie within it, and a batch leaves no gap behind it.
Frontier(d) ==
    /\ Done = 1..d
    /\ lastUpdateId <= d /\ confirmed <= d
    /\ batch # <<>> => batch[1] <= d + 1

BotInv == InboxInv /\ BatchInv /\ \E d \in 0..Len(inbox) : Frontier(d)

\* Nothing is written, fetched or confirmed at the start.
LEMMA BotInvInit == BotInit => BotInv
<1> SUFFICES ASSUME BotInit PROVE BotInv
  OBVIOUS
<1>1. InboxInv /\ BatchInv
  BY DEF BotInit, InboxInv, BatchInv
<1>2. Done = 1..0
  BY DEF BotInit, Done
<1>3. Frontier(0)
  BY <1>2 DEF BotInit, Frontier
<1> QED BY <1>1, <1>3 DEF BotInit, BotInv

-----------------------------------------------------------------------------
(* The steps.                                                              *)

\* A new update has not been processed.
LEMMA WriteStep ==
    ASSUME BotInv, UserWrites
    PROVE  BotInv' /\ Done' = Done /\ Len(inbox') = Len(inbox) + 1
<1>1. PICK d \in 0..Len(inbox) : Frontier(d)
  BY DEF BotInv
<1>2. PICK u \in Updates : inbox' = Append(inbox, u)
  BY DEF UserWrites
<1>3. /\ handled' = Append(handled, 0)
      /\ UNCHANGED <<confirmed, lastUpdateId, batch>>
  BY DEF UserWrites
<1>4. /\ InboxInv' /\ Len(inbox') = Len(inbox) + 1 /\ Len(handled') = Len(handled) + 1
      /\ \A i \in 1..Len(handled) : handled'[i] = handled[i]
      /\ handled'[Len(handled) + 1] = 0
  BY <1>2, <1>3 DEF BotInv, InboxInv
<1>5. DOMAIN handled = 1..Len(handled) /\ DOMAIN handled' = 1..(Len(handled) + 1)
  BY <1>4 DEF BotInv, InboxInv
<1>6. Done' = Done
  BY <1>4, <1>5 DEF Done, BotInv, InboxInv
<1>7. BatchInv'
  BY <1>3, <1>4 DEF BotInv, BatchInv, InboxInv
<1>8. Frontier(d)' /\ d \in 0..Len(inbox')
  BY <1>1, <1>3, <1>4, <1>6 DEF Frontier, BotInv, InboxInv
<1> QED BY <1>4, <1>6, <1>7, <1>8 DEF BotInv

\* The offset names nothing that was not processed, so a call deletes a prefix
\* of what was and fetches what follows it.
LEMMA FetchStep ==
    ASSUME BotInv, GetUpdates
    PROVE  /\ BotInv' /\ Done' = Done /\ inbox' = inbox
           /\ \/ confirmed' = confirmed
              \/ confirmed' \in (confirmed + 1)..Len(inbox) /\ 1..confirmed' \subseteq Done
<1>1. PICK d \in 0..Len(inbox) : Frontier(d)
  BY DEF BotInv
<1> DEFINE kept == IF Offset(lastUpdateId) - 1 > confirmed
                   THEN Offset(lastUpdateId) - 1 ELSE confirmed
           ids  == [i \in 1..(Len(inbox) - kept) |-> kept + i]
<1>2. /\ UNCHANGED <<inbox, lastUpdateId, handled>> /\ batch = <<>>
      /\ \/ confirmed' = kept /\ batch' \in {ids, <<>>}
         \/ UNCHANGED <<confirmed, batch>>
  BY DEF GetUpdates
<1>3. /\ kept \in Nat /\ confirmed <= kept /\ kept <= d /\ d \in Nat
      /\ lastUpdateId <= kept /\ Len(inbox) \in Nat
  BY <1>1 DEF Offset, Frontier, BotInv, InboxInv
<1>4. Done' = Done /\ InboxInv'
  BY <1>2, <1>3 DEF Done, BotInv, InboxInv
<1>5. confirmed' <= d /\ Frontier(d) /\ Done = 1..d
  BY <1>1, <1>2, <1>3 DEF Frontier
<1> HIDE DEF kept
<1>6. /\ ids \in Seq(Nat) /\ Len(ids) = Len(inbox) - kept
      /\ \A i \in 1..Len(ids) : ids[i] = kept + i
  BY <1>1, <1>3
<1> HIDE DEF ids
<1>7. BatchInv' /\ Frontier(d)'
  <2>1. CASE batch' = ids
    <3>1. \A i \in 1..Len(ids) : ids[i] = ids[1] + i - 1 /\ ids[i] \in 1..Len(inbox)
      BY <1>3, <1>6
    <3>2. BatchInv'
      BY <1>2, <1>6, <2>1, <3>1 DEF BatchInv
    <3>3. ASSUME ids # <<>> PROVE ids[1] <= d + 1
      <4>1. 1 \in 1..Len(ids)
        BY <1>6, <3>3
      <4>2. ids[1] = kept + 1
        BY <1>6, <4>1
      <4> QED BY <1>3, <4>2
    <3> QED BY <1>2, <1>4, <1>5, <2>1, <3>2, <3>3 DEF Frontier
  <2>2. CASE batch' = <<>>
    BY <1>2, <1>4, <1>5, <2>2 DEF BatchInv, Frontier
  <2> QED BY <1>2, <2>1, <2>2
<1>8. \/ confirmed' = confirmed
      \/ confirmed' \in (confirmed + 1)..Len(inbox) /\ 1..confirmed' \subseteq Done
  BY <1>1, <1>2, <1>3, <1>5 DEF BotInv, InboxInv
<1> QED BY <1>1, <1>2, <1>4, <1>7, <1>8 DEF BotInv

\* The head of the batch was processed before or is the next update in order.
LEMMA ProcessStep ==
    ASSUME BotInv, ProcessUpdate
    PROVE  /\ BotInv' /\ inbox' = inbox /\ confirmed' = confirmed
           /\ \/ Done' = Done
              \/ \E u \in 1..Len(inbox) :
                     u \notin Done /\ 1..(u - 1) \subseteq Done /\ Done' = Done \cup {u}
<1>1. PICK d \in 0..Len(inbox) : Frontier(d)
  BY DEF BotInv
<1>0. PICK id : id = Head(batch)
  OBVIOUS
<1>2. /\ UNCHANGED <<inbox, confirmed>> /\ batch # <<>> /\ batch' = Tail(batch)
      /\ lastUpdateId' = IF id > lastUpdateId THEN id ELSE lastUpdateId
      /\ handled' = [handled EXCEPT ![id] = @ + 1]
  BY <1>0 DEF ProcessUpdate
<1>3. /\ Len(batch) \in Nat /\ Len(batch) >= 1 /\ batch[1] = id
      /\ Len(batch') = Len(batch) - 1 /\ batch' \in Seq(Nat)
      /\ \A i \in 1..Len(batch') : batch'[i] = batch[i + 1]
  BY <1>0, <1>2, HeadTailProperties DEF BotInv, BatchInv
<1>4. id \in 1..Len(inbox) /\ id <= d + 1 /\ d \in Nat /\ Len(inbox) \in Nat
  BY <1>1, <1>2, <1>3 DEF BotInv, BatchInv, InboxInv, Frontier
<1>5. /\ DOMAIN handled = 1..Len(inbox) /\ DOMAIN handled' = 1..Len(inbox)
      /\ handled' \in Seq(Nat) /\ Len(handled') = Len(inbox)
      /\ \A i \in 1..Len(inbox) : handled[i] \in Nat
      /\ \A i \in 1..Len(inbox) :
            handled'[i] = IF i = id THEN handled[i] + 1 ELSE handled[i]
  <2>1. /\ handled \in Seq(Nat) /\ Len(handled) = Len(inbox)
        /\ DOMAIN handled = 1..Len(inbox) /\ \A i \in 1..Len(inbox) : handled[i] \in Nat
    BY DEF BotInv, InboxInv
  <2>2. handled[id] + 1 \in Nat
    BY <1>4, <2>1
  <2>3. handled' \in Seq(Nat) /\ Len(handled') = Len(inbox)
    BY <1>2, <1>4, <2>1, <2>2
  <2> QED BY <1>2, <1>4, <2>1, <2>3
<1>6. Done' = Done \cup {id}
  BY <1>4, <1>5 DEF Done
<1>7. PICK e \in 0..Len(inbox) : /\ e = IF id = d + 1 THEN d + 1 ELSE d
                                 /\ Done = 1..d /\ 1..d \cup {id} = 1..e
  <2>1. Done = 1..d
    BY <1>1 DEF Frontier
  <2>2. CASE id = d + 1
    BY <1>4, <2>1, <2>2
  <2>3. CASE id # d + 1
    BY <1>4, <2>1, <2>3
  <2> QED BY <2>2, <2>3
<1>8. InboxInv'
  <2>1. lastUpdateId' \in Nat
    BY <1>2, <1>4 DEF BotInv, InboxInv
  <2> QED BY <1>2, <1>5, <2>1 DEF BotInv, InboxInv
<1>9. BatchInv'
  BY <1>2, <1>3, <1>4 DEF BotInv, BatchInv
<1>10. Frontier(e)'
  <2>1. batch' # <<>> => batch'[1] = id + 1
    <3> SUFFICES ASSUME batch' # <<>> PROVE batch'[1] = id + 1
      OBVIOUS
    <3>1. Len(batch') >= 1 /\ 1 \in 1..Len(batch') /\ 2 \in 1..Len(batch)
      BY <1>3, EmptySeq
    <3>2. batch[2] = batch[1] + 2 - 1
      BY <3>1 DEF BotInv, BatchInv
    <3>3. batch'[1] = batch[2]
      BY <1>3, <3>1
    <3> QED BY <1>3, <1>4, <3>2, <3>3
  <2>2. lastUpdateId' <= e /\ confirmed' <= e /\ id <= e
    BY <1>1, <1>2, <1>4, <1>7 DEF Frontier, BotInv, InboxInv
  <2>3. e \in Nat
    BY <1>4
  <2> QED BY <1>4, <1>6, <1>7, <2>1, <2>2, <2>3 DEF Frontier
<1>11. \/ Done' = Done
       \/ id \notin Done /\ 1..(id - 1) \subseteq Done /\ Done' = Done \cup {id}
  BY <1>4, <1>6, <1>7
<1>12. BotInv'
  BY <1>2, <1>7, <1>8, <1>9, <1>10 DEF BotInv
<1> QED BY <1>2, <1>4, <1>11, <1>12

\* Stopping drops the batch, and starting forgets the offset; both leave the
\* updates and what was processed alone.
LEMMA RestartStep ==
    ASSUME BotInv, BotStops \/ BotStarts \/ UNCHANGED botVars
    PROVE  BotInv' /\ Done' = Done /\ inbox' = inbox /\ confirmed' = confirmed
<1>1. PICK d \in 0..Len(inbox) : Frontier(d)
  BY DEF BotInv
<1>2. /\ UNCHANGED <<inbox, confirmed, handled>> /\ lastUpdateId' \in {0, lastUpdateId}
      /\ batch' \in {batch, <<>>}
  BY DEF BotStops, BotStarts, botVars
<1>3. Done' = Done /\ InboxInv'
  BY <1>2 DEF Done, BotInv, InboxInv
<1>4. BatchInv' /\ Frontier(d)'
  <2>1. lastUpdateId' <= d
    BY <1>1, <1>2 DEF Frontier, BotInv, InboxInv
  <2>2. CASE batch' = batch
    BY <1>1, <1>2, <1>3, <2>1, <2>2 DEF BatchInv, Frontier, BotInv
  <2>3. CASE batch' = <<>>
    BY <1>1, <1>2, <1>3, <2>1, <2>3 DEF BatchInv, Frontier
  <2> QED BY <1>2, <2>2, <2>3
<1> QED BY <1>1, <1>2, <1>3, <1>4 DEF BotInv

-----------------------------------------------------------------------------
(* Refinement.                                                             *)

\* For any number of updates and restarts, with calls that fail, answers that
\* are lost and crashes between any two steps, Telegram and the bot deliver
\* every update at least once and in order: what was deleted was processed.
THEOREM BotDelivers == BotSpec => DeliveryRefined
<1>1. BotInit => BotInv /\ Delivered!DeliveryInit
  BY BotInvInit DEF BotInit, Delivered!DeliveryInit
<1>2. ASSUME BotInv, [BotNext]_botVars
      PROVE  BotInv' /\ [Delivered!DeliveryNext]_(Delivered!deliveryVars)
  <2> USE DEF Delivered!deliveryVars, Delivered!DeliveryNext
  <2>1. CASE UserWrites
    <3>1. confirmed' = confirmed
      BY <2>1 DEF UserWrites
    <3> QED BY <1>2, <2>1, <3>1, WriteStep DEF Delivered!SendUpdate, Done
  <2>2. CASE GetUpdates
    BY <1>2, <2>2, FetchStep DEF Delivered!DeleteProcessed, Done
  <2>3. CASE ProcessUpdate
    BY <1>2, <2>3, ProcessStep DEF Delivered!ProcessInOrder, Done
  <2>4. CASE BotStops \/ BotStarts \/ UNCHANGED botVars
    BY <1>2, <2>4, RestartStep DEF Done
  <2> QED BY <1>2, <2>1, <2>2, <2>3, <2>4 DEF BotNext
<1> QED BY <1>1, <1>2, PTL DEF BotSpec, DeliveryRefined, Delivered!DeliverySpec

-----------------------------------------------------------------------------
(* The watchdog.                                                           *)

\* While the watchdog takes the market to be open, the heartbeat is no older
\* than the idle time; a checked hour of a closed market has stopped it.
WatchdogInv ==
    /\ MonitoringTypeOK
    /\ wasOpen => beatAge <= idleHours
    /\ checked /\ ~IsMarketOpen(weekHour) => ~wasOpen /\ missCount = 0
    /\ MissMeansIdleMarket

\* The market is open or it is not.
LEMMA OpenIsBoolean == \A h : IsMarketOpen(h) \in BOOLEAN
  BY Zenon DEF IsMarketOpen

\* The hour that is announced lies within two weeks.
LEMMA ChangeBounds ==
    ASSUME NEW h \in 0..167 PROVE NextOpen(h) \in -1..335 /\ NextClose(h) \in -1..335
<1>1. OpenAfter(h) \in 17..329 /\ CloseAfter(h) \in 17..329
  BY DEF OpenAfter, CloseAfter, AtSeventeen, DayOfWeek
<1>2. IsMarketOpen(h) => OpenAfter(CloseAfter(h)) \in -1..335
  BY DEF OpenAfter, CloseAfter, AtSeventeen, DayOfWeek, IsMarketOpen, HourOfDay
<1>3. ~IsMarketOpen(h) => CloseAfter(OpenAfter(h)) \in -1..335
  BY DEF OpenAfter, CloseAfter, AtSeventeen, DayOfWeek, IsMarketOpen, HourOfDay
<1> QED BY <1>1, <1>2, <1>3 DEF NextOpen, NextClose

\* The watchdog starts without a miss and without a check.
LEMMA WatchdogInvInit == MonitoringInit => WatchdogInv
<1> SUFFICES ASSUME MonitoringInit PROVE WatchdogInv
  OBVIOUS
<1>1. /\ weekHour \in 0..167 /\ beatAge \in 0..3 /\ missCount = 0
      /\ nextChange \in -1..335 /\ idleHours \in 0..3 /\ beatAge <= idleHours
  BY DEF MonitoringInit
<1>2. missCount \in 0..MaxMisses /\ MissMeansIdleMarket
  BY <1>1, MonitoringAssumption DEF MonitoringAssumption, MissMeansIdleMarket
<1>3. /\ {wasOpen, lastMarket, ticked, checked} \subseteq BOOLEAN /\ checked = FALSE
      /\ sentNow \subseteq Titles /\ outcome = "none"
  BY Zenon DEF MonitoringInit
<1>4. MonitoringTypeOK
  BY <1>1, <1>2, <1>3 DEF MonitoringTypeOK
<1> QED BY <1>1, <1>2, <1>3, <1>4, Zenon DEF WatchdogInv

\* The hours and counters, the flags, and the titles and outcomes.
LEMMA Typed ==
    ASSUME WatchdogInv
    PROVE  /\ weekHour \in 0..167 /\ beatAge \in 0..3 /\ missCount \in 0..MaxMisses
           /\ nextChange \in -1..335 /\ idleHours \in 0..3 /\ MaxMisses \in Nat
           /\ wasOpen \in BOOLEAN /\ lastMarket \in BOOLEAN
           /\ ticked \in BOOLEAN /\ checked \in BOOLEAN
           /\ sentNow \subseteq Titles
           /\ outcome \in {"none", "filtered", "throttled", "sent", "failed"}
  BY MonitoringAssumption DEF WatchdogInv, MonitoringTypeOK, MonitoringAssumption

\* A new hour ages the heartbeat and the idle time alike; after a closed hour
\* the watchdog waits for the opening.
LEMMA HourStep == ASSUME WatchdogInv, HourPasses PROVE WatchdogInv'
<1>1. /\ weekHour' \in 0..167 /\ beatAge' \in 0..3 /\ missCount' \in 0..MaxMisses
      /\ nextChange' \in -1..335 /\ idleHours' \in 0..3
  BY Typed DEF HourPasses
<1>2. /\ wasOpen' = wasOpen /\ lastMarket' = lastMarket
      /\ ticked' = FALSE /\ checked' = FALSE /\ sentNow' = {} /\ outcome' = "none"
  BY DEF HourPasses
<1>3. {wasOpen', lastMarket', ticked', checked'} \subseteq BOOLEAN
  BY <1>2, Typed
<1>4. MonitoringTypeOK'
  BY <1>1, <1>2, <1>3 DEF MonitoringTypeOK
<1>5. CASE IsMarketOpen(weekHour)
  BY <1>2, <1>4, <1>5, Typed DEF HourPasses, WatchdogInv, MissMeansIdleMarket
<1>6. CASE ~IsMarketOpen(weekHour)
  BY <1>2, <1>4, <1>6, Typed DEF HourPasses, WatchdogInv, MissMeansIdleMarket
<1> QED BY <1>5, <1>6

\* A tick that finishes resets age and misses; one that does not changes neither.
LEMMA TickStep == ASSUME WatchdogInv, TickFinishes \/ TickLeavesNoBeat PROVE WatchdogInv'
<1>1. /\ UNCHANGED <<weekHour, wasOpen, lastMarket, nextChange, sentNow, checked, outcome>>
      /\ ticked' = TRUE
      /\ \/ beatAge' = 0 /\ missCount' = 0 /\ idleHours' = 0
         \/ beatAge' = beatAge /\ missCount' = missCount /\ idleHours' = idleHours
  BY DEF TickFinishes, TickLeavesNoBeat
<1>2. {wasOpen', lastMarket', ticked', checked'} \subseteq BOOLEAN
  BY <1>1, Typed
<1>3. beatAge' \in 0..3 /\ missCount' \in 0..MaxMisses /\ idleHours' \in 0..3
  BY <1>1, Typed
<1>4. MonitoringTypeOK'
  BY <1>1, <1>2, <1>3, Typed DEF MonitoringTypeOK
<1> QED BY <1>1, <1>4 DEF WatchdogInv, MissMeansIdleMarket

\* A miss is counted only with a heartbeat of two hours, measured from the
\* opening; a closed market clears the count.
LEMMA HealthStep == ASSUME WatchdogInv, HealthCheck PROVE WatchdogInv'
<1>1. PICK overdue, reachable \in BOOLEAN :
         (overdue => MayBeOverdue) /\ WatchdogCheck(overdue) /\ MarketTransition(reachable)
  BY DEF HealthCheck
<1>2. checked' = TRUE /\ UNCHANGED <<weekHour, ticked, idleHours>>
  BY DEF HealthCheck
<1>3. lastMarket' \in BOOLEAN /\ nextChange' \in -1..335
  <2>1. CASE reachable /\ IsMarketOpen(weekHour) # lastMarket
    <3>1. lastMarket' = IsMarketOpen(weekHour)
      BY <1>1, <2>1 DEF MarketTransition
    <3>2. nextChange' \in {NextOpen(weekHour), NextClose(weekHour)}
      BY <1>1, <2>1 DEF MarketTransition
    <3>3. lastMarket' \in BOOLEAN
      BY <3>1, OpenIsBoolean, Zenon
    <3>4. NextOpen(weekHour) \in -1..335 /\ NextClose(weekHour) \in -1..335
      BY ChangeBounds, Typed
    <3> QED BY <3>2, <3>3, <3>4
  <2>2. CASE ~(reachable /\ IsMarketOpen(weekHour) # lastMarket)
    <3>1. UNCHANGED <<lastMarket, nextChange>>
      BY <1>1, <2>2, Zenon DEF MarketTransition
    <3> QED BY <3>1, Typed
  <2> QED BY <2>1, <2>2
<1>4. /\ outcome' \in {"none", "filtered", "throttled", "sent", "failed"}
      /\ sentNow' \subseteq Titles
  BY <1>1, Typed DEF WatchdogCheck, NoAlert, Send, Remembered, Reopened, Titles, Severity
<1>5. /\ missCount' \in 0..MaxMisses /\ beatAge' \in 0..3 /\ wasOpen' \in BOOLEAN
      /\ wasOpen' => beatAge' <= idleHours
      /\ ~IsMarketOpen(weekHour) => ~wasOpen' /\ missCount' = 0
      /\ missCount' > 0 => idleHours >= 2
  <2>1. CASE ~IsMarketOpen(weekHour)
    <3>1. missCount' = 0 /\ wasOpen' = FALSE /\ beatAge' = beatAge
      BY <1>1, <2>1 DEF WatchdogCheck
    <3>2. missCount' \in 0..MaxMisses /\ ~(missCount' > 0)
      BY <3>1, Typed
    <3>3. beatAge' \in 0..3
      BY <3>1, Typed
    <3> QED BY <2>1, <3>1, <3>2, <3>3, Zenon
  <2>2. CASE IsMarketOpen(weekHour) /\ ~wasOpen
    <3>1. missCount' = missCount /\ wasOpen' = TRUE /\ beatAge' = 0
      BY <1>1, <2>2 DEF WatchdogCheck, Reopened
    <3>2. /\ missCount \in 0..MaxMisses /\ 0 \in 0..3 /\ 0 <= idleHours
          /\ (missCount > 0 => idleHours >= 2)
      BY Typed DEF WatchdogInv, MissMeansIdleMarket
    <3> QED BY <2>2, <3>1, <3>2
  <2>3. CASE IsMarketOpen(weekHour) /\ wasOpen
    <3>1. /\ beatAge' = beatAge /\ wasOpen' = wasOpen
          /\ \/ missCount' = missCount
             \/ /\ MayBeOverdue
                /\ missCount' = IF missCount = MaxMisses THEN MaxMisses ELSE missCount + 1
      BY <1>1, <2>3 DEF WatchdogCheck
    <3>2. beatAge <= idleHours
      BY <2>3 DEF WatchdogInv
    <3>3. missCount' \in 0..MaxMisses /\ (missCount' > 0 => idleHours >= 2)
      BY <3>1, <3>2, Typed DEF WatchdogInv, MissMeansIdleMarket, MayBeOverdue
    <3> QED BY <2>3, <3>1, <3>2, <3>3, Typed
  <2> QED BY <2>1, <2>2, <2>3
<1>6. MonitoringTypeOK'
  BY <1>2, <1>3, <1>4, <1>5, Typed DEF MonitoringTypeOK
<1> QED BY <1>2, <1>5, <1>6 DEF WatchdogInv, MissMeansIdleMarket

\* The daily report reads and changes nothing of the watchdog.
LEMMA ReportStep == ASSUME WatchdogInv, SendDailyReport PROVE WatchdogInv'
<1>1. /\ outcome' \in {"none", "filtered", "throttled", "sent", "failed"}
      /\ sentNow' \subseteq Titles
  BY Typed DEF SendDailyReport, Send, Remembered, Titles, Severity
<1> QED BY <1>1 DEF SendDailyReport, WatchdogInv, MonitoringTypeOK, MissMeansIdleMarket

\* Every step keeps WatchdogInv.
LEMMA WatchdogStep ==
    ASSUME WatchdogInv, [MonitoringNext]_monitoringVars PROVE WatchdogInv'
<1>1. CASE UNCHANGED monitoringVars
  BY <1>1 DEF monitoringVars, WatchdogInv, MonitoringTypeOK, MissMeansIdleMarket
<1> QED BY <1>1, HourStep, TickStep, HealthStep, ReportStep DEF MonitoringNext

\* For any order of ticks, health checks and reports within the hours, and any
\* filter of the alerts: a miss is counted only in a market that was open and
\* idle for two hours, never for a weekend.
THEOREM MissIsReal == MonitoringSpec => [](MonitoringTypeOK /\ MissMeansIdleMarket)
<1>1. WatchdogInv => MonitoringTypeOK /\ MissMeansIdleMarket
  BY DEF WatchdogInv
<1> QED BY WatchdogInvInit, WatchdogStep, <1>1, PTL DEF MonitoringSpec

-----------------------------------------------------------------------------
(* Operators of the registry.                                              *)

\* The latest version with a status is a version with that status.
LEMMA LatestVersion ==
    ASSUME NEW ms \in Seq(Model), NEW status,
           {v \in DOMAIN ms : ms[v].status = status} # {}
    PROVE  LET latest == Max({v \in DOMAIN ms : ms[v].status = status})
           IN  latest \in DOMAIN ms /\ ms[latest].status = status /\ latest # 0
<1> DEFINE found == {v \in DOMAIN ms : ms[v].status = status}
<1>1. /\ found \in SUBSET Int /\ Len(ms) \in Int
      /\ \A x \in found : x <= Len(ms) /\ x # 0
  BY LenProperties
<1>2. Max(found) \in found
  BY <1>1, MaxIsLargest
<1> QED BY <1>1, <1>2

\* get_active and get_shadow find a version exactly when there is one.
LEMMA LatestFinds ==
    ASSUME models \in Seq(Model), NEW status
    PROVE  /\ Latest(status) # 0 <=> \E v \in DOMAIN models : models[v].status = status
           /\ Latest(status) # 0 => /\ Latest(status) \in DOMAIN models
                                    /\ models[Latest(status)].status = status
<1>1. CASE {v \in DOMAIN models : models[v].status = status} = {}
  BY <1>1 DEF Latest
<1>2. CASE {v \in DOMAIN models : models[v].status = status} # {}
  BY <1>2, LatestVersion DEF Latest
<1> QED BY <1>1, <1>2

\* The same in the state after a step.
LEMMA LatestFindsNext ==
    ASSUME models' \in Seq(Model), NEW status,
           \E v \in DOMAIN models' : models'[v].status = status
    PROVE  Latest(status)' # 0
<1>1. {v \in DOMAIN models' : models'[v].status = status} # {}
  OBVIOUS
<1> QED BY <1>1, LatestVersion DEF Latest

\* The extrema of two numbers.
LEMMA MaxOfTwo ==
    ASSUME NEW a \in Int, NEW b \in Int
    PROVE  Max({a, b}) \in {a, b} /\ a <= Max({a, b}) /\ b <= Max({a, b})
<1> DEFINE n == IF a > b THEN a ELSE b
<1>1. n \in Int /\ \A x \in {a, b} : x <= n
  OBVIOUS
<1> QED BY <1>1, MaxIsLargest

\* Of two numbers the smaller one is the minimum.
LEMMA MinOfTwo ==
    ASSUME NEW a \in Int, NEW b \in Int
    PROVE  Min({a, b}) \in {a, b} /\ Min({a, b}) <= a /\ Min({a, b}) <= b
<1> DEFINE n == IF a < b THEN a ELSE b
<1>1. n \in Int /\ \A x \in {a, b} : n <= x
  OBVIOUS
<1> QED BY <1>1, MinIsSmallest

\* The window ends at the last trade; its length names the artifact, and tells
\* it from every other while the trade log is not longer than the window.
LEMMA WindowType ==
    ASSUME closedTrades \in 0..MaxClosed, closedTrades >= MinRecent
    PROVE  /\ Window \in Interval /\ Window[2] = closedTrades /\ Window # <<0, 0>>
           /\ ArtifactName(Window) \in 0..RecentTrades
           /\ closedTrades <= RecentTrades =>
                  Window = <<1, closedTrades>> /\ ArtifactName(Window) = closedTrades
<1>1. /\ MaxClosed \in Nat /\ RecentTrades \in Nat \ {0} /\ MinRecent \in Nat \ {0}
      /\ closedTrades \in Nat /\ closedTrades >= 1
  BY LearningAssumption DEF LearningAssumption
<1> DEFINE k == closedTrades - RecentTrades + 1
<1>2. Max({1, k}) \in {1, k} /\ 1 <= Max({1, k}) /\ k <= Max({1, k})
  BY <1>1, MaxOfTwo
<1>3. Window = <<Max({1, k}), closedTrades>>
  BY DEF Window
<1>4. ArtifactName(Window) = closedTrades - Max({1, k}) + 1
  BY <1>3 DEF ArtifactName
<1> HIDE DEF Max
<1> QED BY <1>1, <1>2, <1>3, <1>4 DEF Interval

\* The number of records never exceeds the minimum the evaluator waits for.
LEMMA RecordedType ==
    ASSUME NEW n \in 0..ShadowTrades PROVE Recorded(n) \in 0..ShadowTrades
<1>1. ShadowTrades \in Nat /\ n + 1 \in Int /\ n \in Nat
  BY LearningAssumption DEF LearningAssumption
<1>2. Min({n + 1, ShadowTrades}) \in {n + 1, ShadowTrades}
      /\ Min({n + 1, ShadowTrades}) <= ShadowTrades
  BY <1>1, MinOfTwo
<1> QED BY <1>1, <1>2 DEF Recorded

\* A promotion changes statuses only: of the version it names and, when that
\* one becomes active, of the one that was.
LEMMA PromoteKeeps ==
    ASSUME NEW ms \in Seq(Model), NEW v \in DOMAIN ms, NEW status \in Statuses
    PROVE  /\ Promote(ms, v, status) \in Seq(Model)
           /\ Len(Promote(ms, v, status)) = Len(ms)
           /\ DOMAIN Promote(ms, v, status) = DOMAIN ms
           /\ Promote(ms, v, status)[v].status = status
           /\ \A w \in DOMAIN ms :
                 /\ Promote(ms, v, status)[w].trained = ms[w].trained
                 /\ Promote(ms, v, status)[w].file = ms[w].file
                 /\ status # "active" /\ w # v =>
                        Promote(ms, v, status)[w].status = ms[w].status
<1>0. PICK new : new = Promote(ms, v, status)
  OBVIOUS
<1>1. Len(ms) \in Nat /\ DOMAIN ms = 1..Len(ms) /\ \A w \in DOMAIN ms : ms[w] \in Model
  BY LenProperties, ElementOfSeq
<1>2. \A w \in 1..Len(ms) :
         new[w] = IF w = v THEN [ms[w] EXCEPT !.status = status]
                  ELSE IF status = "active" /\ ms[w].status = "active"
                       THEN [ms[w] EXCEPT !.status = "retired"] ELSE ms[w]
  BY <1>0, <1>1 DEF Promote
<1>3. new = [w \in 1..Len(ms) |-> new[w]]
  BY <1>0, <1>1 DEF Promote
<1>4. \A w \in 1..Len(ms) : new[w] \in Model
  BY <1>1, <1>2, ZenonT(40) DEF Model, Statuses
<1>5. new \in Seq(Model) /\ Len(new) = Len(ms) /\ DOMAIN new = 1..Len(ms)
  BY <1>1, <1>3, <1>4
<1>6. \A w \in 1..Len(ms) : new[w].trained = ms[w].trained /\ new[w].file = ms[w].file
  BY <1>1, <1>2 DEF Model
<1>7. new[v].status = status
  BY <1>1, <1>2 DEF Model
<1>8. status # "active" =>
          \A w \in DOMAIN ms : w # v => new[w].status = ms[w].status
  BY <1>1, <1>2
<1> QED BY <1>0, <1>1, <1>5, <1>6, <1>7, <1>8

-----------------------------------------------------------------------------
(* The invariant.                                                          *)

\* Every registered version has its file, and no file holds a blank model.
FilesExist ==
    /\ \A v \in DOMAIN models : models[v].file \in DOMAIN artifacts
    /\ \A f \in DOMAIN artifacts : artifacts[f] # <<0, 0>>

\* While the trade log is not longer than the window every model was trained
\* from the first trade on, and the name of its file is the trade it ends at.
NamesTell ==
    closedTrades <= RecentTrades =>
        /\ \A v \in DOMAIN models : models[v].trained = <<1, models[v].file>>
        /\ \A f \in DOMAIN artifacts : artifacts[f] = <<1, f>>
        /\ bandit.trained # <<0, 0>> =>
               \E v \in DOMAIN models : models[v].trained = bandit.trained

LearningInv == LearningTypeOK /\ FilesExist /\ NamesTell /\ FilterIsEarned

\* A new process has no model and no recorded trade.
LEMMA LearningInvInit == LearningInit => LearningInv
<1> SUFFICES ASSUME LearningInit PROVE LearningInv
  OBVIOUS
<1>1. models = <<>> /\ DOMAIN models = {} /\ models \in Seq(Model) /\ Len(models) = 0
  BY DEF LearningInit
<1>2. MaxClosed \in Nat /\ MaxVersions \in Nat /\ ShadowTrades \in Nat
  BY LearningAssumption DEF LearningAssumption
<1>3. LearningTypeOK
  <2>1. Blank \in [trained : Interval, updated : BOOLEAN] /\ 0 \in 0..ShadowTrades
    BY <1>2 DEF Interval, Blank
  <2>2. DOMAIN artifacts = {}
    BY DEF LearningInit
  <2>3. closedTrades \in 0..MaxClosed /\ Len(models) <= MaxVersions
    BY <1>1, <1>2 DEF LearningInit
  <2> QED BY <1>1, <2>1, <2>2, <2>3 DEF LearningInit, LearningTypeOK
<1> QED BY <1>1, <1>3 DEF LearningInit, LearningInv, FilesExist, NamesTell,
                          FilterIsEarned, Blank

-----------------------------------------------------------------------------
(* The steps.                                                              *)

\* A closed trade leaves the models alone and is counted once.
LEMMA CloseStep == ASSUME LearningInv, TradeCloses PROVE LearningInv'
<1>1. /\ closedTrades' = closedTrades + 1 /\ closedTrades' \in 0..MaxClosed
      /\ UNCHANGED <<models, artifacts>> /\ closedTrades \in Nat
      /\ MaxClosed \in Nat /\ RecentTrades \in Nat
  BY LearningAssumption DEF TradeCloses, LearningInv, LearningTypeOK, LearningAssumption
<1>2. /\ bandit' \in [trained : Interval, updated : BOOLEAN]
      /\ bandit'.trained = bandit.trained
  BY DEF TradeCloses, Updated, LearningInv, LearningTypeOK
<1>3. /\ banditActive' \in BOOLEAN /\ shadowCount' \in 0..ShadowTrades
      /\ banditActive' => \/ banditActive /\ shadowCount' = shadowCount
                          \/ shadowCount' = ShadowTrades
  <2>1. CASE UNCHANGED <<banditActive, shadowCount>>
    BY <2>1 DEF LearningInv, LearningTypeOK
  <2>2. CASE /\ shadowCount' = Recorded(shadowCount)
             /\ \E advantage \in BOOLEAN :
                   banditActive' = MayActivate(shadowCount', advantage)
    <3>1. shadowCount' \in 0..ShadowTrades /\ ShadowTrades \in Nat
      BY <2>2, RecordedType, LearningAssumption
         DEF LearningInv, LearningTypeOK, LearningAssumption
    <3>2. PICK advantage \in BOOLEAN :
              banditActive' = (shadowCount' >= ShadowTrades /\ advantage)
      BY <2>2 DEF MayActivate, EnoughRecords
    <3>3. banditActive' \in BOOLEAN /\ (banditActive' => shadowCount' >= ShadowTrades)
      BY <3>2
    <3> QED BY <3>1, <3>3
  <2> QED BY <2>1, <2>2 DEF TradeCloses
<1>4. LearningTypeOK'
  BY <1>1, <1>2, <1>3 DEF LearningInv, LearningTypeOK
<1>5. FilesExist' /\ NamesTell'
  BY <1>1, <1>2 DEF LearningInv, FilesExist, NamesTell
<1>6. FilterIsEarned'
  BY <1>1, <1>2, <1>3 DEF LearningInv, FilterIsEarned, Latest
<1> QED BY <1>4, <1>5, <1>6 DEF LearningInv

\* Retraining leaves the models alone or adds one, trained on the window and
\* stored in the file named after it.
LEMMA RetrainModels ==
    ASSUME LearningInv, WeeklyRetraining, NEW n, n = Len(models)
    PROVE  \E k \in {n, n + 1} :
              /\ models' \in Seq(Model) /\ Len(models') = k /\ DOMAIN models' = 1..k
              /\ \A v \in 1..n : /\ models'[v].trained = models[v].trained
                                 /\ models'[v].file = models[v].file
                                 /\ models'[v].status = models[v].status
              /\ k = n + 1 => /\ models'[n + 1].trained = Window
                              /\ models'[n + 1].file = ArtifactName(Window)
<1>1. closedTrades \in 0..MaxClosed /\ closedTrades >= MinRecent /\ models \in Seq(Model)
  BY DEF WeeklyRetraining, LearningInv, LearningTypeOK
<1>2. n \in Nat /\ DOMAIN models = 1..n
  BY <1>1, LenProperties
<1>3. PICK new : new = Registered(models, Window, ArtifactName(Window))
  OBVIOUS
<1>4. /\ new \in Seq(Model) /\ Len(new) = n + 1 /\ DOMAIN new = 1..(n + 1)
      /\ \A v \in 1..n : new[v] = models[v]
      /\ new[n + 1].trained = Window /\ new[n + 1].file = ArtifactName(Window)
  <2>1. PICK m : m = [status |-> "training", evaluated |-> FALSE, trained |-> Window,
                      file |-> ArtifactName(Window)]
    OBVIOUS
  <2>2. m \in Model /\ m.trained = Window /\ m.file = ArtifactName(Window)
    BY <1>1, <2>1, WindowType DEF Model, Statuses
  <2>3. new = Append(models, m)
    BY <1>3, <2>1 DEF Registered
  <2>4. /\ new \in Seq(Model) /\ Len(new) = n + 1 /\ DOMAIN new = 1..(n + 1)
        /\ \A v \in 1..n : new[v] = models[v]
        /\ new[n + 1] = m
    BY <1>1, <1>2, <2>2, <2>3
  <2> QED BY <2>2, <2>4
<1>5. CASE models' = Promote(new, Len(new), "shadow")
  <2>1. /\ n + 1 \in DOMAIN new /\ "shadow" \in Statuses /\ "shadow" # "active"
        /\ models' = Promote(new, n + 1, "shadow")
    BY <1>2, <1>4, <1>5 DEF Statuses
  <2>2. /\ models' \in Seq(Model) /\ Len(models') = n + 1 /\ DOMAIN models' = 1..(n + 1)
        /\ \A v \in 1..(n + 1) : /\ models'[v].trained = new[v].trained
                                 /\ models'[v].file = new[v].file
        /\ \A v \in 1..(n + 1) : v # n + 1 => models'[v].status = new[v].status
    <3>0. PICK ms : ms = Promote(new, n + 1, "shadow")
      OBVIOUS
    <3>1. /\ ms \in Seq(Model) /\ Len(ms) = Len(new) /\ DOMAIN ms = DOMAIN new
          /\ \A v \in DOMAIN new :
                /\ ms[v].trained = new[v].trained /\ ms[v].file = new[v].file
                /\ "shadow" # "active" /\ v # n + 1 => ms[v].status = new[v].status
      <4>1. new \in Seq(Model) /\ n + 1 \in DOMAIN new /\ "shadow" \in Statuses
        BY <1>4, <2>1
      <4>2. PICK k \in DOMAIN new : k = n + 1
        BY <4>1
      <4> QED BY <3>0, <4>1, <4>2, PromoteKeeps
    <3>2. models' = ms
      BY <2>1, <3>0
    <3> QED BY <1>4, <2>1, <3>1, <3>2
  <2>3. \A v \in 1..n : v \in 1..(n + 1) /\ v # n + 1
    BY <1>2
  <2>4. n + 1 \in 1..(n + 1)
    BY <1>2
  <2> QED BY <1>4, <2>2, <2>3, <2>4
<1>6. CASE models' = models
  <2>1. n # n + 1
    BY <1>2
  <2> QED BY <1>1, <1>2, <1>6, <2>1
<1>7. CASE models' = new
  BY <1>4, <1>7
<1> QED BY <1>3, <1>5, <1>6, <1>7 DEF WeeklyRetraining, RetrainBandit

\* A retraining adds at most one version and writes the file of its window.
LEMMA RetrainStep == ASSUME LearningInv, WeeklyRetraining PROVE LearningInv'
<1>1. PICK n \in Nat : n = Len(models) /\ DOMAIN models = 1..n
  BY LenProperties DEF LearningInv, LearningTypeOK
<1>2. PICK k \in {n, n + 1} :
          /\ models' \in Seq(Model) /\ Len(models') = k /\ DOMAIN models' = 1..k
          /\ \A v \in 1..n : /\ models'[v].trained = models[v].trained
                             /\ models'[v].file = models[v].file
                             /\ models'[v].status = models[v].status
          /\ k = n + 1 => /\ models'[n + 1].trained = Window
                          /\ models'[n + 1].file = ArtifactName(Window)
  BY <1>1, RetrainModels
<1>3. PICK name : name = ArtifactName(Window)
  OBVIOUS
<1>4. /\ closedTrades \in 0..MaxClosed /\ closedTrades' = closedTrades
      /\ Window \in Interval /\ Window # <<0, 0>>
      /\ closedTrades <= RecentTrades => Window = <<1, name>>
  BY <1>3, WindowType DEF WeeklyRetraining, LearningInv, LearningTypeOK
<1>5. /\ DOMAIN artifacts' = DOMAIN artifacts \cup {name}
      /\ \A f \in DOMAIN artifacts' :
            artifacts'[f] = IF f = name THEN Window ELSE artifacts[f]
  BY <1>3 DEF WeeklyRetraining, RetrainBandit
<1>6. \/ UNCHANGED <<bandit, banditActive, shadowCount>>
      \/ bandit' = Blank /\ banditActive' = FALSE /\ shadowCount' = 0
  BY DEF WeeklyRetraining, RetrainBandit
<1>7. /\ \A v \in 1..n : v \in 1..k
      /\ \A v \in 1..k : v \in 1..n \/ (v = n + 1 /\ k = n + 1)
  <2>1. CASE k = n
    BY <2>1
  <2>2. CASE k = n + 1
    BY <2>2
  <2> QED BY <2>1, <2>2
<1>8. LearningTypeOK'
  <2>1. Len(models') <= MaxVersions
    <3>1. n < MaxVersions /\ MaxVersions \in Nat
      BY <1>1, LearningAssumption DEF WeeklyRetraining, LearningAssumption
    <3> QED BY <1>2, <3>1
  <2>2. Blank \in [trained : Interval, updated : BOOLEAN] /\ 0 \in 0..ShadowTrades
    BY LearningAssumption DEF Blank, Interval, LearningAssumption
  <2>3. \A f \in DOMAIN artifacts' : artifacts'[f] \in Interval
    BY <1>4, <1>5 DEF LearningInv, LearningTypeOK
  <2>4. /\ bandit' \in [trained : Interval, updated : BOOLEAN]
        /\ banditActive' \in BOOLEAN /\ shadowCount' \in 0..ShadowTrades
    BY <1>6, <2>2 DEF LearningInv, LearningTypeOK
  <2> QED BY <1>2, <1>4, <2>1, <2>3, <2>4 DEF LearningTypeOK
<1>9. FilesExist'
  <2>1. \A v \in 1..n : models[v].file \in DOMAIN artifacts
    BY <1>1 DEF LearningInv, FilesExist
  <2>2. \A v \in 1..k : models'[v].file \in DOMAIN artifacts'
    BY <1>2, <1>3, <1>5, <1>7, <2>1
  <2>3. \A f \in DOMAIN artifacts' : artifacts'[f] # <<0, 0>>
    BY <1>4, <1>5 DEF LearningInv, FilesExist
  <2> QED BY <1>2, <2>2, <2>3 DEF FilesExist
<1>10. NamesTell'
  <2> SUFFICES ASSUME closedTrades <= RecentTrades
               PROVE  /\ \A v \in 1..k : models'[v].trained = <<1, models'[v].file>>
                      /\ \A f \in DOMAIN artifacts' : artifacts'[f] = <<1, f>>
                      /\ bandit'.trained # <<0, 0>> =>
                            \E v \in 1..k : models'[v].trained = bandit'.trained
    BY <1>2, <1>4 DEF NamesTell
  <2>1. /\ \A v \in 1..n : models[v].trained = <<1, models[v].file>>
        /\ \A f \in DOMAIN artifacts : artifacts[f] = <<1, f>>
        /\ bandit.trained # <<0, 0>> =>
               \E v \in 1..n : models[v].trained = bandit.trained
    BY <1>1 DEF LearningInv, NamesTell
  <2>2. \A v \in 1..k : models'[v].trained = <<1, models'[v].file>>
    BY <1>2, <1>3, <1>4, <1>7, <2>1
  <2>3. \A f \in DOMAIN artifacts' : artifacts'[f] = <<1, f>>
    BY <1>4, <1>5, <2>1
  <2>4. CASE bandit' = bandit
    BY <1>2, <1>7, <2>1, <2>2, <2>3, <2>4
  <2>5. CASE bandit' = Blank
    BY <2>2, <2>3, <2>5 DEF Blank
  <2> QED BY <1>6, <2>4, <2>5
<1>11. FilterIsEarned'
  <2>1. CASE banditActive' = FALSE
    BY <2>1 DEF FilterIsEarned
  <2>2. CASE UNCHANGED <<bandit, banditActive, shadowCount>>
    <3>1. Latest("active") # 0 => \E v \in 1..n : models[v].status = "active"
      BY <1>1, LatestFinds DEF LearningInv, LearningTypeOK
    <3>2. Latest("active") # 0 => \E v \in DOMAIN models' : models'[v].status = "active"
      BY <1>2, <1>7, <3>1
    <3>3. Latest("active") # 0 => Latest("active")' # 0
      BY <1>2, <3>2, LatestFindsNext
    <3> QED BY <2>2, <3>3 DEF LearningInv, FilterIsEarned
  <2> QED BY <1>6, <2>1, <2>2
<1> QED BY <1>8, <1>9, <1>10, <1>11 DEF LearningInv

\* An evaluation only marks the model that is in the shadow.
LEMMA EvaluateStep == ASSUME LearningInv, EvaluateShadow PROVE LearningInv'
<1> DEFINE s == Latest("shadow")
<1>1. /\ models' = [models EXCEPT ![s].evaluated = TRUE]
      /\ UNCHANGED <<closedTrades, artifacts, bandit, banditActive, shadowCount>>
      /\ models \in Seq(Model) /\ s \in DOMAIN models
  BY LatestFinds DEF EvaluateShadow, LearningInv, LearningTypeOK
<1>2. PICK n \in Nat : n = Len(models) /\ DOMAIN models = 1..n
  BY <1>1, LenProperties
<1> HIDE DEF s
<1>3. /\ models' \in Seq(Model) /\ Len(models') = n /\ DOMAIN models' = 1..n
      /\ \A v \in 1..n : /\ models'[v].trained = models[v].trained
                         /\ models'[v].file = models[v].file
                         /\ models'[v].status = models[v].status
  <2>1. \A v \in 1..n : models[v] \in Model
    BY <1>1, <1>2, ElementOfSeq
  <2>2. \A v \in 1..n :
           models'[v] = IF v = s THEN [models[v] EXCEPT !.evaluated = TRUE] ELSE models[v]
    BY <1>1, <1>2
  <2>3. \A v \in 1..n : /\ models'[v] \in Model
                         /\ models'[v].trained = models[v].trained
                         /\ models'[v].file = models[v].file
                         /\ models'[v].status = models[v].status
    BY <2>1, <2>2 DEF Model
  <2>4. models' = [v \in 1..n |-> models'[v]]
    BY <1>1, <1>2
  <2> QED BY <2>3, <2>4
<1>4. LearningTypeOK' /\ FilesExist' /\ NamesTell'
  BY <1>1, <1>2, <1>3 DEF LearningInv, LearningTypeOK, FilesExist, NamesTell
<1>5. Latest("active") # 0 => Latest("active")' # 0
  BY <1>1, <1>2, <1>3, LatestFinds, LatestFindsNext
<1>6. FilterIsEarned'
  BY <1>1, <1>5 DEF LearningInv, FilterIsEarned
<1> QED BY <1>4, <1>6 DEF LearningInv

\* A promotion replaces the active model by an evaluated one.
LEMMA AutoPromoteStep == ASSUME LearningInv, AutoPromote PROVE LearningInv'
<1> DEFINE s == Latest("shadow")
<1>1. /\ models' = Promote(models, s, "active") /\ "active" \in Statuses
      /\ UNCHANGED <<closedTrades, artifacts, bandit, banditActive, shadowCount>>
      /\ models \in Seq(Model) /\ s \in DOMAIN models
  BY LatestFinds DEF AutoPromote, LearningInv, LearningTypeOK, Statuses
<1>2. PICK n \in Nat : n = Len(models) /\ DOMAIN models = 1..n
  BY <1>1, LenProperties
<1> HIDE DEF s
<1>3. /\ models' \in Seq(Model) /\ Len(models') = n /\ DOMAIN models' = 1..n
      /\ models'[s].status = "active"
      /\ \A v \in 1..n : models'[v].trained = models[v].trained
                         /\ models'[v].file = models[v].file
  BY <1>1, <1>2, PromoteKeeps
<1>4. LearningTypeOK' /\ FilesExist' /\ NamesTell'
  BY <1>1, <1>2, <1>3 DEF LearningInv, LearningTypeOK, FilesExist, NamesTell
<1>5. Latest("active")' # 0
  BY <1>1, <1>2, <1>3, LatestFindsNext
<1>6. FilterIsEarned'
  BY <1>1, <1>5 DEF LearningInv, FilterIsEarned
<1> QED BY <1>4, <1>6 DEF LearningInv

\* A new process filters only with the file of a promoted model.
LEMMA LearningRestartStep == ASSUME LearningInv, LearningRestart PROVE LearningInv'
<1>1. /\ UNCHANGED <<closedTrades, models, artifacts>> /\ shadowCount' = 0
      /\ models \in Seq(Model)
  BY DEF LearningRestart, LearningInv, LearningTypeOK
<1>2. Latest("active")' = Latest("active")
  BY <1>1 DEF Latest
<1>3. Blank \in [trained : Interval, updated : BOOLEAN] /\ 0 \in 0..ShadowTrades
  BY LearningAssumption DEF Blank, Interval, LearningAssumption
<1>4. CASE banditActive' = FALSE /\ bandit' = Blank
  BY <1>1, <1>3, <1>4
     DEF LearningInv, LearningTypeOK, FilesExist, NamesTell, FilterIsEarned, Blank
<1>5. CASE /\ banditActive' = TRUE /\ Latest("active") # 0
           /\ bandit' = Loaded(Latest("active"))
  <2>1. PICK v \in DOMAIN models : v = Latest("active")
    BY <1>1, <1>5, LatestFinds
  <2>2. /\ bandit' = [trained |-> artifacts[models[v].file], updated |-> FALSE]
        /\ models[v].file \in DOMAIN artifacts
        /\ artifacts[models[v].file] \in Interval
        /\ artifacts[models[v].file] # <<0, 0>>
    BY <1>5, <2>1 DEF Loaded, LearningInv, FilesExist, LearningTypeOK
  <2>3. /\ bandit' \in [trained : Interval, updated : BOOLEAN]
        /\ bandit'.trained = artifacts[models[v].file]
    BY <2>2
  <2>4. closedTrades <= RecentTrades => models[v].trained = bandit'.trained
    BY <2>2, <2>3 DEF LearningInv, NamesTell
  <2>5. LearningTypeOK' /\ FilesExist'
    BY <1>1, <1>3, <1>5, <2>3 DEF LearningInv, LearningTypeOK, FilesExist
  <2>6. NamesTell'
    BY <1>1, <2>4 DEF LearningInv, NamesTell
  <2>7. FilterIsEarned'
    BY <1>2, <1>5, <2>2, <2>3 DEF FilterIsEarned
  <2> QED BY <2>5, <2>6, <2>7 DEF LearningInv
<1>6. PICK fits \in BOOLEAN : LoadBanditModel(fits)
  BY DEF LearningRestart
<1>7. \/ banditActive' = FALSE /\ bandit' = Blank
      \/ /\ banditActive' = TRUE /\ Latest("active") # 0
         /\ bandit' = Loaded(Latest("active"))
  BY <1>6 DEF LoadBanditModel
<1> QED BY <1>4, <1>5, <1>7

\* Every step keeps LearningInv.
LEMMA LearningStep ==
    ASSUME LearningInv, [LearningNext]_learningVars PROVE LearningInv'
<1>1. CASE UNCHANGED learningVars
  BY <1>1 DEF learningVars, LearningInv, LearningTypeOK, FilesExist, NamesTell,
              FilterIsEarned, Latest
<1> QED BY <1>1, CloseStep, RetrainStep, EvaluateStep, AutoPromoteStep, LearningRestartStep
        DEF LearningNext

\* For every window, minimum and number of trades and versions, with a crash
\* between any two writes of a retraining: while the trade log fits in the
\* window, every version keeps its artifact, and the weights that were loaded
\* are those of a version.
THEOREM ArtifactsKept == LearningSpec => []ArtifactsAreKept
<1>1. LearningInv => ArtifactsAreKept
  BY DEF LearningInv, NamesTell, FilesExist, ArtifactsAreKept
<1> QED BY LearningInvInit, LearningStep, <1>1, PTL DEF LearningSpec

\* The bandit filters entries only after the minimum of records in shadow mode,
\* or with the weights of a promoted model, whatever the order of trades,
\* retrainings, promotions and restarts.
THEOREM FilterEarned == LearningSpec => []FilterIsEarned
<1>1. LearningInv => FilterIsEarned
  BY DEF LearningInv
<1> QED BY LearningInvInit, LearningStep, <1>1, PTL DEF LearningSpec

-----------------------------------------------------------------------------
(* Parameter sets.                                                         *)

\* A regime has at most one active set, and it was measured.
OneActive ==
    \A r \in OptimizedRegimes : \A i, j \in ActiveIds(paramSets, r) :
        i = j /\ paramSets[i].score # NoScore

\* The set the job is at is the newest one, of its regime, and not active.
NewestStored ==
    /\ stored = 0 <=> optimizing = "none"
    /\ stored # 0 => /\ stored = Len(paramSets)
                     /\ paramSets[stored].regime = optimizing
                     /\ ~paramSets[stored].active

ParametersInv == ParametersTypeOK /\ OneActive /\ NewestStored

\* No active set is lost to an older one.
NoneOlder ==
    \A r \in OptimizedRegimes : \A i \in ActiveIds(paramSets, r) :
        \E j \in ActiveIds(paramSets', r) : j >= i

\* No set is stored at the start.
LEMMA ParametersInvInit == ParametersInit => ParametersInv
<1> SUFFICES ASSUME ParametersInit PROVE ParametersInv
  OBVIOUS
<1>1. paramSets \in Seq(Row) /\ Len(paramSets) = 0 /\ DOMAIN paramSets = {}
  BY DEF ParametersInit
<1>2. ParametersTypeOK
  <2>1. Len(paramSets) <= MaxParamSets
    BY <1>1, ParametersAssumption DEF ParametersAssumption
  <2>2. /\ toOptimize \subseteq OptimizedRegimes /\ longAllowed \in BOOLEAN
        /\ optimizing \in OptimizedRegimes \cup {"none"}
    BY DEF ParametersInit
  <2>3. stored \in 0..Len(paramSets)
    BY <1>1 DEF ParametersInit
  <2> QED BY <1>1, <2>1, <2>2, <2>3 DEF ParametersTypeOK
<1> QED BY <1>1, <1>2 DEF ParametersInit, ParametersInv, OneActive, NewestStored, ActiveIds

\* The rows are the elements of a sequence; a regime is never "none".
LEMMA Rows ==
    ASSUME ParametersInv
    PROVE  /\ Len(paramSets) \in Nat /\ DOMAIN paramSets = 1..Len(paramSets)
           /\ \A i \in 1..Len(paramSets) : paramSets[i] \in Row
           /\ "none" \notin OptimizedRegimes /\ stored \in 0..Len(paramSets)
           /\ optimizing \in OptimizedRegimes \cup {"none"}
  BY LenProperties, ElementOfSeq, ParametersAssumption
     DEF ParametersInv, ParametersTypeOK, ParametersAssumption, Composite

\* A new row is not active.
LEMMA SaveStep == ASSUME ParametersInv, SaveParams PROVE ParametersInv' /\ NoneOlder
<1>1. PICK r \in toOptimize :
         /\ toOptimize' = toOptimize \ {r}
         /\ \/ UNCHANGED <<paramSets, optimizing, stored>>
            \/ /\ Len(paramSets) < MaxParamSets
               /\ paramSets' = Append(paramSets,
                      [regime |-> r, trade |-> OptimizedTrade(r),
                       closeWeak |-> OptimizedCloseWeak(r), score |-> NoScore,
                       active |-> FALSE])
               /\ optimizing' = r /\ stored' = Len(paramSets')
  BY DEF SaveParams
<1>2. longAllowed' = longAllowed /\ r \in OptimizedRegimes
  BY DEF SaveParams, ParametersInv, ParametersTypeOK
<1>3. PICK n \in Nat : n = Len(paramSets) /\ DOMAIN paramSets = 1..n
  BY Rows
<1>4. CASE UNCHANGED <<paramSets, optimizing, stored>>
  <2>1. ParametersTypeOK'
    BY <1>1, <1>2, <1>4 DEF ParametersInv, ParametersTypeOK
  <2>2. OneActive' /\ NewestStored' /\ NoneOlder
    BY <1>3, <1>4 DEF ParametersInv, OneActive, NewestStored, NoneOlder, ActiveIds
  <2> QED BY <2>1, <2>2 DEF ParametersInv
<1>5. CASE ~UNCHANGED <<paramSets, optimizing, stored>>
  <2>1. PICK row : row = [regime |-> r, trade |-> OptimizedTrade(r),
                          closeWeak |-> OptimizedCloseWeak(r), score |-> NoScore,
                          active |-> FALSE]
    OBVIOUS
  <2>2. row \in Row /\ row.regime = r /\ ~row.active
    BY <1>2, <2>1 DEF Row, OptimizedTrade, OptimizedCloseWeak
  <2>3. /\ paramSets' = Append(paramSets, row) /\ optimizing' = r
        /\ stored' = Len(paramSets') /\ n < MaxParamSets
    BY <1>1, <1>3, <1>5, <2>1
  <2>4. /\ paramSets' \in Seq(Row) /\ Len(paramSets') = n + 1
        /\ DOMAIN paramSets' = 1..(n + 1)
        /\ \A i \in 1..n : paramSets'[i] = paramSets[i]
        /\ paramSets'[n + 1] = row
    BY <1>3, <2>2, <2>3 DEF ParametersInv, ParametersTypeOK
  <2>5. \A s : ActiveIds(paramSets', s) = ActiveIds(paramSets, s)
    <3>1. \A i : i \in 1..(n + 1) <=> i \in 1..n \/ i = n + 1
      BY <1>3
    <3> QED BY <1>3, <2>2, <2>4, <3>1 DEF ActiveIds
  <2>6. OneActive' /\ NoneOlder
    <3>1. \A s : \A i \in ActiveIds(paramSets, s) : i \in 1..n
      BY <1>3 DEF ActiveIds
    <3> QED BY <2>4, <2>5, <3>1 DEF ParametersInv, OneActive, NoneOlder
  <2>7. r # "none" /\ stored' = n + 1
    BY <1>2, <2>3, <2>4, Rows
  <2>8. NewestStored'
    BY <2>2, <2>3, <2>4, <2>7 DEF NewestStored
  <2>9. n + 1 <= MaxParamSets
    BY <1>3, <2>3, ParametersAssumption DEF ParametersAssumption
  <2>10. ParametersTypeOK'
    BY <1>1, <1>2, <2>3, <2>4, <2>7, <2>9 DEF ParametersInv, ParametersTypeOK
  <2> QED BY <2>6, <2>8, <2>10 DEF ParametersInv
<1> QED BY <1>4, <1>5

\* A score changes no active set: the row that is measured is not active.
LEMMA RecordStep == ASSUME ParametersInv, RecordPerformance PROVE ParametersInv' /\ NoneOlder
<1>1. PICK score \in Scores : paramSets' = [paramSets EXCEPT ![stored].score = score]
  BY DEF RecordPerformance
<1>2. stored # 0 /\ UNCHANGED <<toOptimize, optimizing, stored, longAllowed>>
  BY DEF RecordPerformance
<1>3. PICK n \in Nat : n = Len(paramSets) /\ DOMAIN paramSets = 1..n
  BY Rows
<1>4. /\ \A i \in 1..n : paramSets[i] \in Row
      /\ stored = n /\ n \in 1..n /\ paramSets[n].regime = optimizing /\ ~paramSets[n].active
  BY <1>2, <1>3, Rows DEF ParametersInv, NewestStored
<1>5. \A i \in 1..n :
         paramSets'[i] = IF i = n THEN [paramSets[i] EXCEPT !.score = score]
                         ELSE paramSets[i]
  BY <1>1, <1>3, <1>4
<1>6. \A i \in 1..n : /\ paramSets'[i] \in Row
                       /\ paramSets'[i].regime = paramSets[i].regime
                       /\ paramSets'[i].active = paramSets[i].active
  BY <1>4, <1>5 DEF Row
<1>7. paramSets' = [i \in 1..n |-> paramSets'[i]]
  BY <1>1, <1>3
<1>8. paramSets' \in Seq(Row) /\ Len(paramSets') = n /\ DOMAIN paramSets' = 1..n
  BY <1>6, <1>7
<1>9. \A s : ActiveIds(paramSets', s) = ActiveIds(paramSets, s)
  BY <1>3, <1>6, <1>8 DEF ActiveIds
<1>10. \A s : \A i \in ActiveIds(paramSets, s) : i \in 1..n /\ i # n
  BY <1>3, <1>4 DEF ActiveIds
<1>11. OneActive' /\ NoneOlder
  <2>1. \A s : \A i \in ActiveIds(paramSets, s) : paramSets'[i] = paramSets[i]
    BY <1>5, <1>10
  <2>2. OneActive'
    BY <1>9, <2>1 DEF ParametersInv, OneActive
  <2>3. \A i \in 1..n : i >= i
    OBVIOUS
  <2>4. NoneOlder
    BY <1>9, <1>10, <2>3 DEF NoneOlder
  <2> QED BY <2>2, <2>4
<1>12. NewestStored'
  BY <1>2, <1>4, <1>6, <1>8 DEF ParametersInv, NewestStored
<1>13. ParametersTypeOK'
  BY <1>2, <1>3, <1>8 DEF ParametersInv, ParametersTypeOK
<1> QED BY <1>11, <1>12, <1>13 DEF ParametersInv

\* Activation leaves one active set for the regime, the newest one.
LEMMA ActivateStep == ASSUME ParametersInv, Activate PROVE ParametersInv' /\ NoneOlder
<1>1. /\ stored # 0 /\ paramSets[stored].score # NoScore
      /\ paramSets' = Activated(paramSets, stored, optimizing)
      /\ optimizing' = "none" /\ stored' = 0 /\ UNCHANGED <<toOptimize, longAllowed>>
  BY SMTT(30) DEF Activate
<1>2. PICK n \in Nat : n = Len(paramSets) /\ DOMAIN paramSets = 1..n
  BY Rows
<1>3. /\ \A i \in 1..n : paramSets[i] \in Row
      /\ stored = n /\ n \in 1..n /\ paramSets[n].regime = optimizing
  BY <1>1, <1>2, Rows DEF ParametersInv, NewestStored
<1>4. paramSets' = [i \in 1..n |->
          IF i = n THEN [paramSets[i] EXCEPT !.active = TRUE]
          ELSE IF paramSets[i].regime = optimizing THEN [paramSets[i] EXCEPT !.active = FALSE]
          ELSE paramSets[i]]
  BY <1>1, <1>2, <1>3 DEF Activated
<1>5. \A i \in 1..n :
         /\ paramSets'[i] \in Row
         /\ paramSets'[i].regime = paramSets[i].regime
         /\ paramSets'[i].score = paramSets[i].score
         /\ paramSets'[i].active = IF i = n THEN TRUE
                                   ELSE IF paramSets[i].regime = optimizing THEN FALSE
                                   ELSE paramSets[i].active
  BY <1>3, <1>4 DEF Row
<1>6. paramSets' \in Seq(Row) /\ Len(paramSets') = n /\ DOMAIN paramSets' = 1..n
  <2>1. paramSets' = [i \in 1..n |-> paramSets'[i]]
    BY <1>4
  <2>2. \A i \in 1..n : paramSets'[i] \in Row
    BY <1>5
  <2> QED BY <2>1, <2>2
<1>7. \A s : ActiveIds(paramSets', s) =
               IF s = optimizing THEN {n} ELSE ActiveIds(paramSets, s)
  BY <1>2, <1>3, <1>5, <1>6, ZenonT(40) DEF ActiveIds
<1>8. \A s : \A i \in ActiveIds(paramSets, s) : i \in 1..n
  BY <1>2 DEF ActiveIds
<1>9. OneActive' /\ NoneOlder
  <2>1. \A i \in 1..n : paramSets'[i].score = paramSets[i].score
    BY <1>5
  <2>2. paramSets'[n].score # NoScore
    BY <1>1, <1>3, <2>1
  <2>3. OneActive'
    <3> SUFFICES ASSUME NEW s \in OptimizedRegimes, NEW i \in ActiveIds(paramSets', s),
                        NEW j \in ActiveIds(paramSets', s)
                 PROVE  i = j /\ paramSets'[i].score # NoScore
      BY DEF OneActive
    <3>1. CASE s = optimizing
      BY <1>7, <2>2, <3>1
    <3>2. CASE s # optimizing
      <4>1. i \in ActiveIds(paramSets, s) /\ j \in ActiveIds(paramSets, s)
        BY <1>7, <3>2
      <4> QED BY <1>8, <2>1, <4>1 DEF ParametersInv, OneActive
    <3> QED BY <3>1, <3>2
  <2>4. \A i \in 1..n : i >= i /\ n >= i
    OBVIOUS
  <2>5. NoneOlder
    BY <1>7, <1>8, <2>4 DEF NoneOlder
  <2> QED BY <2>3, <2>5
<1>10. NewestStored'
  BY <1>1 DEF NewestStored
<1>11. ParametersTypeOK'
  BY <1>1, <1>2, <1>6 DEF ParametersInv, ParametersTypeOK
<1> QED BY <1>9, <1>10, <1>11 DEF ParametersInv

\* The other steps, a job that dies among them, leave the rows alone.
LEMMA OtherStep ==
    ASSUME ParametersInv,
           WeeklyOptimization \/ JobDies \/ AskToEnter \/ UNCHANGED parametersVars
    PROVE  ParametersInv' /\ NoneOlder
<1>1. /\ paramSets' = paramSets /\ toOptimize' \subseteq OptimizedRegimes
      /\ \/ UNCHANGED <<optimizing, stored>>
         \/ optimizing' = "none" /\ stored' = 0
      /\ longAllowed' \in BOOLEAN
  <2>1. CASE AskToEnter
    <3>1. PICK adx, up, ratio, strength :
             longAllowed' = ShouldEnterLong(AdaptedParams, Detect(adx, up, ratio), strength)
      BY <2>1 DEF AskToEnter
    <3>2. longAllowed' \in BOOLEAN
      BY <3>1, Zenon DEF ShouldEnterLong
    <3> QED BY <2>1, <3>2 DEF AskToEnter, ParametersInv, ParametersTypeOK
  <2>2. CASE WeeklyOptimization \/ JobDies \/ UNCHANGED parametersVars
    BY <2>2, SMTT(30) DEF WeeklyOptimization, JobDies, parametersVars, ParametersInv, ParametersTypeOK
  <2> QED BY <2>1, <2>2
<1>2. PICK n \in Nat : n = Len(paramSets) /\ DOMAIN paramSets = 1..n
  BY Rows
<1>3. ParametersTypeOK'
  BY <1>1, <1>2 DEF ParametersInv, ParametersTypeOK
<1>4. OneActive' /\ NewestStored' /\ NoneOlder
  BY <1>1, <1>2 DEF ParametersInv, OneActive, NewestStored, NoneOlder, ActiveIds
<1> QED BY <1>3, <1>4 DEF ParametersInv

\* For any regimes and any number of sets, and a job that dies between any two
\* of its transactions: a regime has at most one active set, it was measured,
\* and it gives way only to a newer one.
THEOREM SetsMeasured == ParametersSpec => ActiveSetsAreMeasured
<1>1. ParametersInv /\ [ParametersNext]_parametersVars => ParametersInv' /\ NoneOlder
  BY SaveStep, RecordStep, ActivateStep, OtherStep DEF ParametersNext
<1>2. ParametersInv => OneActive
  BY DEF ParametersInv
<1>3. ParametersInv /\ [ParametersNext]_parametersVars => [NoneOlder]_parametersVars
  BY <1>1
<1> QED BY ParametersInvInit, <1>1, <1>2, <1>3, PTL
        DEF ParametersSpec, ActiveSetsAreMeasured, OneActive, NoneOlder

=============================================================================
