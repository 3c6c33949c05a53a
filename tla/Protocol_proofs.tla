--------------------------- MODULE Protocol_proofs ---------------------------
(***************************************************************************)
(* Theorems about the paper-trading protocol: its status is saved at every *)
(* step, the thresholds that degrade it are softer than those that abort   *)
(* it, the history it judges is the one that is stored, in order, and what *)
(* it leaves in the store is a journal.                                    *)
(***************************************************************************)
EXTENDS Protocol, Operators_proofs, FiniteSetTheorems, TLAPS

-----------------------------------------------------------------------------
(* The status in the store.                                                *)

\* A new protocol is RUNNING, and so is its row.
LEMMA SavedInit == Init => StatusSaved
  BY DEF Init, StatusSaved

\* Recording a day saves the status it leads to.
LEMMA RecordSaves ==
    ASSUME StatusSaved, step # "down", late = {}, RecordResult
    PROVE  row' = [status |-> status', reason |-> reason']
<1>1. CASE RecordNothing
  BY <1>1 DEF RecordNothing, StatusSaved, protocol, store
<1>2. ASSUME NEW e \in Levels, RecordDay(e)
      PROVE  row' = [status |-> status', reason |-> reason']
  BY <1>2 DEF RecordDay, Save
<1> QED BY <1>1, <1>2 DEF RecordResult

\* No step separates the saved status from the one in memory, but the rollover
\* for as long as it takes: a step that changes the one writes the other, and a
\* restart reads it back.
LEMMA SavedStep == ASSUME StatusSaved, [Next]_vars PROVE StatusSaved'
<1>1. CASE Midnight \/ TradeAndCheck \/ NoAbort \/ UNCHANGED vars
  BY <1>1 DEF Midnight, TradeAndCheck, NoAbort, vars, protocol, store, StatusSaved
<1>2. CASE NewDay
  <2>1. step # "down" /\ step' = step /\ late = {} /\ RecordResult
    BY <1>2 DEF NewDay
  <2> QED BY <2>1, RecordSaves DEF StatusSaved
<1>3. CASE Degrade
  BY <1>3 DEF Degrade, StatusSaved
<1>4. CASE Recover
  BY <1>4 DEF Recover, StatusSaved
<1>5. CASE Abort \/ Stop \/ Crash
  BY <1>5 DEF Abort, Stop, Crash, StatusSaved
<1>6. CASE Restart
  BY <1>6 DEF Restart, StatusSaved
<1>7. CASE RolloverRecords
  <2>1. late' # {} /\ late = {} /\ step # "down" /\ step' = step /\ row' = row
    BY <1>7 DEF RolloverRecords, store
  <2>2. reason' = reason /\ status' \in {status, "COMPLETED"}
    BY <1>7 DEF RolloverRecords, Remember
  <2> QED BY <2>1, <2>2 DEF StatusSaved
<1>8. CASE RolloverSaves
  BY <1>8 DEF RolloverSaves, Save, StatusSaved
<1> QED BY <1>1, <1>2, <1>3, <1>4, <1>5, <1>6, <1>7, <1>8 DEF Next, Tick, DailyRollover

\* Whatever changes the status (degrade, recover, the last day recorded by
\* the tick, a restart) leaves it in the store, so a crash between any two steps
\* resumes in it; the last day of the rollover is in the store when it has ended.
THEOREM StatusAlwaysSaved == Spec => []StatusSaved
<1>1. StatusSaved /\ [Next]_vars => StatusSaved'
  BY SavedStep
<1> QED BY SavedInit, <1>1, PTL DEF Spec

-----------------------------------------------------------------------------
(* The thresholds.                                                         *)

\* What the defaults of DegradedCriteria and AbortCriteria satisfy.
ThresholdsOrdered ==
    /\ DegradeDD <= AbortDD
    /\ DegradeLosing <= AbortLosing
    /\ DegradeCB <= AbortCB
    /\ AbortWin <= DegradeWin

\* The percentages of the three sets of criteria are natural numbers.
LEMMA ThresholdsNatural ==
    /\ DegradeDD \in Nat /\ AbortDD \in Nat
    /\ DegradeWin \in Nat /\ AbortWin \in Nat
<1>1. \A c \in {DegradeDD, DegradeWin, AbortDD, AbortWin, RecoverDD} : c \in 0..100
  BY ProtocolAssumption, Zenon DEF ProtocolAssumption
<1>2. \A c : c \in 0..100 => c \in Nat
  OBVIOUS
<1> QED BY <1>1, <1>2, Zenon

\* A factor at least as large keeps a product with a natural number at least as large.
LEMMA Scaled ==
    ASSUME NEW a \in Nat, NEW b \in Nat, NEW c \in Nat, a <= b
    PROVE  a * c <= b * c
  OBVIOUS

\* A drawdown over the abort limit is over the lower degraded limit.
LEMMA DrawdownSofter ==
    ASSUME ThresholdsOrdered, NEW h \in Seq(Day), DrawdownOver(h, AbortDD)
    PROVE  DrawdownOver(h, DegradeDD)
<1>1. PICK i \in DOMAIN h :
          (h[i].equity - Last(h).equity) * 100 > AbortDD * h[i].equity
  BY DEF DrawdownOver
<1>2. Len(h) \in DOMAIN h
  <2>1. Len(h) \in Nat /\ DOMAIN h = 1..Len(h) /\ i \in 1..Len(h)
    OBVIOUS
  <2> QED BY <2>1
<1>3. h[i].equity \in Nat /\ Last(h).equity \in Nat
  <2>1. h[i] \in Day /\ h[Len(h)] \in Day
    BY <1>1, <1>2
  <2> QED BY <2>1, ProtocolAssumption DEF Last, Day
<1>4. DegradeDD * h[i].equity <= AbortDD * h[i].equity
  <2>1. DegradeDD \in Nat /\ AbortDD \in Nat /\ DegradeDD <= AbortDD
    BY ThresholdsNatural DEF ThresholdsOrdered
  <2> QED BY <1>3, <2>1, Scaled
<1>5. /\ DegradeDD * h[i].equity \in Nat /\ AbortDD * h[i].equity \in Nat
      /\ (h[i].equity - Last(h).equity) * 100 \in Int
  BY <1>3, ThresholdsNatural
<1>6. (h[i].equity - Last(h).equity) * 100 > DegradeDD * h[i].equity
  BY <1>1, <1>4, <1>5
<1> QED BY <1>6 DEF DrawdownOver

\* A losing streak of the abort length contains one of the degraded length.
LEMMA StreakSofter ==
    ASSUME ThresholdsOrdered, NEW h \in Seq(Day), LosingStreak(h, AbortLosing)
    PROVE  LosingStreak(h, DegradeLosing)
  BY ProtocolAssumption DEF LosingStreak, Recent, ThresholdsOrdered

\* The sets of days the criteria count are finite.
LEMMA DaysFinite ==
    ASSUME NEW h \in Seq(Day), NEW S, S \subseteq DOMAIN h
    PROVE  Cardinality(S) \in Nat
<1>1. Len(h) \in Nat /\ DOMAIN h = 1..Len(h)
  OBVIOUS
<1>2. IsFiniteSet(DOMAIN h)
  BY <1>1, FS_Interval
<1> QED BY <1>2, FS_Subset, FS_CardinalityType

\* As many breaker days as abort are at least as many as degrade.
LEMMA BreakersSofter ==
    ASSUME ThresholdsOrdered, NEW h \in Seq(Day), BreakerDays(h) >= AbortCB
    PROVE  BreakerDays(h) >= DegradeCB
<1>1. BreakerDays(h) \in Nat
  BY DaysFinite DEF BreakerDays
<1> QED BY <1>1, ProtocolAssumption DEF ThresholdsOrdered

\* A win rate under the abort limit is under the higher degraded limit.
LEMMA WinRateSofter ==
    ASSUME ThresholdsOrdered, NEW h \in Seq(Day), WinRateUnder(h, AbortWin)
    PROVE  WinRateUnder(h, DegradeWin)
<1> DEFINE won == Cardinality(WinningDays(h))
           all == Cardinality(ActiveDays(h))
<1>1. won \in Nat /\ all \in Nat
  BY DaysFinite DEF WinningDays, ActiveDays
<1>2. won * 100 < AbortWin * all
  BY DEF WinRateUnder
<1> HIDE DEF won, all
<1>c. AbortWin \in Nat /\ DegradeWin \in Nat /\ AbortWin <= DegradeWin
  BY ThresholdsNatural DEF ThresholdsOrdered
<1>3. AbortWin * all <= DegradeWin * all
  BY <1>1, <1>c, Scaled
<1>4. AbortWin * all \in Nat /\ DegradeWin * all \in Nat
  BY <1>1, <1>c
<1>5. won * 100 < DegradeWin * all
  BY <1>1, <1>2, <1>3, <1>4
<1> QED BY <1>5 DEF WinRateUnder, won, all

\* "These fire BEFORE AbortCriteria": with ordered thresholds, a history of
\* any length that meets an abort criterion meets a degrade criterion, so the
\* degrade check of the same tick never finds less than the abort check.
THEOREM SofterThresholds ==
    ASSUME ThresholdsOrdered, TypeOK PROVE SofterFirst
<1>1. days \in Seq(Day)
  BY DEF TypeOK
<1> QED BY <1>1, DrawdownSofter, StreakSofter, BreakersSofter, WinRateSofter
        DEF SofterFirst, AbortConditions, DegradeConditions

-----------------------------------------------------------------------------
(* The history and the table of days.                                      *)

Elements(h)   == {h[i] : i \in DOMAIN h}
Increasing(h) == \A i, j \in DOMAIN h : i < j => h[i].date < h[j].date

\* Recording a day, not older than those in the history, leaves the history in
\* order, without the day of the same date and with this one.
LEMMA RecordedDays ==
    ASSUME NEW h \in Seq(Day), Increasing(h), NEW day \in Day,
           \A i \in DOMAIN h : h[i].date <= day.date
    PROVE  /\ Recorded(h, day) \in Seq(Day) /\ Increasing(Recorded(h, day))
           /\ \A i \in DOMAIN Recorded(h, day) : Recorded(h, day)[i].date <= day.date
           /\ Elements(Recorded(h, day)) = {x \in Elements(h) : x.date # day.date} \cup {day}
<1>1. PICK n \in Nat : n = Len(h) /\ DOMAIN h = 1..n /\ \A i \in 1..n : h[i] \in Day
  OBVIOUS
<1>2. day.date \in Int /\ \A i \in 1..n : h[i].date \in Int
  BY <1>1, ProtocolAssumption DEF ProtocolAssumption, Day, Date
<1>3. CASE \E i \in DOMAIN h : h[i].date = day.date
  <2>1. PICK r : r = Recorded(h, day)
    OBVIOUS
  <2>2. r = [i \in 1..n |-> IF h[i].date = day.date THEN day ELSE h[i]]
    BY <1>1, <1>3, <2>1 DEF Recorded
  <2>3. /\ DOMAIN r = 1..n
        /\ \A i \in 1..n : /\ r[i] \in Day /\ r[i].date = h[i].date
                           /\ h[i].date = day.date => r[i] = day
                           /\ h[i].date # day.date => r[i] = h[i]
    BY <1>1, <2>2
  <2>4. r \in Seq(Day)
    BY <2>2, <2>3
  <2>5. Increasing(r) /\ \A i \in 1..n : r[i].date <= day.date
    BY <1>1, <2>3 DEF Increasing
  <2>6. PICK k \in 1..n : h[k].date = day.date
    BY <1>1, <1>3
  <2>7. Elements(r) = {x \in Elements(h) : x.date # day.date} \cup {day}
    <3>1. ASSUME NEW x \in Elements(r)
          PROVE  \/ x = day
                 \/ x \in Elements(h) /\ x.date # day.date
      <4>1. PICK i \in 1..n : x = r[i]
        BY <2>3 DEF Elements
      <4>2. h[i] \in Elements(h)
        BY <1>1 DEF Elements
      <4>3. CASE h[i].date = day.date
        <5>1. r[i] = day
          BY <2>3, <4>3
        <5> QED BY <4>1, <5>1, Zenon
      <4>4. CASE h[i].date # day.date
        <5>1. x = h[i]
          BY <2>3, <4>1, <4>4
        <5> QED BY <4>2, <4>4, <5>1
      <4> QED BY <4>3, <4>4
    <3>2. ASSUME NEW x \in Elements(h), x.date # day.date PROVE x \in Elements(r)
      <4>1. PICK i \in 1..n : x = h[i]
        BY <1>1 DEF Elements
      <4> QED BY <2>3, <3>2, <4>1 DEF Elements
    <3>3. day \in Elements(r)
      BY <2>3, <2>6 DEF Elements
    <3> QED BY <3>1, <3>2, <3>3
  <2> QED BY <2>1, <2>3, <2>4, <2>5, <2>7
<1>4. CASE ~\E i \in DOMAIN h : h[i].date = day.date
  <2>1. PICK r : r = Recorded(h, day)
    OBVIOUS
  <2>2. r = Append(h, day)
    BY <1>4, <2>1 DEF Recorded
  <2>3. /\ r \in Seq(Day) /\ DOMAIN r = 1..(n + 1) /\ r[n + 1] = day
        /\ \A i \in 1..n : r[i] = h[i]
    BY <1>1, <2>2
  <2>4. \A i \in 1..n : h[i].date < day.date
    BY <1>1, <1>2, <1>4
  <2>5. \A i : i \in 1..(n + 1) <=> i \in 1..n \/ i = n + 1
    BY <1>1
  <2>6. Increasing(r)
    <3> SUFFICES ASSUME NEW i \in 1..(n + 1), NEW j \in 1..(n + 1), i < j
                 PROVE  r[i].date < r[j].date
      BY <2>3 DEF Increasing
    <3>1. i \in 1..n
      BY <1>1
    <3>2. CASE j = n + 1
      BY <2>3, <2>4, <3>1, <3>2
    <3>3. CASE j \in 1..n
      BY <1>1, <2>3, <3>1, <3>3 DEF Increasing
    <3> QED BY <2>5, <3>2, <3>3
  <2>7. \A i \in 1..(n + 1) : r[i].date <= day.date
    BY <1>1, <1>2, <2>3, <2>5
  <2>8. Elements(r) = Elements(h) \cup {day}
    BY <1>1, <2>3, <2>5 DEF Elements
  <2>9. \A x \in Elements(h) : x.date # day.date
    BY <1>4 DEF Elements
  <2> QED BY <2>1, <2>3, <2>6, <2>7, <2>8, <2>9
<1> QED BY <1>3, <1>4

\* Reading the table back gives its days, each once and in order.
LEMMA SortedDays ==
    ASSUME NEW S \in SUBSET Date, NEW table \in [S -> Day],
           \A d \in S : table[d].date = d
    PROVE  /\ Sorted(table) \in Seq(Day) /\ Increasing(Sorted(table))
           /\ Elements(Sorted(table)) = {table[d] : d \in S}
<1>0. MaxDate \in Nat /\ S \in SUBSET (1..MaxDate) /\ DOMAIN table = S
  BY ProtocolAssumption DEF ProtocolAssumption, Date
<1>1. PICK c \in Nat : c = Cardinality(S)
  BY <1>0, RankNatural
<1> DEFINE at(i) == CHOOSE d \in S : Rank(S, d) = i - 1
<1>2. ASSUME NEW i \in 1..c PROVE at(i) \in S /\ Rank(S, at(i)) = i - 1
  <2>1. i - 1 \in 0..(Cardinality(S) - 1)
    BY <1>1
  <2>2. \E d \in S : Rank(S, d) = i - 1
    BY <1>0, <2>1, RankTaken
  <2> QED BY <2>2
<1>3. PICK r : r = Sorted(table)
  OBVIOUS
<1>4. r = [i \in 1..c |-> table[at(i)]]
  BY <1>0, <1>1, <1>3 DEF Sorted, Rank
<1>5. ASSUME NEW i \in 1..c, NEW j \in 1..c, i < j PROVE at(i) < at(j)
  <2>1. Rank(S, at(i)) < Rank(S, at(j)) /\ at(i) \in S /\ at(j) \in S
    BY <1>2, <1>5
  <2>2. at(i) # at(j)
    BY <1>2, <1>5
  <2>3. ~(at(j) < at(i))
    <3> SUFFICES ASSUME at(j) < at(i) PROVE FALSE
      OBVIOUS
    <3>1. Rank(S, at(j)) < Rank(S, at(i))
      BY <1>0, <2>1, RankGrows
    <3>2. Rank(S, at(j)) = j - 1 /\ Rank(S, at(i)) = i - 1
      BY <1>2
    <3> QED BY <1>5, <3>1, <3>2
  <2>4. at(i) \in Int /\ at(j) \in Int
    <3>1. \A e \in S : e \in Int
      BY <1>0
    <3> QED BY <2>1, <3>1
  <2> HIDE DEF at
  <2> QED BY <2>2, <2>3, <2>4
<1>6. ASSUME NEW d \in S PROVE \E i \in 1..c : at(i) = d
  <2>1. Rank(S, d) \in 0..(c - 1)
    BY <1>0, <1>1, RankNatural
  <2>2. PICK i \in 1..c : i - 1 = Rank(S, d)
    <3>1. PICK k \in 0..(c - 1) : k = Rank(S, d)
      BY <2>1
    <3>2. k + 1 \in 1..c /\ k + 1 - 1 = k
      BY <3>1
    <3> QED BY <3>1, <3>2
  <2>3. at(i) \in S /\ Rank(S, at(i)) = Rank(S, d)
    BY <1>2, <2>2
  <2>4. ~(at(i) < d) /\ ~(d < at(i))
    <3>1. ~(Rank(S, d) < Rank(S, at(i))) /\ ~(Rank(S, at(i)) < Rank(S, d))
      BY <2>1, <2>3
    <3> QED BY <1>0, <2>3, <3>1, RankGrows
  <2>5. at(i) \in Int /\ d \in Int
    <3>1. \A e \in S : e \in Int
      BY <1>0
    <3> QED BY <2>3, <3>1
  <2> HIDE DEF at
  <2> QED BY <2>4, <2>5
<1> HIDE DEF at
<1>7. /\ DOMAIN r = 1..c
      /\ \A i \in 1..c : r[i] = table[at(i)] /\ r[i] \in Day /\ r[i].date = at(i)
  BY <1>2, <1>4
<1>8. r \in Seq(Day)
  BY <1>4, <1>7
<1>9. Increasing(r)
  BY <1>5, <1>7 DEF Increasing
<1>10. Elements(r) = {table[d] : d \in S}
  <2>1. \A x \in Elements(r) : \E d \in S : x = table[d]
    BY <1>2, <1>7 DEF Elements
  <2>2. \A d \in S : table[d] \in Elements(r)
    BY <1>6, <1>7 DEF Elements
  <2> QED BY <2>1, <2>2
<1> QED BY <1>3, <1>8, <1>9, <1>10

\* Two histories in order that have the same days are the same.
LEMMA SameDays ==
    ASSUME NEW h \in Seq(Day), NEW g \in Seq(Day), Increasing(h), Increasing(g),
           Elements(h) = Elements(g)
    PROVE  h = g
<1>1. PICK n \in Nat : n = Len(h) /\ DOMAIN h = 1..n
  OBVIOUS
<1>2. PICK m \in Nat : m = Len(g) /\ DOMAIN g = 1..m
  OBVIOUS
<1>3. /\ \A i \in 1..n : h[i].date \in Int
      /\ \A i \in 1..m : g[i].date \in Int
  <2>1. \A d \in Day : d.date \in Int
    BY ProtocolAssumption DEF ProtocolAssumption, Day, Date
  <2>2. (\A i \in 1..n : h[i] \in Day) /\ (\A i \in 1..m : g[i] \in Day)
    BY <1>1, <1>2
  <2> QED BY <2>1, <2>2
<1>4. /\ \A i \in 1..n : \E j \in 1..m : g[j] = h[i]
      /\ \A j \in 1..m : \E i \in 1..n : h[i] = g[j]
  BY <1>1, <1>2 DEF Elements
<1>5. /\ \A i, j \in 1..n : i < j => h[i].date < h[j].date
      /\ \A i, j \in 1..m : i < j => g[i].date < g[j].date
  BY <1>1, <1>2 DEF Increasing
<1>6. \A i \in (1..n) \cap (1..m) : h[i] = g[i]
  <2> DEFINE T == {i \in (1..n) \cap (1..m) : h[i] # g[i]}
  <2> SUFFICES ASSUME T # {} PROVE FALSE
    OBVIOUS
  <2>1. T \in SUBSET Nat
    OBVIOUS
  <2>2. PICK k \in T : \A i \in T : k <= i
    BY <2>1, LeastNatural
  <2>3. k \in 1..n /\ k \in 1..m /\ h[k] # g[k]
    OBVIOUS
  <2>4. \A i \in (1..n) \cap (1..m) : i < k => h[i] = g[i]
    BY <2>2
  <2> HIDE DEF T
  <2>5. g[k].date < h[k].date
    <3>1. PICK j \in 1..m : g[j] = h[k]
      BY <1>4, <2>3
    <3>2. ~(j < k)
      <4> SUFFICES ASSUME j < k PROVE FALSE
        OBVIOUS
      <4>1. j \in 1..n
        BY <2>3
      <4>2. h[j] = h[k]
        BY <2>4, <3>1, <4>1
      <4>3. h[j].date < h[k].date /\ h[k].date \in Int
        BY <1>3, <1>5, <2>3, <4>1
      <4> QED BY <4>2, <4>3
    <3>3. k < j
      BY <2>3, <3>1, <3>2
    <3> QED BY <1>5, <2>3, <3>1, <3>3
  <2>6. h[k].date < g[k].date
    <3>1. PICK j \in 1..n : h[j] = g[k]
      BY <1>4, <2>3
    <3>2. ~(j < k)
      <4> SUFFICES ASSUME j < k PROVE FALSE
        OBVIOUS
      <4>1. j \in 1..m
        BY <2>3
      <4>2. g[j] = g[k]
        BY <2>4, <3>1, <4>1
      <4>3. g[j].date < g[k].date /\ g[k].date \in Int
        BY <1>3, <1>5, <2>3, <4>1
      <4> QED BY <4>2, <4>3
    <3>3. k < j
      BY <2>3, <3>1, <3>2
    <3> QED BY <1>5, <2>3, <3>1, <3>3
  <2> QED BY <1>3, <2>3, <2>5, <2>6
<1>7. ~(n < m)
  <2> SUFFICES ASSUME n < m PROVE FALSE
    OBVIOUS
  <2>1. PICK i \in 1..n : h[i] = g[n + 1]
    BY <1>4
  <2>2. g[i] = g[n + 1] /\ g[i].date < g[n + 1].date /\ g[i].date \in Int
    BY <1>3, <1>5, <1>6, <2>1
  <2> QED BY <2>2
<1>8. ~(m < n)
  <2> SUFFICES ASSUME m < n PROVE FALSE
    OBVIOUS
  <2>1. PICK i \in 1..m : g[i] = h[m + 1]
    BY <1>4
  <2>2. h[i] = h[m + 1] /\ h[i].date < h[m + 1].date /\ h[i].date \in Int
    BY <1>3, <1>5, <1>6, <2>1
  <2> QED BY <2>2
<1>9. n = m
  BY <1>7, <1>8
<1>10. Len(h) = Len(g) /\ \A i \in 1..Len(h) : h[i] = g[i]
  BY <1>1, <1>2, <1>6, <1>9
<1> QED BY <1>10

\* A history in order with the days of a table is the table read back, and has
\* as many days as the table.
LEMMA HistoryOfTable ==
    ASSUME NEW table, DOMAIN table \subseteq Date, table \in [DOMAIN table -> Day],
           \A d \in DOMAIN table : table[d].date = d,
           NEW h \in Seq(Day), Increasing(h),
           Elements(h) = {table[d] : d \in DOMAIN table}
    PROVE  h = Sorted(table) /\ Len(h) = Cardinality(DOMAIN table)
<1>1. PICK S : S = DOMAIN table
  OBVIOUS
<1>2. /\ Sorted(table) \in Seq(Day) /\ Increasing(Sorted(table))
      /\ Elements(Sorted(table)) = {table[d] : d \in S}
  BY <1>1, SortedDays
<1>3. h = Sorted(table)
  BY <1>1, <1>2, SameDays
<1>4. PICK c \in Nat : c = Cardinality(DOMAIN table)
  <2>1. MaxDate \in Nat /\ DOMAIN table \in SUBSET (1..MaxDate)
    BY ProtocolAssumption DEF ProtocolAssumption, Date
  <2> QED BY <2>1, RankNatural
<1>5. DOMAIN h = 1..c
  BY <1>3, <1>4 DEF Sorted
<1> QED BY <1>3, <1>4, <1>5

-----------------------------------------------------------------------------
(* The history while the program runs.                                     *)

\* What the table is once the rollover has stored what it recorded.
Known == IF late = {} THEN {rows} ELSE {Stored(day) : day \in late}

SameElements(h, table) == Elements(h) = {table[d] : d \in DOMAIN table}

\* The days of the history and of the table are no later than the day that has
\* begun, which is the one the rollover may be storing; an active protocol has
\* both alike, and a review follows a beginning.
ProtocolInv ==
    /\ TypeOK
    /\ today <= date
    /\ step \in {"degrade", "recover", "abort"} => today # 0
    /\ \A d \in DOMAIN rows : rows[d].date = d /\ d <= today
    /\ \A i \in DOMAIN days : days[i].date <= today
    /\ Increasing(days)
    /\ \A day \in late : day.date = today /\ late = {day}
    /\ step # "down" /\ status \in Active => \E table \in Known : SameElements(days, table)

\* A new protocol has no day and no row.
LEMMA ProtocolInvInit == Init => ProtocolInv
<1> SUFFICES ASSUME Init PROVE ProtocolInv
  OBVIOUS
<1>1. 1 \in Date /\ 0 \in 0..MaxRestarts
  BY ProtocolAssumption DEF ProtocolAssumption, Date
<1>5. 0 \in Closes /\ FALSE \in Opens
  BY ProtocolAssumption, Zenon DEF ProtocolAssumption
<1>2. days \in Seq(Day) /\ DOMAIN days = {}
  BY DEF Init
<1>3. DOMAIN rows = {} /\ rows \in [DOMAIN rows -> Day]
  BY DEF Init
<1>4. TypeOK
  <2>1. /\ start \in Levels /\ cb \in BOOLEAN /\ closed \in Closes /\ opened \in Opens
    BY <1>5, Zenon DEF Init
  <2>2. /\ status \in Status /\ reason \in Reason /\ today \in Date \cup {0}
        /\ step \in {"idle", "degrade", "recover", "abort", "down"} /\ date \in Date
        /\ row \in [status : Status, reason : Reason] /\ restarts \in 0..MaxRestarts
        /\ late \subseteq Day
    BY <1>1 DEF Init, Status, Active, Reason
  <2> QED BY <1>2, <1>3, <2>1, <2>2 DEF TypeOK
<1>6. late = {} /\ rows \in Known /\ SameElements(days, rows)
  BY <1>2, <1>3 DEF Init, Known, SameElements, Elements
<1> QED BY <1>2, <1>3, <1>4, <1>6 DEF Init, ProtocolInv, Increasing

\* The day of today, whatever the account reports.
LEMMA TodayIsDay ==
    ASSUME ProtocolInv, today # 0, NEW e \in Levels
    PROVE  Today(e) \in Day /\ Today(e).date = today
<1>1. today \in Date /\ closed \in Closes /\ opened \in Opens /\ cb \in BOOLEAN
  BY DEF ProtocolInv, TypeOK
<1>2. e - start \in Int
  BY ProtocolAssumption DEF ProtocolAssumption, ProtocolInv, TypeOK
<1>3. Sign(e - start) \in {-1, 0, 1}
  BY <1>2 DEF Sign
<1> QED BY <1>1, <1>3 DEF Today, Day

\* A day is stored under its date.
LEMMA StoredDay ==
    ASSUME ProtocolInv, NEW day \in Day, day.date = today
    PROVE  /\ DOMAIN Stored(day) \subseteq Date
           /\ Stored(day) \in [DOMAIN Stored(day) -> Day]
           /\ \A d \in DOMAIN Stored(day) : Stored(day)[d].date = d /\ d <= today
           /\ {Stored(day)[d] : d \in DOMAIN Stored(day)} =
                  {x \in {rows[d] : d \in DOMAIN rows} : x.date # today} \cup {day}
<1>1. PICK t : t = Stored(day)
  OBVIOUS
<1>2. /\ DOMAIN rows \subseteq Date /\ \A d \in DOMAIN rows : rows[d] \in Day
      /\ \A d \in DOMAIN rows : rows[d].date = d /\ d <= today
  BY DEF ProtocolInv, TypeOK
<1>3. today \in Date /\ today <= today
  <2>1. today \in Date
    BY DEF Day
  <2> QED BY <2>1, ProtocolAssumption DEF ProtocolAssumption, Date
<1>4. t = [d \in DOMAIN rows \cup {today} |-> IF d = today THEN day ELSE rows[d]]
  BY <1>1 DEF Stored
<1>5. /\ DOMAIN t = DOMAIN rows \cup {today} /\ t[today] = day
      /\ \A d \in DOMAIN rows : d # today => t[d] = rows[d]
  BY <1>4
<1>6. \A d \in DOMAIN t : t[d] \in Day /\ t[d].date = d /\ d <= today
  BY <1>2, <1>3, <1>5
<1>7. t \in [DOMAIN t -> Day] /\ DOMAIN t \subseteq Date
  BY <1>2, <1>3, <1>4, <1>5, <1>6
<1>8. {t[d] : d \in DOMAIN t} =
          {x \in {rows[d] : d \in DOMAIN rows} : x.date # today} \cup {day}
  <2>1. ASSUME NEW d \in DOMAIN t
        PROVE  \/ t[d] = day
               \/ t[d] \in {rows[c] : c \in DOMAIN rows} /\ t[d].date # today
    <3>1. CASE d = today
      BY <1>5, <3>1, Zenon
    <3>2. CASE d # today
      <4>1. d \in DOMAIN rows /\ t[d] = rows[d] /\ t[d].date = d
        BY <1>5, <1>6, <3>2
      <4> QED BY <3>2, <4>1
    <3> QED BY <3>1, <3>2
  <2>2. ASSUME NEW d \in DOMAIN rows, rows[d].date # today
        PROVE  rows[d] \in {t[c] : c \in DOMAIN t}
    BY <1>2, <1>5, <2>2
  <2>3. day \in {t[c] : c \in DOMAIN t}
    BY <1>5
  <2> QED BY <2>1, <2>2, <2>3
<1> QED BY <1>1, <1>6, <1>7, <1>8

\* A day recorded in a history that is known and stored in the table makes the
\* two alike again, and the history is as long as the table.
LEMMA RecordedKnown ==
    ASSUME ProtocolInv, NEW day \in Day, day.date = today,
           NEW table \in Known, SameElements(days, table)
    PROVE  /\ SameElements(Recorded(days, day), Stored(day))
           /\ Recorded(days, day) = Sorted(Stored(day))
           /\ Len(Recorded(days, day)) = Cardinality(DOMAIN Stored(day))
<1> DEFINE Past == {x \in {rows[d] : d \in DOMAIN rows} : x.date # today}
<1>1. PICK h : h = Recorded(days, day)
  OBVIOUS
<1>2. days \in Seq(Day) /\ Increasing(days) /\ \A i \in DOMAIN days : days[i].date <= day.date
  BY DEF ProtocolInv, TypeOK
<1>3. /\ h \in Seq(Day) /\ Increasing(h)
      /\ Elements(h) = {x \in Elements(days) : x.date # today} \cup {day}
  BY <1>1, <1>2, RecordedDays
<1>4. {x \in Elements(days) : x.date # today} = Past
  <2>1. CASE late = {}
    BY <2>1 DEF Known, SameElements
  <2>2. CASE late # {}
    <3>1. PICK l \in late : table = Stored(l)
      BY <2>2 DEF Known
    <3>2. l \in Day /\ l.date = today
      BY <3>1 DEF ProtocolInv, TypeOK
    <3>3. Elements(days) = Past \cup {l}
      BY <3>1, <3>2, StoredDay DEF SameElements
    <3> QED BY <3>2, <3>3
  <2> QED BY <2>1, <2>2
<1>5. PICK t : t = Stored(day)
  OBVIOUS
<1>6. /\ DOMAIN t \subseteq Date /\ t \in [DOMAIN t -> Day]
      /\ \A d \in DOMAIN t : t[d].date = d
      /\ {t[d] : d \in DOMAIN t} = Past \cup {day}
  BY <1>5, StoredDay
<1>7. Elements(h) = {t[d] : d \in DOMAIN t}
  BY <1>3, <1>4, <1>6
<1>8. h = Sorted(t) /\ Len(h) = Cardinality(DOMAIN t)
  BY <1>3, <1>6, <1>7, HistoryOfTable
<1> QED BY <1>1, <1>5, <1>7, <1>8 DEF SameElements

\* What remembering a day leaves of the history, whether or not it was active.
LEMMA RememberStep ==
    ASSUME ProtocolInv, step # "down", NEW day \in Day, day.date = today, Remember(day)
    PROVE  /\ days' \in Seq(Day) /\ status' \in Status /\ reason' = reason
           /\ \A i \in DOMAIN days' : days'[i].date <= today
           /\ Increasing(days')
           /\ status' \in Active => SameElements(days', Stored(day))
<1>1. days \in Seq(Day) /\ Increasing(days) /\ \A i \in DOMAIN days : days[i].date <= day.date
  BY DEF ProtocolInv, TypeOK
<1>2. PICK h : h = Recorded(days, day)
  OBVIOUS
<1>3. h \in Seq(Day) /\ Increasing(h) /\ \A i \in DOMAIN h : h[i].date <= today
  BY <1>1, <1>2, RecordedDays
<1>4. /\ days' = IF status \in Active THEN h ELSE days
      /\ status' \in {status, "COMPLETED"} /\ reason' = reason
  BY <1>2 DEF Remember
<1>5. status' \in Status
  BY <1>4 DEF ProtocolInv, TypeOK, Status
<1>6. ASSUME status' \in Active PROVE SameElements(days', Stored(day))
  <2>1. status \in Active
    BY <1>4, <1>6 DEF Active
  <2>2. \E table \in Known : SameElements(days, table)
    BY <2>1 DEF ProtocolInv
  <2>3. SameElements(h, Stored(day))
    BY <1>2, <2>2, RecordedKnown
  <2> QED BY <1>4, <2>1, <2>3
<1> QED BY <1>1, <1>3, <1>4, <1>5, <1>6

\* What recording leaves behind.
Recording ==
    /\ days' \in Seq(Day) /\ status' \in Status /\ reason' \in Reason
    /\ row' \in [status : Status, reason : Reason]
    /\ DOMAIN rows' \subseteq Date /\ rows' \in [DOMAIN rows' -> Day]
    /\ \A d \in DOMAIN rows' : rows'[d].date = d /\ d <= today
    /\ \A i \in DOMAIN days' : days'[i].date <= today
    /\ Increasing(days')
    /\ late = {} /\ status' \in Active => SameElements(days', rows')

\* A result replaces the same day on both sides.
LEMMA RecordStep ==
    ASSUME ProtocolInv, step # "down", RecordResult PROVE Recording
<1>1. CASE RecordNothing
  <2>1. UNCHANGED <<status, reason, days, row, rows>>
    BY <1>1 DEF RecordNothing, protocol, store
  <2>2. late = {} /\ status \in Active => SameElements(days, rows)
    BY DEF ProtocolInv, Known
  <2> QED BY <2>1, <2>2 DEF ProtocolInv, TypeOK, Recording, SameElements
<1>2. ASSUME today # 0, NEW e \in Levels, RecordDay(e) PROVE Recording
  <2>1. PICK day \in Day : day = Today(e) /\ day.date = today
    BY <1>2, TodayIsDay
  <2>2. /\ Remember(day) /\ rows' = Stored(day)
        /\ row' = [status |-> status', reason |-> reason']
    BY <1>2, <2>1 DEF RecordDay, Save
  <2>3. /\ days' \in Seq(Day) /\ status' \in Status /\ reason' = reason
        /\ \A i \in DOMAIN days' : days'[i].date <= today
        /\ Increasing(days')
        /\ status' \in Active => SameElements(days', rows')
    BY <2>1, <2>2, RememberStep
  <2>4. reason \in Reason
    BY DEF ProtocolInv, TypeOK
  <2>5. /\ DOMAIN rows' \subseteq Date /\ rows' \in [DOMAIN rows' -> Day]
        /\ \A d \in DOMAIN rows' : rows'[d].date = d /\ d <= today
    BY <2>1, <2>2, StoredDay
  <2> QED BY <2>2, <2>3, <2>4, <2>5 DEF Recording
<1> QED BY <1>1, <1>2 DEF RecordResult

\* The day that ended is recorded before the new one begins.
LEMMA NewDayStep == ASSUME ProtocolInv, NewDay PROVE ProtocolInv'
<1>1. step # "down" /\ late = {} /\ late' = {} /\ RecordResult
  BY DEF NewDay
<1>2. Recording
  BY <1>1, RecordStep
<1>3. /\ date' = date /\ date \in Date /\ today \in Date \cup {0} /\ today <= date
      /\ date <= date
  <2>1. date \in Date
    BY DEF ProtocolInv, TypeOK
  <2>2. date <= date
    BY <2>1, ProtocolAssumption DEF ProtocolAssumption, Date
  <2> QED BY <2>1, <2>2 DEF NewDay, ProtocolInv, TypeOK
<1>4. /\ today' = date /\ step' = "idle" /\ restarts' = restarts
      /\ start' \in Levels /\ cb' \in BOOLEAN /\ closed' = 0 /\ opened' = FALSE
  BY DEF NewDay
<1>5. closed' \in Closes /\ opened' \in Opens
  BY <1>4, ProtocolAssumption, Zenon DEF ProtocolAssumption
<1>6. TypeOK'
  BY <1>1, <1>2, <1>3, <1>4, <1>5 DEF Recording, ProtocolInv, TypeOK
<1>7. \A d : d \in Date /\ d <= today => d <= date
  BY <1>3, ProtocolAssumption DEF ProtocolAssumption, Date
<1>8. \A d \in DOMAIN rows' : rows'[d].date = d /\ d <= today'
  BY <1>2, <1>4, <1>7 DEF Recording
<1>9. \A i \in DOMAIN days' : days'[i].date <= today'
  <2>1. ASSUME NEW i \in DOMAIN days' PROVE days'[i].date \in Date
    <3>1. days' \in Seq(Day)
      BY <1>2 DEF Recording
    <3>2. days'[i] \in Day
      BY <3>1
    <3> QED BY <3>2 DEF Day
  <2> QED BY <1>2, <1>4, <1>7, <2>1 DEF Recording
<1>10. status' \in Active => \E table \in Known' : SameElements(days', table)
  BY <1>1, <1>2 DEF Recording, Known, SameElements, Elements
<1>11. today' <= date' /\ Increasing(days)' /\ \A day \in late' : FALSE
  BY <1>1, <1>2, <1>3, <1>4 DEF Recording, Increasing
<1> QED BY <1>4, <1>6, <1>8, <1>9, <1>10, <1>11 DEF ProtocolInv

\* stop() records the day; the process is down.
LEMMA StopStep == ASSUME ProtocolInv, Stop PROVE ProtocolInv'
<1>1. /\ step # "down" /\ RecordResult /\ step' = "down" /\ restarts' \in 0..MaxRestarts
      /\ UNCHANGED <<today, start, cb, closed, opened, date, late>>
  BY ProtocolAssumption
     DEF Stop, counters, ProtocolAssumption, ProtocolInv, TypeOK
<1>2. Recording
  BY <1>1, RecordStep
<1>3. TypeOK'
  BY <1>1, <1>2 DEF Recording, ProtocolInv, TypeOK
<1>4. today' <= date' /\ \A day \in late' : day.date = today' /\ late' = {day}
  BY <1>1 DEF ProtocolInv
<1> QED BY <1>1, <1>2, <1>3, <1>4 DEF Recording, ProtocolInv, Increasing

\* The rollover remembers a day that it will store.
LEMMA RolloverRecordsStep == ASSUME ProtocolInv, RolloverRecords PROVE ProtocolInv'
<1>1. PICK e \in Levels : Remember(Today(e)) /\ late' = {Today(e)}
  BY DEF RolloverRecords
<1>2. /\ step # "down" /\ today # 0 /\ late = {}
      /\ UNCHANGED <<today, start, cb, closed, opened, step, date, row, rows, restarts>>
  BY DEF RolloverRecords, counters, store
<1>3. PICK day \in Day : day = Today(e) /\ day.date = today
  BY <1>2, TodayIsDay
<1>4. /\ days' \in Seq(Day) /\ status' \in Status /\ reason' = reason
      /\ \A i \in DOMAIN days' : days'[i].date <= today
      /\ Increasing(days')
      /\ status' \in Active => SameElements(days', Stored(day))
  BY <1>1, <1>2, <1>3, RememberStep
<1>5. TypeOK'
  BY <1>1, <1>2, <1>3, <1>4 DEF ProtocolInv, TypeOK
<1>6. Stored(day)' = Stored(day) /\ Stored(day) \in Known'
  BY <1>1, <1>2, <1>3 DEF Stored, Known
<1>7. status' \in Active => \E table \in Known' : SameElements(days', table)
  BY <1>4, <1>6
<1>8. \A x \in late' : x.date = today' /\ late' = {x}
  BY <1>1, <1>2, <1>3
<1> QED BY <1>2, <1>4, <1>5, <1>7, <1>8 DEF ProtocolInv, Increasing, SameElements, Elements

\* Then it stores it, as the table was known to become.
LEMMA RolloverSavesStep == ASSUME ProtocolInv, RolloverSaves PROVE ProtocolInv'
<1>1. PICK day \in late : Save(day)
  BY DEF RolloverSaves
<1>2. /\ late' = {}
      /\ UNCHANGED <<status, reason, days, today, start, cb, closed, opened, step, date, restarts>>
  BY DEF RolloverSaves, protocol, counters
<1>3. day \in Day /\ day.date = today /\ late = {day}
  BY <1>1 DEF ProtocolInv, TypeOK
<1>4. rows' = Stored(day) /\ row' = [status |-> status, reason |-> reason]
  BY <1>1, <1>2 DEF Save
<1>5. /\ DOMAIN rows' \subseteq Date /\ rows' \in [DOMAIN rows' -> Day]
      /\ \A d \in DOMAIN rows' : rows'[d].date = d /\ d <= today
  BY <1>3, <1>4, StoredDay
<1>6. TypeOK'
  BY <1>2, <1>4, <1>5 DEF ProtocolInv, TypeOK
<1>7. Known = {rows'} /\ Known' = {rows'}
  BY <1>2, <1>3, <1>4 DEF Known
<1>8. step' # "down" /\ status' \in Active => \E table \in Known' : SameElements(days', table)
  BY <1>2, <1>7 DEF ProtocolInv
<1>9. /\ today' <= date' /\ \A x \in late' : FALSE
      /\ step' \in {"degrade", "recover", "abort"} => today' # 0
      /\ \A i \in DOMAIN days' : days'[i].date <= today'
      /\ Increasing(days)'
  BY <1>2 DEF ProtocolInv, Increasing
<1> QED BY <1>2, <1>5, <1>6, <1>8, <1>9 DEF ProtocolInv, SameElements, Elements

\* A review changes neither side, and does not make an inactive protocol active.
LEMMA ReviewStep ==
    ASSUME ProtocolInv, Degrade \/ Recover \/ NoAbort PROVE ProtocolInv'
<1>1. /\ UNCHANGED <<days, counters, date, rows, late, restarts>>
      /\ step \in {"degrade", "recover", "abort"}
      /\ step' \in {"recover", "abort", "idle"}
      /\ \/ status' = status /\ reason' = reason
         \/ status \in Active /\ status' \in Active /\ reason' \in {"criteria", "none"}
      /\ row' = row \/ row' = [status |-> status', reason |-> reason']
  BY DEF Degrade, Recover, NoAbort, protocol, store, Active
<1>2. TypeOK'
  BY <1>1 DEF counters, ProtocolInv, TypeOK, Status, Reason
<1>3. Known' = Known
  BY <1>1 DEF Known, Stored
<1> QED BY <1>1, <1>2, <1>3 DEF counters, ProtocolInv, SameElements, Elements, Increasing

\* stop() after an abort stores the day, but the protocol is no longer active.
LEMMA AbortStep == ASSUME ProtocolInv, Abort PROVE ProtocolInv'
<1>1. /\ today # 0 /\ status' = "ABORTED" /\ step' = "down"
      /\ UNCHANGED <<reason, days, counters, date, late, restarts>>
      /\ row' = [status |-> "ABORTED", reason |-> reason]
      /\ rows' = rows \/ \E e \in Levels : rows' = Stored(Today(e))
  BY DEF Abort, ProtocolInv
<1>2. /\ DOMAIN rows' \subseteq Date /\ rows' \in [DOMAIN rows' -> Day]
      /\ \A d \in DOMAIN rows' : rows'[d].date = d /\ d <= today
  <2>1. CASE rows' = rows
    BY <2>1 DEF ProtocolInv, TypeOK
  <2>2. ASSUME NEW e \in Levels, rows' = Stored(Today(e)) PROVE <1>2
    <3>1. Today(e) \in Day /\ Today(e).date = today
      BY <1>1, TodayIsDay
    <3> QED BY <2>2, <3>1, StoredDay
  <2> QED BY <1>1, <2>1, <2>2
<1>3. TypeOK'
  BY <1>1, <1>2 DEF counters, ProtocolInv, TypeOK, Status
<1> QED BY <1>1, <1>2, <1>3 DEF counters, ProtocolInv, Increasing

\* A crash leaves a table of days no later than today.
LEMMA CrashStep == ASSUME ProtocolInv, Crash PROVE ProtocolInv'
<1>1. /\ step' = "down" /\ late' = {} /\ restarts' \in 0..MaxRestarts
      /\ UNCHANGED <<protocol, today, start, cb, closed, opened, date, row>>
      /\ \/ rows' = rows
         \/ today # 0 /\ \E day \in late \cup {Today(e) : e \in Levels} : rows' = Stored(day)
  BY ProtocolAssumption
     DEF Crash, counters, ProtocolAssumption, ProtocolInv, TypeOK
<1>2. /\ DOMAIN rows' \subseteq Date /\ rows' \in [DOMAIN rows' -> Day]
      /\ \A d \in DOMAIN rows' : rows'[d].date = d /\ d <= today
  <2>1. CASE rows' = rows
    BY <2>1 DEF ProtocolInv, TypeOK
  <2>2. ASSUME today # 0, NEW day \in late \cup {Today(e) : e \in Levels},
               rows' = Stored(day)
        PROVE  <1>2
    <3>1. day \in Day /\ day.date = today
      <4>1. CASE day \in late
        BY <4>1 DEF ProtocolInv, TypeOK
      <4>2. ASSUME NEW e \in Levels, day = Today(e) PROVE <3>1
        BY <2>2, <4>2, TodayIsDay
      <4> QED BY <4>1, <4>2
    <3> QED BY <2>2, <3>1, StoredDay
  <2> QED BY <1>1, <2>1, <2>2
<1>3. TypeOK'
  BY <1>1, <1>2 DEF protocol, ProtocolInv, TypeOK
<1> QED BY <1>1, <1>2, <1>3 DEF protocol, ProtocolInv, Increasing

\* The calendar and the trades of a day leave both sides alone.
LEMMA QuietStep ==
    ASSUME ProtocolInv, Midnight \/ TradeAndCheck \/ UNCHANGED vars
    PROVE  ProtocolInv'
<1>0. UNCHANGED <<protocol, store, late, today, start, restarts>>
  BY DEF Midnight, TradeAndCheck, vars, counters
<1>d. MaxDate \in Nat /\ date \in 1..MaxDate /\ today \in 0..MaxDate /\ today <= date
  BY ProtocolAssumption DEF ProtocolAssumption, ProtocolInv, TypeOK, Date
<1>1. date' \in Date /\ today <= date'
  <2>1. date' = date \/ (date < MaxDate /\ date' = date + 1)
    BY DEF Midnight, TradeAndCheck, vars
  <2> QED BY <1>d, <2>1 DEF Date
<1>2. /\ cb' \in BOOLEAN /\ closed' \in Closes /\ opened' \in Opens
  BY DEF Midnight, TradeAndCheck, vars, counters, ProtocolInv, TypeOK
<1>3. /\ step' \in {step, "degrade"} /\ (step' # step => step # "down")
      /\ step' = "degrade" => today # 0
  <2>1. \/ step' = step
        \/ step = "idle" /\ step' = "degrade" /\ today = date
    BY DEF Midnight, TradeAndCheck, vars
  <2> QED BY <1>d, <2>1 DEF ProtocolInv
<1>5. TypeOK'
  BY <1>0, <1>1, <1>2, <1>3 DEF protocol, store, ProtocolInv, TypeOK
<1>6. Known' = Known
  BY <1>0 DEF store, Known, Stored
<1>7. UNCHANGED <<status, reason, days, row, rows, late, today, start, restarts>>
  BY <1>0 DEF protocol, store
<1>8. step' # "down" /\ status' \in Active => \E table \in Known' : SameElements(days', table)
  BY <1>3, <1>6, <1>7 DEF ProtocolInv
<1>9. /\ \A i \in DOMAIN days' : days'[i].date <= today'
      /\ \A d \in DOMAIN rows' : rows'[d].date = d /\ d <= today'
      /\ \A day \in late' : day.date = today' /\ late' = {day}
      /\ Increasing(days)'
  BY <1>7 DEF ProtocolInv, Increasing
<1>10. step' \in {"degrade", "recover", "abort"} => today' # 0
  BY <1>3, <1>7 DEF ProtocolInv
<1> QED BY <1>1, <1>5, <1>7, <1>8, <1>9, <1>10 DEF ProtocolInv, SameElements, Elements

\* A new process reads the history from the table.
LEMMA ReadBack == ASSUME ProtocolInv, Restart PROVE ProtocolInv'
<1>1. /\ days' = Sorted(rows) /\ UNCHANGED <<date, rows, restarts>> /\ today' = date
      /\ step' = "idle" /\ start' \in Levels /\ cb' = FALSE /\ closed' = 0 /\ opened' = FALSE
      /\ late' = {}
  BY DEF Restart
<1>2. /\ status' \in Status /\ reason' \in Reason
      /\ row' = [status |-> status', reason |-> reason']
  BY DEF Restart, ProtocolInv, TypeOK, Status, Active, Reason
<1>3. PICK S : S = DOMAIN rows
  OBVIOUS
<1>4. /\ S \in SUBSET Date /\ rows \in [S -> Day]
      /\ \A d \in S : rows[d].date = d /\ d <= today
      /\ date \in Date /\ today \in Date \cup {0} /\ today <= date
  BY <1>3 DEF ProtocolInv, TypeOK
<1>5. /\ days' \in Seq(Day) /\ Increasing(days')
      /\ Elements(days') = {rows[d] : d \in S}
  BY <1>1, <1>4, SortedDays
<1>6. ASSUME NEW d \in S PROVE d <= date
  <2>1. MaxDate \in Nat
    BY ProtocolAssumption DEF ProtocolAssumption
  <2>2. d \in Int /\ date \in Int /\ today \in Int
    BY <1>4, <2>1 DEF Date
  <2>3. d <= today /\ today <= date
    BY <1>4
  <2> QED BY <2>2, <2>3
<1>7. ASSUME NEW i \in DOMAIN days' PROVE days'[i].date <= date
  <2>1. PICK d \in S : days'[i] = rows[d]
    BY <1>5 DEF Elements
  <2> QED BY <1>4, <1>6, <2>1
<1>8. closed' \in Closes /\ opened' \in Opens /\ cb' \in BOOLEAN
  BY <1>1, ProtocolAssumption, Zenon DEF ProtocolAssumption
<1>9. TypeOK'
  BY <1>1, <1>2, <1>5, <1>8 DEF ProtocolInv, TypeOK
<1>10. date <= date
  BY <1>4, ProtocolAssumption DEF ProtocolAssumption, Date
<1>11. Known' = {rows} /\ SameElements(days', rows)
  BY <1>1, <1>3, <1>5 DEF Known, SameElements
<1>12. \E table \in Known' : SameElements(days', table)
  BY <1>11
<1>13. today' <= date' /\ Increasing(days)' /\ \A day \in late' : FALSE
  BY <1>1, <1>5, <1>10 DEF Increasing
<1>14. \A d \in DOMAIN rows' : rows'[d].date = d /\ d <= today'
  BY <1>1, <1>3, <1>4, <1>6
<1>15. \A i \in DOMAIN days' : days'[i].date <= today'
  BY <1>1, <1>7
<1> QED BY <1>1, <1>9, <1>12, <1>13, <1>14, <1>15
        DEF ProtocolInv, SameElements, Elements

\* Every step keeps ProtocolInv.
LEMMA ProtocolStep == ASSUME ProtocolInv, [Next]_vars PROVE ProtocolInv'
  BY NewDayStep, StopStep, RolloverRecordsStep, RolloverSavesStep, ReviewStep,
     AbortStep, CrashStep, QuietStep, ReadBack DEF Next, Tick, DailyRollover

\* So it holds throughout.
LEMMA ProtocolHolds == Spec => []ProtocolInv
<1>1. ProtocolInv /\ [Next]_vars => ProtocolInv'
  BY ProtocolStep
<1> QED BY ProtocolInvInit, <1>1, PTL DEF Spec

\* Every variable keeps the kind of value that the program gives it.
THEOREM ProtocolTypeCorrect == Spec => []TypeOK
<1>1. ProtocolInv => TypeOK
  BY DEF ProtocolInv
<1> QED BY ProtocolHolds, <1>1, PTL

\* For any number of days, and records by the tick, the rollover and stop() in
\* any order, with crashes between: an active protocol judges the days that are
\* stored once no record is under way, so a restart judges the same history.
THEOREM HistoryAlwaysStored == Spec => []HistoryStored
<1>1. ProtocolInv => HistoryStored
  BY DEF ProtocolInv, HistoryStored, Known, SameElements, Elements
<1> QED BY ProtocolHolds, <1>1, PTL

\* The history has one record per date, in order, through every record, every
\* recording of the same day again and every restart.
THEOREM DatesAlwaysIncrease == Spec => []DatesIncreasing
<1>1. ProtocolInv => DatesIncreasing
  BY DEF ProtocolInv, DatesIncreasing, Increasing
<1> QED BY ProtocolHolds, <1>1, PTL

\* "These fire BEFORE AbortCriteria", along every behaviour.
THEOREM SofterAlwaysFirst == ThresholdsOrdered /\ Spec => []SofterFirst
<1>1. ThresholdsOrdered /\ TypeOK => SofterFirst
  BY SofterThresholds
<1>2. CASE ThresholdsOrdered
  <2>1. TypeOK => SofterFirst
    BY <1>2, <1>1
  <2> QED BY <2>1, ProtocolTypeCorrect, PTL
<1> QED BY <1>2

-----------------------------------------------------------------------------
(* The store is a journal.                                                 *)

Due(dates) == Cardinality(dates) >= Duration

\* An aborted process does not go on.  While the rollover is storing a day, the
\* status in memory is what the store will say, and a protocol that the store
\* has as active is still judged by the days the store will have.
JournalInv ==
    /\ ProtocolInv /\ StatusSaved
    /\ step # "down" => status # "ABORTED"
    /\ late # {} => status = IF row.status \in Active /\ Due(DOMAIN rows \cup {today})
                             THEN "COMPLETED" ELSE row.status
    /\ step # "down" /\ row.status \in Active =>
           \E table \in Known : SameElements(days, table)

\* A step of the store, or none.
Journals == [Journaled!JournalNext]_(Journaled!journal)

\* A new protocol has an empty journal.
LEMMA JournalInvInit == Init => JournalInv /\ Journaled!JournalInit
<1> SUFFICES ASSUME Init PROVE JournalInv /\ Journaled!JournalInit
  OBVIOUS
<1>1. ProtocolInv /\ StatusSaved
  BY ProtocolInvInit, SavedInit
<1>2. /\ late = {} /\ status = "RUNNING" /\ step = "idle"
      /\ row.status = "RUNNING" /\ rows = [d \in {} |-> 0]
  BY DEF Init
<1>3. \E table \in Known : SameElements(days, table)
  BY <1>1, <1>2 DEF ProtocolInv, Active
<1> QED BY <1>1, <1>2, <1>3 DEF JournalInv, Journaled!JournalInit

\* The two notions of what is known are one.
LEMMA KnownAlike == Journaled!Known = Known
  BY DEF Journaled!Known, Journaled!Extended, Known, Stored

\* An active protocol judges what is known.
LEMMA HistoryIsKnown ==
    ASSUME JournalInv, step # "down", row.status \in Active
    PROVE  \E table \in Known : days = Sorted(table)
<1>1. PICK table \in Known : SameElements(days, table)
  BY DEF JournalInv
<1>2. ProtocolInv
  BY DEF JournalInv
<1>3. /\ DOMAIN table \subseteq Date /\ table \in [DOMAIN table -> Day]
      /\ \A d \in DOMAIN table : table[d].date = d
  <2>1. CASE late = {}
    BY <1>2, <2>1 DEF Known, ProtocolInv, TypeOK
  <2>2. CASE late # {}
    <3>1. PICK day \in late : table = Stored(day)
      BY <2>2 DEF Known
    <3>2. day \in Day /\ day.date = today
      BY <1>2, <3>1 DEF ProtocolInv, TypeOK
    <3> QED BY <1>2, <3>1, <3>2, StoredDay
  <2> QED BY <2>1, <2>2
<1>4. days \in Seq(Day) /\ Increasing(days)
  BY <1>2 DEF ProtocolInv, TypeOK
<1>5. days = Sorted(table)
  BY <1>1, <1>3, <1>4, HistoryOfTable DEF SameElements
<1> QED BY <1>5

\* Status and row of a running process differ only when its last day is on the way.
LEMMA RowOfStatus ==
    ASSUME JournalInv, step # "down"
    PROVE  \/ row.status = status /\ (status \in Active /\ late # {} =>
                                          ~Due(DOMAIN rows \cup {today}))
           \/ /\ row.status \in Active /\ status = "COMPLETED" /\ late # {}
              /\ Due(DOMAIN rows \cup {today})
  BY DEF JournalInv, StatusSaved, Active

\* Storing the day that has begun writes the newest day.
LEMMA StoredIsWritten ==
    ASSUME ProtocolInv, NEW day \in Day, day.date = today, rows' = Stored(day)
    PROVE  Journaled!Write(day) /\ DOMAIN rows' = DOMAIN rows \cup {today}
  BY DEF ProtocolInv, Stored, Journaled!Write, Journaled!Newest, Journaled!Extended

\* The days of a table are counted in the same way on both sides.
LEMMA CountedAlike == \A S : Journaled!Cardinality(S) = Cardinality(S)
  BY DEF Journaled!Cardinality, Cardinality, Journaled!IsFiniteSet, IsFiniteSet

\* Status and row of a record that is made and stored at once.
LEMMA RecordDayStatus ==
    ASSUME JournalInv, step # "down", NEW day \in Day, day.date = today, Remember(day)
    PROVE  status' = IF row.status \in Active /\ Due(DOMAIN rows \cup {today})
                     THEN "COMPLETED" ELSE status
<1>1. PICK h : h = Recorded(days, day)
  OBVIOUS
<1>2. status' = IF status \in Active /\ Len(h) >= Duration THEN "COMPLETED" ELSE status
  BY <1>1 DEF Remember
<1>3. CASE status \in Active
  <2>1. ProtocolInv /\ \E table \in Known : SameElements(days, table)
    BY <1>3 DEF JournalInv, ProtocolInv
  <2>2. Len(h) = Cardinality(DOMAIN Stored(day))
    BY <1>1, <2>1, RecordedKnown
  <2>3. DOMAIN Stored(day) = DOMAIN rows \cup {today}
    BY DEF Stored
  <2>4. row.status = status
    BY <1>3, RowOfStatus DEF Active
  <2> QED BY <1>2, <1>3, <2>2, <2>3, <2>4 DEF Due
<1>4. CASE status \notin Active
  BY <1>2, <1>4, RowOfStatus
<1> QED BY <1>3, <1>4

\* A result is written, and completes the protocol when the days are enough.
LEMMA RecordJournals ==
    ASSUME JournalInv, step # "down", RecordResult, late' = late PROVE Journals
<1>1. CASE RecordNothing
  BY <1>1 DEF RecordNothing, store, Journals, Journaled!journal
<1>2. ASSUME today # 0, NEW e \in Levels, RecordDay(e) PROVE Journals
  <2>1. ProtocolInv
    BY DEF JournalInv
  <2>2. PICK day \in Day : day = Today(e) /\ day.date = today
    BY <1>2, <2>1, TodayIsDay
  <2>3. Remember(day) /\ rows' = Stored(day) /\ row'.status = status'
    BY <1>2, <2>2 DEF RecordDay, Save
  <2>4. status' = IF row.status \in Active /\ Due(DOMAIN rows \cup {today})
                  THEN "COMPLETED" ELSE status
    BY <2>2, <2>3, RecordDayStatus
  <2>5. Journaled!Write(day) /\ DOMAIN rows' = DOMAIN rows \cup {today}
    BY <2>1, <2>2, <2>3, StoredIsWritten
  <2>6. row'.status = IF row.status \in Active /\ Due(DOMAIN rows')
                      THEN "COMPLETED" ELSE row.status
    BY <2>3, <2>4, <2>5, RowOfStatus
  <2>7. Journaled!Judge
    BY <2>6, CountedAlike DEF Journaled!Judge, Journaled!Active, Active, Due
  <2>8. Journaled!Record
    BY <2>5, <2>7 DEF Journaled!Record
  <2> QED BY <2>8 DEF Journals, Journaled!JournalNext
<1> QED BY <1>1, <1>2 DEF RecordResult

\* The rollover announces a day and finishes it.
LEMMA RolloverJournals == ASSUME JournalInv, DailyRollover PROVE Journals
<1>0. ProtocolInv
  BY DEF JournalInv
<1>1. CASE RolloverRecords
  <2>1. PICK e \in Levels : late' = {Today(e)}
    BY <1>1 DEF RolloverRecords
  <2>2. late = {} /\ today # 0 /\ row' = row /\ rows' = rows
    BY <1>1 DEF RolloverRecords, store
  <2>3. Today(e) \in Day /\ Today(e).date = today
    BY <1>0, <2>2, TodayIsDay
  <2>4. Journaled!Newest(Today(e))
    BY <1>0, <2>3 DEF ProtocolInv, Journaled!Newest
  <2>5. Journaled!Announce
    BY <2>1, <2>2, <2>3, <2>4 DEF Journaled!Announce
  <2> QED BY <2>5 DEF Journals, Journaled!JournalNext
<1>2. CASE RolloverSaves
  <2>1. PICK day \in late : Save(day)
    BY <1>2 DEF RolloverSaves
  <2>2. status' = status /\ late' = {}
    BY <1>2 DEF RolloverSaves, protocol
  <2>3. day \in Day /\ day.date = today
    BY <1>0, <2>1 DEF ProtocolInv, TypeOK
  <2>4. rows' = Stored(day) /\ row'.status = status
    BY <2>1, <2>2 DEF Save
  <2>5. Journaled!Write(day) /\ DOMAIN rows' = DOMAIN rows \cup {today}
    BY <1>0, <2>3, <2>4, StoredIsWritten
  <2>6. row'.status = IF row.status \in Active /\ Due(DOMAIN rows')
                      THEN "COMPLETED" ELSE row.status
    BY <2>1, <2>4, <2>5 DEF JournalInv
  <2>7. Journaled!Judge
    BY <2>6, CountedAlike DEF Journaled!Judge, Journaled!Active, Active, Due
  <2>8. Journaled!Finish
    BY <2>1, <2>2, <2>5, <2>7 DEF Journaled!Finish
  <2> QED BY <2>8 DEF Journals, Journaled!JournalNext
<1> QED BY <1>1, <1>2 DEF DailyRollover

\* A review degrades and recovers by the known history.
LEMMA ReviewJournals ==
    ASSUME JournalInv, Degrade \/ Recover PROVE Journals
<1>0. step # "down" /\ late' = late
  BY DEF Degrade, Recover
<1>1. CASE UNCHANGED <<row, rows>>
  BY <1>0, <1>1 DEF Journals, Journaled!journal
<1>2. CASE /\ status = "RUNNING" /\ DegradeConditions(days)
           /\ row'.status = "DEGRADED" /\ rows' = rows
  <2>1. row.status = "RUNNING"
    BY <1>0, <1>2, RowOfStatus
  <2>2. PICK table \in Known : days = Sorted(table)
    BY <1>0, <2>1, HistoryIsKnown DEF Active
  <2>3. Journaled!Degrade
    BY <1>0, <1>2, <2>1, <2>2, KnownAlike DEF Journaled!Degrade, StoreDegrades
  <2> QED BY <2>3 DEF Journals, Journaled!JournalNext
<1>3. CASE /\ status = "DEGRADED" /\ RecoveryConditions(days)
           /\ row'.status = "RUNNING" /\ rows' = rows
  <2>1. row.status = "DEGRADED"
    BY <1>0, <1>3, RowOfStatus
  <2>2. PICK table \in Known : days = Sorted(table)
    BY <1>0, <2>1, HistoryIsKnown DEF Active
  <2>3. Journaled!Recover
    BY <1>0, <1>3, <2>1, <2>2, KnownAlike DEF Journaled!Recover, StoreRecovers
  <2> QED BY <2>3 DEF Journals, Journaled!JournalNext
<1> QED BY <1>1, <1>2, <1>3 DEF Degrade, Recover

\* An abort follows from the known history, or ends a completed protocol.
LEMMA AbortJournals == ASSUME JournalInv, Abort PROVE Journals
<1>1. /\ step = "abort" /\ AbortConditions(days) /\ row'.status = "ABORTED"
      /\ rows' = rows \/ \E e \in Levels : rows' = Stored(Today(e))
      /\ late' = late
  BY DEF Abort
<1>2. ProtocolInv /\ today # 0 /\ status \in Status /\ status # "ABORTED"
  BY <1>1 DEF JournalInv, ProtocolInv, TypeOK
<1>3. \/ row.status \in Active /\ \E table \in Known : StoreAborts(table)
      \/ row.status = "COMPLETED"
  <2>1. CASE row.status \in Active
    <3>1. PICK table \in Known : days = Sorted(table)
      BY <1>1, <2>1, HistoryIsKnown
    <3> QED BY <1>1, <2>1, <3>1 DEF StoreAborts
  <2>2. CASE row.status \notin Active
    BY <1>1, <1>2, <2>2, RowOfStatus DEF Status
  <2> QED BY <2>1, <2>2
<1>4. UNCHANGED rows \/ \E day \in Day : Journaled!Write(day)
  <2>1. ASSUME NEW e \in Levels, rows' = Stored(Today(e))
        PROVE  \E day \in Day : Journaled!Write(day)
    <3>1. Today(e) \in Day /\ Today(e).date = today
      BY <1>2, TodayIsDay
    <3> QED BY <1>2, <2>1, <3>1, StoredIsWritten
  <2> QED BY <1>1, <2>1
<1>5. Journaled!Abort
  BY <1>1, <1>3, <1>4, KnownAlike DEF Journaled!Abort, Journaled!Active, Active
<1> QED BY <1>5 DEF Journals, Journaled!JournalNext

\* A crash writes a day or none, and loses the one on the way.
LEMMA CrashJournals == ASSUME JournalInv, Crash PROVE Journals
<1>0. ProtocolInv
  BY DEF JournalInv
<1>1. /\ late' = {} /\ row' = row
      /\ \/ rows' = rows
         \/ today # 0 /\ \E day \in late \cup {Today(e) : e \in Levels} : rows' = Stored(day)
  BY DEF Crash
<1>2. ASSUME today # 0, NEW day \in late \cup {Today(e) : e \in Levels}, rows' = Stored(day)
      PROVE  \E x \in Day : Journaled!Write(x)
  <2>1. day \in Day /\ day.date = today
    <3>1. CASE day \in late
      BY <1>0, <3>1 DEF ProtocolInv, TypeOK
    <3>2. ASSUME NEW e \in Levels, day = Today(e) PROVE <2>1
      BY <1>0, <1>2, <3>2, TodayIsDay
    <3> QED BY <3>1, <3>2
  <2> QED BY <1>0, <1>2, <2>1, StoredIsWritten
<1>3. Journaled!Cut
  BY <1>1, <1>2 DEF Journaled!Cut
<1> QED BY <1>3 DEF Journals, Journaled!JournalNext

\* A new process reads the journal, and only takes up what was aborted.
LEMMA RestartJournals == ASSUME JournalInv, Restart PROVE Journals
<1>1. /\ rows' = rows /\ late' = {}
      /\ row'.status = IF row.status = "ABORTED" THEN "DEGRADED" ELSE row.status
  BY DEF Restart
<1>2. CASE row.status = "ABORTED"
  <2>1. Journaled!Resume
    BY <1>1, <1>2 DEF Journaled!Resume
  <2> QED BY <2>1 DEF Journals, Journaled!JournalNext
<1>3. CASE row.status # "ABORTED"
  <2>1. Journaled!Cut
    BY <1>1, <1>3 DEF Journaled!Cut
  <2> QED BY <2>1 DEF Journals, Journaled!JournalNext
<1> QED BY <1>2, <1>3

\* Every step of the program is a step of the journal or writes nothing.
LEMMA JournalsStep == ASSUME JournalInv, [Next]_vars PROVE Journals
<1>1. CASE NewDay \/ Stop
  <2>1. step # "down" /\ RecordResult /\ late' = late
    BY <1>1 DEF NewDay, Stop
  <2> QED BY <2>1, RecordJournals
<1>2. CASE Midnight \/ TradeAndCheck \/ NoAbort \/ UNCHANGED vars
  BY <1>2 DEF Midnight, TradeAndCheck, NoAbort, vars, store, Journals, Journaled!journal
<1> QED BY <1>1, <1>2, RolloverJournals, ReviewJournals, AbortJournals, CrashJournals,
           RestartJournals DEF Next, Tick

\* Without a day on the way the rest of JournalInv follows.
LEMMA NothingLate ==
    ASSUME ProtocolInv', StatusSaved', late' = {},
           step' # "down" => status' # "ABORTED"
    PROVE  JournalInv'
<1>1. ASSUME step' # "down", row'.status \in Active
      PROVE  \E table \in Known' : SameElements(days', table)
  <2>1. row'.status = status'
    BY <1>1 DEF StatusSaved
  <2> QED BY <1>1, <2>1 DEF ProtocolInv, SameElements, Elements
<1> QED BY <1>1 DEF JournalInv, SameElements, Elements

\* A day is on its way: the status in memory runs ahead of the row.
LEMMA AnnouncedInv ==
    ASSUME JournalInv, ProtocolInv', StatusSaved', RolloverRecords PROVE JournalInv'
<1>0. ProtocolInv
  BY DEF JournalInv
<1>1. PICK e \in Levels : Remember(Today(e)) /\ late' = {Today(e)}
  BY DEF RolloverRecords
<1>2. /\ step # "down" /\ today # 0 /\ late = {}
      /\ step' = step /\ today' = today /\ row' = row /\ rows' = rows
  BY DEF RolloverRecords, counters, store
<1>3. PICK day \in Day : day = Today(e) /\ day.date = today
  BY <1>0, <1>2, TodayIsDay
<1>4. row.status = status /\ status # "ABORTED"
  BY <1>2 DEF JournalInv, StatusSaved
<1>5. status' = IF row.status \in Active /\ Due(DOMAIN rows \cup {today})
                THEN "COMPLETED" ELSE row.status
  BY <1>1, <1>2, <1>3, <1>4, RecordDayStatus
<1>6. ASSUME row'.status \in Active
      PROVE  \E table \in Known' : SameElements(days', table)
  <2>1. \E table \in Known : SameElements(days, table)
    BY <1>2, <1>6 DEF JournalInv
  <2>2. SameElements(Recorded(days, day), Stored(day))
    BY <1>0, <1>3, <2>1, RecordedKnown
  <2>3. days' = Recorded(days, day)
    BY <1>1, <1>2, <1>3, <1>4, <1>6 DEF Remember
  <2>4. Stored(day) \in Known'
    BY <1>1, <1>2, <1>3 DEF Stored, Known
  <2> QED BY <2>2, <2>3, <2>4
<1>7. status' # "ABORTED"
  BY <1>4, <1>5
<1>8. Due(DOMAIN rows \cup {today})' = Due(DOMAIN rows \cup {today})
  BY <1>2
<1> QED BY <1>2, <1>5, <1>6, <1>7, <1>8 DEF JournalInv, SameElements, Elements

\* stop() may record while a day is on its way.
LEMMA StoppedInv ==
    ASSUME JournalInv, ProtocolInv', StatusSaved', Stop PROVE JournalInv'
<1>0. ProtocolInv
  BY DEF JournalInv
<1>1. step # "down" /\ step' = "down" /\ RecordResult /\ late' = late /\ today' = today
  BY DEF Stop, counters
<1>2. CASE RecordNothing
  BY <1>1, <1>2 DEF RecordNothing, protocol, store, JournalInv, Due
<1>3. ASSUME today # 0, NEW e \in Levels, RecordDay(e) PROVE JournalInv'
  <2>1. PICK day \in Day : day = Today(e) /\ day.date = today
    BY <1>0, <1>3, TodayIsDay
  <2>2. Remember(day) /\ rows' = Stored(day) /\ row'.status = status'
    BY <1>3, <2>1 DEF RecordDay, Save
  <2>3. status' = IF row.status \in Active /\ Due(DOMAIN rows \cup {today})
                  THEN "COMPLETED" ELSE status
    BY <1>1, <2>1, <2>2, RecordDayStatus
  <2>4. DOMAIN rows' \cup {today'} = DOMAIN rows \cup {today}
    BY <1>1, <2>1, <2>2 DEF Stored
  <2>5. status' \in Active => ~Due(DOMAIN rows \cup {today})
    BY <1>1, <2>3, RowOfStatus DEF Active
  <2>6. Due(DOMAIN rows \cup {today})' = Due(DOMAIN rows \cup {today})
    BY <2>4 DEF Due
  <2> QED BY <1>1, <2>2, <2>5, <2>6 DEF JournalInv
<1> QED BY <1>1, <1>2, <1>3 DEF RecordResult

\* A review while a day is on its way.
LEMMA ReviewedInv ==
    ASSUME JournalInv, ProtocolInv', StatusSaved', Degrade \/ Recover PROVE JournalInv'
<1>1. /\ step # "down" /\ UNCHANGED <<days, rows, late, today>>
      /\ \/ status' = status /\ row' = row
         \/ status \in Active /\ status' \in Active /\ row'.status = status'
  BY DEF Degrade, Recover, counters, Active
<1>2. Known' = Known
  BY <1>1 DEF Known, Stored
<1>3. status' # "ABORTED"
  BY <1>1 DEF JournalInv, Active
<1>4. row'.status \in Active => row.status \in Active
  BY <1>1, RowOfStatus DEF Active
<1>5. Due(DOMAIN rows \cup {today})' = Due(DOMAIN rows \cup {today})
  BY <1>1 DEF Due
<1>6. late # {} => status' = IF row'.status \in Active /\ Due(DOMAIN rows \cup {today})
                             THEN "COMPLETED" ELSE row'.status
  <2>1. CASE status' = status /\ row' = row
    BY <2>1 DEF JournalInv
  <2>2. CASE status \in Active /\ status' \in Active /\ row'.status = status'
    BY <1>1, <2>2, RowOfStatus DEF Active
  <2> QED BY <1>1, <2>1, <2>2
<1>7. row'.status \in Active => \E table \in Known' : SameElements(days', table)
  BY <1>1, <1>2, <1>4 DEF JournalInv
<1> QED BY <1>1, <1>3, <1>5, <1>6, <1>7 DEF JournalInv, SameElements, Elements

\* Every step keeps JournalInv.
LEMMA JournalInvStep == ASSUME JournalInv, [Next]_vars PROVE JournalInv'
<1>0. ProtocolInv' /\ StatusSaved'
  BY ProtocolStep, SavedStep DEF JournalInv
<1>1. CASE NewDay
  <2>1. late' = {} /\ step # "down" /\ status # "ABORTED" /\ RecordResult
    BY <1>1 DEF NewDay, JournalInv
  <2>2. status' # "ABORTED"
    BY <2>1 DEF RecordResult, RecordNothing, protocol, RecordDay, Remember
  <2> QED BY <1>0, <2>1, <2>2, NothingLate
<1>2. CASE RolloverSaves
  <2>1. late' = {} /\ step' = step /\ status' = status
    BY <1>2 DEF RolloverSaves, protocol
  <2> QED BY <1>0, <2>1, NothingLate DEF JournalInv
<1>3. CASE Crash \/ Restart
  <2>1. late' = {} /\ (step' # "down" => status' # "ABORTED")
    BY <1>3 DEF Crash, Restart
  <2> QED BY <1>0, <2>1, NothingLate
<1>4. CASE Midnight \/ TradeAndCheck \/ NoAbort \/ UNCHANGED vars
  <2>1. /\ UNCHANGED <<status, days, row, rows, late, today>>
        /\ step' # "down" => step # "down"
    BY <1>4 DEF Midnight, TradeAndCheck, NoAbort, vars, protocol, store, counters
  <2>2. Known' = Known
    BY <2>1 DEF Known, Stored
  <2>3. Due(DOMAIN rows \cup {today})' = Due(DOMAIN rows \cup {today})
    BY <2>1 DEF Due
  <2>4. step' # "down" /\ row'.status \in Active =>
            \E table \in Known' : SameElements(days', table)
    BY <2>1, <2>2 DEF JournalInv
  <2> QED BY <1>0, <2>1, <2>3, <2>4 DEF JournalInv, SameElements, Elements
<1>5. CASE Abort
  <2>1. step' = "down" /\ status' = "ABORTED" /\ row'.status = "ABORTED"
    BY <1>5 DEF Abort
  <2> QED BY <1>0, <2>1 DEF JournalInv, Active
<1> QED BY <1>0, <1>1, <1>2, <1>3, <1>4, <1>5, AnnouncedInv, StoppedInv, ReviewedInv
        DEF Next, Tick, DailyRollover

\* For any number of days and of ends of the process, at any step: the store is
\* a journal whose past does not change and whose status follows from its days
\* or from the one on its way, although memory, counters and review are lost.
THEOREM JournalKept == Spec => JournalRefined
<1>1. JournalInv /\ [Next]_vars => JournalInv' /\ [Journaled!JournalNext]_(Journaled!journal)
  BY JournalInvStep, JournalsStep DEF Journals
<1>2. Init => JournalInv /\ Journaled!JournalInit
  BY JournalInvInit
<1> QED BY <1>1, <1>2, PTL DEF Spec, JournalRefined, Journaled!JournalSpec

=============================================================================
