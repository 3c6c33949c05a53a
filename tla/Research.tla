------------------------------ MODULE Research ------------------------------
(***************************************************************************)
(* Research on price histories: data/multi_timeframe.py merges the weekly  *)
(* bars into the daily ones, optimization/walk_forward.py picks parameters *)
(* on a training window and tries them on the window after it, and         *)
(* validation/validator.py compares paper trading with the backtest.       *)
(*                                                                         *)
(* Two histories are studied side by side.  They agree up to Horizon and   *)
(* may differ later; so a value that differs between them was computed     *)
(* from what was still to come.  A day has one price; the Sharpe ratio     *)
(* that ranks the parameters is any function of the bars, here the rise    *)
(* over them times the parameter.                                          *)
(***************************************************************************)
EXTENDS Integers, Sequences, FiniteSets, FiniteSetsExt, Functions

CONSTANTS HistoryDays,
          Horizon,          \* the histories agree until this day
          DayCloses,        \* prices
          Holidays,         \* a set of sets of days without a bar
          WeekDays,         \* days of a week, the last of them a Friday
          WeeklyMaPeriod,   \* weekly_ma_period
          TrainDays, TestDays, StepDays,
          MinTrainBars, MinTestBars,
          ParamGrid         \* combinations of parameters

ASSUME ResearchAssumption ==
    /\ {HistoryDays, Horizon} \subseteq Nat /\ DayCloses \subseteq Nat
    /\ {WeekDays, WeeklyMaPeriod, TrainDays, TestDays, StepDays, MinTrainBars,
        MinTestBars} \subseteq Nat \ {0}
    /\ Holidays \subseteq SUBSET (1..HistoryDays)
    /\ ParamGrid \subseteq Int /\ ParamGrid # {}

VARIABLES history,   \* the two histories: day -> price
          today,     \* the next day to merge
          context,   \* for each history: day -> the weekly columns of that bar
          current,   \* the start of the next training window
          found,     \* for each history: the windows of the analysis
          verified,  \* outcome of verify_no_lookahead for each history
          validated  \* outcome of the last comparison

researchVars == <<history, today, context, current, found, verified,
                  validated>>

Sides == {"left", "right"}

-----------------------------------------------------------------------------
(* data/multi_timeframe.py                                                 *)

\* _resample_to_weekly: a bar belongs to the week that ends on the Friday at
\* or after it; a week without a bar does not exist.
WeekEnd(d)        == ((d + WeekDays - 1) \div WeekDays) * WeekDays
WeeksOf(h)        == {WeekEnd(d) : d \in DOMAIN h}
BarsOfWeek(h, w)  == {d \in DOMAIN h : WeekEnd(d) = w}
WeeklyClose(h, w) == h[Max(BarsOfWeek(h, w))]

\* _add_weekly_indicators: the trend compares the close with the average of
\* the last weeks, and is neutral until there are enough of them.
LastWeeks(h, w) ==
    {v \in WeeksOf(h) : v <= w /\ Cardinality({u \in WeeksOf(h) : v < u /\ u <= w})
                                      < WeeklyMaPeriod}

WeeklyTrend(h, w) ==
    LET close == WeeklyClose(h, w) * WeeklyMaPeriod
        total == MapThenSumSet(LAMBDA v : WeeklyClose(h, v), LastWeeks(h, w))
    IN  IF Cardinality(LastWeeks(h, w)) < WeeklyMaPeriod \/ close = total THEN "neutral"
        ELSE IF close > total THEN "up" ELSE "down"

\* Mutant: a week counts as completed on its last day.
ValidWeeksFriday(h, d) == {w \in WeeksOf(h) : w <= d}

\* The weeks that ended before the bar.
ValidWeeks(h, d) == {w \in WeeksOf(h) : w < d}

\* _merge_weekly_to_daily, one bar.
NoWeek == [close |-> 0, high |-> 0, low |-> 0, trend |-> "neutral"]

MergedBar(h, d) ==
    LET w == Max(ValidWeeks(h, d))
    IN  IF ValidWeeks(h, d) = {} THEN NoWeek
        ELSE [close |-> WeeklyClose(h, w), trend |-> WeeklyTrend(h, w),
              high |-> Max({h[b] : b \in BarsOfWeek(h, w)}),
              low  |-> Min({h[b] : b \in BarsOfWeek(h, w)})]

\* load_aligned refuses a history with too few weeks.
EnoughWeeks(h) == Cardinality(WeeksOf(h)) >= WeeklyMaPeriod

\* verify_no_lookahead finds the week of a merged close by its value and takes
\* the last one that matches, so a later week with the same close raises too.
VerifyRaises(h, columns) ==
    \E d \in DOMAIN columns :
        \E w \in WeeksOf(h) : WeeklyClose(h, w) = columns[d].close /\ w >= d

-----------------------------------------------------------------------------
(* optimization/grid_search.py and walk_forward.py                         *)

BarsBetween(h, from, to) == {d \in DOMAIN h : from <= d /\ d < to}

\* The engine on some bars with one combination of parameters.
SharpeOf(h, days, p) == p * (h[Max(days)] - h[Min(days)])

\* GridSearchOptimizer.run: the results are sorted, best first, and the sort
\* is stable; the caller takes the first.
BestParams(h, days) ==
    Min({p \in ParamGrid :
            \A q \in ParamGrid : SharpeOf(h, days, q) <= SharpeOf(h, days, p)})

\* One turn of WalkForwardAnalyzer.run that is not skipped.
WindowResult(h, start, number) ==
    LET trainEnd == start + TrainDays
        best     == BestParams(h, BarsBetween(h, start, trainEnd))
    IN  [window |-> number, start |-> start, trainEnd |-> trainEnd, best |-> best,
         sharpe |-> SharpeOf(h, BarsBetween(h, trainEnd, trainEnd + TestDays), best)]

EnoughBars(h, start) ==
    /\ Cardinality(BarsBetween(h, start, start + TrainDays)) >= MinTrainBars
    /\ Cardinality(BarsBetween(h, start + TrainDays, start + TrainDays + TestDays))
           >= MinTestBars

-----------------------------------------------------------------------------
(* validation/validator.py.  Returns and drawdowns are in percent, Sharpe  *)
(* ratios in hundredths; both are near zero only at 0.                      *)

AbsoluteOf(n) == IF n < 0 THEN -n ELSE n

\* _calc_degradation and _calc_increase.  Against a backtest near zero any
\* difference counts as degradation, an improvement too.
CalcDegradation(backtest, paper) ==
    IF backtest = 0 THEN AbsoluteOf(paper)
    ELSE ((backtest - paper) * 100) \div AbsoluteOf(backtest)

CalcIncrease(backtest, paper) ==
    IF backtest = 0 THEN AbsoluteOf(paper)
    ELSE ((paper - backtest) * 100) \div AbsoluteOf(backtest)

\* compare, with the thresholds of ValidationCriteria; the fill rate of the
\* paper orders is 100 when there are none.
IsValid(backtest, paper, fillRate) ==
    /\ CalcDegradation(backtest.return, paper.return) <= 30
    /\ CalcDegradation(backtest.sharpe, paper.sharpe) <= 25
    /\ CalcIncrease(backtest.drawdown, paper.drawdown) <= 20
    /\ fillRate >= 95

-----------------------------------------------------------------------------
ResearchInit ==
    /\ \E free \in Holidays :
         \E left \in [(1..HistoryDays) \ free -> DayCloses] :
            \E right \in [(1..HistoryDays) \ free -> DayCloses] :
               /\ \A d \in DOMAIN left : d <= Horizon => left[d] = right[d]
               /\ history = [s \in Sides |-> IF s = "left" THEN left ELSE right]
    /\ today = 1 /\ context = [s \in Sides |-> [d \in {} |-> NoWeek]]
    /\ current = 1 /\ found = [s \in Sides |-> <<>>]
    /\ verified = "none" /\ validated = "none"

\* One bar of _merge_weekly_to_daily.
MergeDay ==
    /\ today <= HistoryDays /\ \A s \in Sides : EnoughWeeks(history[s])
    /\ today' = today + 1
    /\ context' = [s \in Sides |->
                      IF today \notin DOMAIN history[s] THEN context[s]
                      ELSE [d \in DOMAIN context[s] \cup {today} |->
                               IF d = today THEN MergedBar(history[s], today)
                               ELSE context[s][d]]]
    /\ UNCHANGED <<history, current, found, verified, validated>>

\* verify_no_lookahead, on the left history.
VerifyNoLookahead ==
    /\ today > HistoryDays /\ verified = "none"
    /\ verified' = IF VerifyRaises(history["left"], context["left"])
                   THEN "raised" ELSE "true"
    /\ UNCHANGED <<history, today, context, current, found, validated>>

\* One turn of the loop of WalkForwardAnalyzer.run.
TryWindow ==
    /\ today > HistoryDays
    /\ current + TrainDays + TestDays <= Max(DOMAIN history["left"])
    /\ current' = current + StepDays
    /\ found' = [s \in Sides |->
                    IF EnoughBars(history[s], current)
                    THEN Append(found[s], WindowResult(history[s], current, Len(found[s])))
                    ELSE found[s]]
    /\ UNCHANGED <<history, today, context, verified, validated>>

\* PaperTradingValidator.compare.
Figures(r, s, d) == [return |-> r, sharpe |-> s, drawdown |-> d]

ComparePaper ==
    /\ today > HistoryDays /\ validated = "none"
    /\ \E backtest \in {Figures(10, 90, 4), Figures(0, 0, 0)},
          paper \in {Figures(10, 90, 4), Figures(2, 90, 7), Figures(-2, 0, 0)},
          fillRate \in {90, 100} :
          validated' = IF IsValid(backtest, paper, fillRate) THEN "valid" ELSE "failed"
    /\ UNCHANGED <<history, today, context, current, found, verified>>

ResearchNext ==
    \/ MergeDay
    \/ VerifyNoLookahead
    \/ TryWindow
    \/ ComparePaper

ResearchSpec == ResearchInit /\ [][ResearchNext]_researchVars

-----------------------------------------------------------------------------
(* Properties.                                                             *)

ResearchTypeOK ==
    /\ DOMAIN history = Sides /\ today \in 1..(HistoryDays + 1)
    /\ \A s \in Sides : /\ DOMAIN context[s] \subseteq 1..HistoryDays
                        /\ \A i \in DOMAIN found[s] : found[s][i].best \in ParamGrid
    /\ current \in Nat /\ verified \in {"none", "true", "raised"}
    /\ validated \in {"none", "valid", "failed"}

\* Nothing is decided with what was still to come ("no lookahead"): the weekly
\* columns of a bar are the same in both histories as long as these agree
\* before it, the parameters of a window as long as they agree before the end
\* of its training.
NoLookAhead ==
    LET left == found["left"]  right == found["right"]
    IN  /\ \A d \in DOMAIN context["left"] :
              d <= Horizon + 1 => context["left"][d] = context["right"][d]
        /\ \A i \in DOMAIN left, j \in DOMAIN right :
              left[i].start = right[j].start /\ left[i].trainEnd <= Horizon + 1
                  => left[i].best = right[j].best

=============================================================================
