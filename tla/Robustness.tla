----------------------------- MODULE Robustness -----------------------------
(***************************************************************************)
(* The reports on a finished backtest: validation/robustness.py builds one *)
(* portfolio curve from the curves of several pairs and runs its tests on  *)
(* it; scripts/run_stress_test.py rebuilds the daily curve of one pair     *)
(* from its trades.  Both then walk a curve to find its drawdowns.         *)
(*                                                                         *)
(* A curve is a sequence of days and equities.  The statistics of a test   *)
(* (Sharpe ratios, resampled drawdowns, fits) are choices; the decision    *)
(* that is taken from them is the code's.                                  *)
(***************************************************************************)
EXTENDS Integers, Sequences, FiniteSets, FiniteSetsExt, Functions

CONSTANTS CurveDays,
          PairEquities,     \* equities of the backtest of one pair
          PortfolioCapital, \* initial_capital of the portfolio
          TradeResults,     \* pnl of a trade
          TradeSwaps,       \* swap_earned of a trade
          Marks,            \* unrealized profit at a close
          DurationLimit     \* max_duration_limit, 90 days

ASSUME RobustnessAssumption ==
    /\ CurveDays \in Nat \ {0} /\ PairEquities \subseteq Nat
    /\ TradeResults \cup TradeSwaps \cup Marks \subseteq Int
    /\ PortfolioCapital \in Nat /\ DurationLimit \in Nat \ {0}

VARIABLES study,    \* "portfolio" or "stress"
          streams,  \* for each pair: day -> equity of its backtest
          dealt,    \* the trades of the stress test
          rebuilt,  \* the local variables of reconstruct_equity
          curve,    \* the curve that is reported on
          walk,     \* the local variables of the walks along it
          verdicts  \* results of the suite: test -> passed

robustnessVars == <<study, streams, dealt, rebuilt, curve, walk, verdicts>>

-----------------------------------------------------------------------------
(* load_from_multi_pair_backtest                                           *)

TwoPairs == {"first", "second"}

\* A pair with less than two samples has no curve; one that has is resampled
\* to every day between its first and its last.
Drawn(ps) == {p \in TwoPairs : Cardinality(DOMAIN ps[p]) >= 2}

\* Mutant: the day after the last sample counts.
DaysOfPastEnd(s) == Min(DOMAIN s)..(Max(DOMAIN s) + 1)

DaysOf(s) == Min(DOMAIN s)..Max(DOMAIN s)

PairPnl(s, d) ==
    LET known == {e \in DOMAIN s : e <= d}
    IN  IF known = {} THEN 0 ELSE s[Max(known)] - s[Min(DOMAIN s)]

\* After concat: the last known profit (ffill), 0 before the first (fillna).
PnlAt(s, d) == PairPnl(s, d)

PortfolioDays(ps) == UNION {DaysOf(ps[p]) : p \in Drawn(ps)}

DayAt(ds, i) == CHOOSE d \in ds : Cardinality({e \in ds : e <= d}) = i

LoadFromMultiPair(ps) ==
    LET ds == PortfolioDays(ps)
    IN  [i \in 1..Cardinality(ds) |->
            [day |-> DayAt(ds, i),
             equity |-> PortfolioCapital
                 + MapThenSumSet(LAMBDA p : PnlAt(ps[p], DayAt(ds, i)), Drawn(ps))]]

-----------------------------------------------------------------------------
(* reconstruct_equity of the stress test.                                  *)

Trade == [entry : 1..CurveDays, exit : 1..CurveDays, pnl : TradeResults,
          swap : TradeSwaps]

\* The trades of one backtest: a position is closed at a later bar than it was
\* opened -- or at once, on the last bar -- and only then is the next one opened.
Possible(t) == t.entry < t.exit \/ (t.entry = t.exit /\ t.exit = CurveDays)

TradeLists ==
    LET some == {t \in Trade : Possible(t)}
    IN  {<<>>} \cup {<<t>> : t \in some}
             \cup {ts \in some \X some : ts[1].exit < ts[2].entry}

\* The trade whose entry day this is, if no position is held; 0 if none.
EntersOn(r, d) ==
    LET i == {k \in DOMAIN dealt : dealt[k].entry = d}
    IN  IF r.holding # 0 THEN r.holding ELSE IF i = {} THEN 0 ELSE Min(i)

\* One day: enter, or leave with profit and swap, else mark the position.
\* Leaving pays back what entering took from the cash.
Rebuild(r, d, mark) ==
    LET k == EntersOn(r, d)
        paid == dealt[k].pnl + dealt[k].swap
    IN  CASE k = 0 -> [r EXCEPT !.holding = 0, !.equity = r.cash]
          [] k # 0 /\ dealt[k].exit = d ->
                 [cash |-> r.cash + paid, holding |-> 0, equity |-> r.cash + paid]
          [] OTHER -> [r EXCEPT !.holding = k, !.equity = r.cash + mark]

-----------------------------------------------------------------------------
(* The walks: max_drawdown_duration measures a span in days from its first *)
(* day under water to its recovery, extract_drawdown_events in samples     *)
(* from the trough.                                                        *)

StartOfWalk == [next |-> 1, start |-> 0, spans |-> <<>>, events |-> <<>>]

HighWater(c, i)  == Max({c[j].equity : j \in 1..i})
Underwater(c, i) == c[i].equity < HighWater(c, i)

Trough(c, from, to) ==
    Min({i \in from..to : \A j \in from..to :
            (HighWater(c, i) - c[i].equity) >= (HighWater(c, j) - c[j].equity)})

\* A span that ended before sample i, or that is ongoing at the last one.
SpanEnded(c, w, i) ==
    [w EXCEPT !.start = 0,
              !.spans = Append(@, c[i].day - c[w.start].day),
              !.events = Append(@, i - Trough(c, w.start, i - 1))]

Ongoing(c, w) ==
    [w EXCEPT !.spans = Append(@, c[Len(c)].day - c[w.start].day),
              !.events = Append(@, Len(c) - Trough(c, w.start, Len(c)) + 1)]

\* One sample.
WalkSample(c, w) ==
    LET i == w.next
        v == [w EXCEPT !.next = i + 1]
    IN  CASE Underwater(c, i) /\ w.start = 0  -> [v EXCEPT !.start = i]
          [] ~Underwater(c, i) /\ w.start # 0 -> SpanEnded(c, v, i)
          [] OTHER                            -> v

\* Mutant: a drawdown that has not ended is not counted.
FinishWalkEnded(c, w) == [w EXCEPT !.next = Len(c) + 2]

\* What is still under water at the end.
FinishWalk(c, w) ==
    [(IF w.start # 0 THEN Ongoing(c, w) ELSE w) EXCEPT !.next = Len(c) + 2]

Walked(c, w)    == w.next = Len(c) + 2
MaxDuration(w)  == Max({0} \cup Range(w.spans))

-----------------------------------------------------------------------------
(* The tests of the suite.                                                 *)

HighPriority   == {"monte_carlo", "bootstrap_ci", "permutation_test", "strategy_decay"}
MediumPriority == {"parameter_sensitivity", "regime_breakdown", "correlation_crisis",
                   "rate_reversal", "overfitting"}
LowPriority    == {"evt_analysis", "market_impact", "liquidity_risk", "max_dd_duration"}

AllTests       == HighPriority \cup MediumPriority \cup LowPriority

\* Tests that are named replace the priority.  The priorities add up, so "low"
\* asks for every test, as "all" does.
RunTests(named, priority) ==
    IF named # {} THEN named
    ELSE CASE priority = "high"   -> HighPriority
           [] priority = "medium" -> HighPriority \cup MediumPriority
           [] OTHER               -> AllTests

\* The suite leaves out silently a test it does not know and one that lacks the
\* prices it needs.
Runnable(tests, prices) ==
    {t \in tests \cap AllTests : t = "regime_breakdown" => prices # "none"}

\* monte_carlo_simulation: ruin is rare; without trades the test fails, and
\* without a losing trade no resampled curve has a drawdown.
MonteCarlo(pnls, rare) ==
    pnls # <<>> /\ (rare \/ \A i \in DOMAIN pnls : pnls[i] >= 0)

\* bootstrap_confidence_intervals: only the interval of the Sharpe ratio counts,
\* and that of no returns is 0.
BootstrapCI(returns, above) == returns > 0 /\ above

\* permutation_test: the Sharpe ratio does not depend on the order of the
\* returns, so every permutation reaches the observed one and p is 1.
PermutationTest(pValue, significance) == pValue < significance

\* detect_strategy_decay: a strategy that earned nothing has not decayed.
StrategyDecay(fullSharpe, recent) ==
    fullSharpe > 0 => \E w \in DOMAIN recent : 2 * recent[w] > fullSharpe

\* overfitting_detection: 8 parameters, and a second part that is more than
\* half as good -- or as bad -- as the first.
Overfitting(returns, inSample, outOfSample) ==
    /\ 80 < returns
    /\ \/ inSample > 0 /\ 2 * outOfSample > inSample
       \/ inSample < 0 /\ 2 * outOfSample < inSample

\* extreme_value_analysis: enough losses, enough of them in the tail, a fit.
ExtremeValue(losses, tail, fits) == losses >= 10 /\ tail >= 5 /\ fits

\* parameter_sensitivity: more than 30% of the 30 variants earn something.
Sensitivity(loaded, positive) == loaded /\ positive * 10 > 30 * 3

AbsOf(n) == IF n < 0 THEN -n ELSE n

\* regime_performance_breakdown: no regime brings 80% of the profit; with a
\* profit of 0 none brings any.
RegimeBreakdown(pnls, regimeOf) ==
    LET total == FoldFunction(+, 0, pnls)
        share(r) == MapThenSumSet(LAMBDA i : pnls[i],
                                  {i \in DOMAIN pnls : regimeOf[i] = r})
    IN  total = 0 \/ \A r \in Range(regimeOf) :
                        AbsOf(share(r)) * 10 < 8 * AbsOf(total)

\* interest_rate_reversal, in percent.
RateReversal(loaded, return) == loaded /\ return > -10

\* correlation_crisis_scenario: 4% of the capital in each of 6 pairs, a loss
\* of two ATR; about 85% of the price would be needed to fail.
CorrelationCrisis(loaded, lossPct) == loaded /\ lossPct < 85

\* market_impact_model, in basis points: the suite passes no arguments, and
\* those of the signature give 100.
MarketImpact(bps) == bps < 5

\* liquidity_risk_assessment: a session without bars has an ATR of 0 and is
\* averaged in, so on daily bars the only session has three times the average.
LiquidityRisk(prices, calm) ==
    CASE prices = "none"  -> TRUE
      [] prices = "daily" -> FALSE
      [] OTHER            -> calm

\* The statistics that the tests decide on: without data, for a strategy that
\* earns on hourly bars, and for one that decays on daily bars.
Statistics ==
    {[pnls |-> <<>>, returns |-> 0, full |-> 0, recent |-> 0, good |-> FALSE,
      loaded |-> FALSE, prices |-> "none"],
     [pnls |-> <<2, 1>>, returns |-> 100, full |-> 1, recent |-> 1, good |-> TRUE,
      loaded |-> TRUE, prices |-> "hourly"],
     [pnls |-> <<2, -1>>, returns |-> 100, full |-> 1, recent |-> 0, good |-> FALSE,
      loaded |-> TRUE, prices |-> "daily"]}

Verdict(t, x, duration) ==
    CASE t = "monte_carlo"           -> MonteCarlo(x.pnls, x.good)
      [] t = "bootstrap_ci"          -> BootstrapCI(x.returns, x.good)
      [] t = "permutation_test"      -> PermutationTest(100, 5)
      [] t = "strategy_decay"        -> StrategyDecay(x.full, <<x.recent>>)
      [] t = "overfitting"           -> Overfitting(x.returns, x.full, x.recent)
      [] t = "evt_analysis"          -> ExtremeValue(x.returns \div 2, x.returns \div 20, x.good)
      [] t = "parameter_sensitivity" -> Sensitivity(x.loaded, IF x.good THEN 20 ELSE 5)
      [] t = "regime_breakdown"      -> RegimeBreakdown(x.pnls, [i \in DOMAIN x.pnls |-> "range"])
      [] t = "rate_reversal"         -> RateReversal(x.loaded, -4)
      [] t = "correlation_crisis"    -> CorrelationCrisis(x.loaded, 2)
      [] t = "market_impact"         -> MarketImpact(100)
      [] t = "liquidity_risk"        -> LiquidityRisk(x.prices, x.good)
      [] OTHER                       -> duration < DurationLimit

-----------------------------------------------------------------------------
RobustnessInit ==
    /\ study \in {"portfolio", "stress"}
    /\ IF study = "portfolio"
       THEN /\ streams \in [TwoPairs -> UNION {[ds -> PairEquities] : ds \in SUBSET (1..CurveDays)}]
            /\ dealt = <<>>
       ELSE /\ streams = [p \in TwoPairs |-> [d \in {} |-> 0]]
            /\ dealt \in TradeLists
    /\ rebuilt = [cash |-> PortfolioCapital, holding |-> 0, equity |-> PortfolioCapital]
    /\ curve = <<>> /\ walk = StartOfWalk /\ verdicts = [t \in {} |-> FALSE]

Built == IF study = "portfolio" THEN curve = LoadFromMultiPair(streams)
         ELSE Len(curve) = CurveDays

LoadPortfolio ==
    /\ study = "portfolio" /\ ~Built
    /\ curve' = LoadFromMultiPair(streams)
    /\ UNCHANGED <<study, streams, dealt, rebuilt, walk, verdicts>>

\* One turn of the loop of reconstruct_equity.
ReconstructDay ==
    /\ study = "stress" /\ ~Built
    /\ \E mark \in Marks : rebuilt' = Rebuild(rebuilt, Len(curve) + 1, mark)
    /\ curve' = Append(curve, [day |-> Len(curve) + 1, equity |-> rebuilt'.equity])
    /\ UNCHANGED <<study, streams, dealt, walk, verdicts>>

\* One turn of the loop of max_drawdown_duration and extract_drawdown_events.
WalkCurve ==
    /\ Built /\ ~Walked(curve, walk)
    /\ walk' = IF walk.next <= Len(curve) THEN WalkSample(curve, walk)
               ELSE FinishWalk(curve, walk)
    /\ UNCHANGED <<study, streams, dealt, rebuilt, curve, verdicts>>

\* run_validation_suite.
RunValidationSuite ==
    /\ study = "portfolio" /\ Walked(curve, walk) /\ DOMAIN verdicts = {}
    /\ \E named \in {{}, {"max_dd_duration", "misspelt"}},
          priority \in {"high", "medium", "low"}, x \in Statistics :
         verdicts' = [t \in Runnable(RunTests(named, priority), x.prices) |->
                         Verdict(t, x, MaxDuration(walk))]
    /\ UNCHANGED <<study, streams, dealt, rebuilt, curve, walk>>

RobustnessNext ==
    \/ LoadPortfolio
    \/ ReconstructDay
    \/ WalkCurve
    \/ RunValidationSuite

RobustnessSpec == RobustnessInit /\ [][RobustnessNext]_robustnessVars

-----------------------------------------------------------------------------
(* Properties.                                                             *)

RobustnessTypeOK ==
    /\ study \in {"portfolio", "stress"}
    /\ \A i \in DOMAIN curve : curve[i].day \in 1..CurveDays /\ curve[i].equity \in Int
    /\ walk.next \in 1..(CurveDays + 2) /\ walk.start \in 0..CurveDays
    /\ rebuilt.holding \in 0..2
    /\ \A t \in DOMAIN verdicts : verdicts[t] \in BOOLEAN

\* A curve accounts for every profit: the last equity of a portfolio is its
\* capital and the final profit of each pair that has a curve, also of a pair
\* whose data ended early; that of a rebuilt curve is the capital, the profit
\* and the swap of every trade.
CurvesAddUp ==
    Built /\ curve # <<>> =>
        LET final(p) == streams[p][Max(DOMAIN streams[p])] - streams[p][Min(DOMAIN streams[p])]
        IN  curve[Len(curve)].equity = PortfolioCapital
                + (IF study = "portfolio" THEN MapThenSumSet(final, Drawn(streams))
                   ELSE MapThenSumSet(LAMBDA k : dealt[k].pnl + dealt[k].swap, DOMAIN dealt))

\* The reported duration is the longest time from a first sample under water
\* to the next sample at a new high, or to the end of the curve, and the test
\* of the suite fails exactly when that time reaches the limit.
LongestSpan ==
    Walked(curve, walk) =>
        LET first == {i \in DOMAIN curve : Underwater(curve, i)
                                            /\ (i = 1 \/ ~Underwater(curve, i - 1))}
            end(i) == Min({Len(curve)} \cup {j \in i..Len(curve) : ~Underwater(curve, j)})
            spans  == {curve[end(i)].day - curve[i].day : i \in first}
        IN  /\ MaxDuration(walk) = Max({0} \cup spans)
            /\ Len(walk.events) = Cardinality(first)
            /\ "max_dd_duration" \in DOMAIN verdicts =>
                   (verdicts["max_dd_duration"] <=> \A n \in spans : n < DurationLimit)

\* The reports on a backtest say what it did.
ReportsAreRight == CurvesAddUp /\ LongestSpan

=============================================================================
