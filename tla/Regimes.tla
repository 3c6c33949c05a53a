------------------------------- MODULE Regimes -------------------------------
(***************************************************************************)
(* regime/detector.py and regime/adapters.py: from the last ADX, the sign  *)
(* of +DI - -DI and the ratio of ATR to its average to a regime, and from  *)
(* a regime to multipliers.  All of them are functions of their arguments. *)
(*                                                                         *)
(* ADX is an integer, the ratio of the ATR is in tenths, multipliers and   *)
(* confidence are in hundredths; Missing is NaN, or an average of 0.       *)
(***************************************************************************)
EXTENDS Integers, FiniteSetsExt

Missing   == -1
Composite == {"trend_low_vol", "trend_high_vol", "range_low_vol", "range_high_vol"}

\* _detect_volatility and _detect_trend.
HighVolatility(ratio) == ratio # Missing /\ ratio >= 15

DetectTrend(adx, up) ==
    CASE adx = Missing \/ adx < 15 -> "ranging"
      [] adx >= 25 -> IF up THEN "strong_uptrend" ELSE "strong_downtrend"
      [] OTHER     -> IF up THEN "weak_uptrend" ELSE "weak_downtrend"

\* _get_composite.
GetComposite(ratio, trend) ==
    IF trend = "ranging"
    THEN IF HighVolatility(ratio) THEN "range_high_vol" ELSE "range_low_vol"
    ELSE IF HighVolatility(ratio) THEN "trend_high_vol" ELSE "trend_low_vol"

Distance(a, b) == IF a > b THEN a - b ELSE b - a

\* _calculate_confidence: how far from 20 the ADX is, how far from 1 the ratio.
Confidence(adx, ratio) ==
    IF adx = Missing \/ ratio = Missing THEN 0
    ELSE (Min({Distance(adx, 20) * 10, 100}) + Min({Distance(ratio, 10) * 20, 100}))
             \div 2

TrendDirection(trend) ==
    CASE trend \in {"strong_uptrend", "weak_uptrend"}     -> "up"
      [] trend \in {"strong_downtrend", "weak_downtrend"} -> "down"
      [] OTHER                                            -> "neutral"

\* RegimeDetector.detect.
Detect(adx, up, ratio) ==
    LET trend == DetectTrend(adx, up)
    IN  [composite |-> GetComposite(ratio, trend), direction |-> TrendDirection(trend),
         confidence |-> Confidence(adx, ratio)]

-----------------------------------------------------------------------------
\* RegimeAdapter.DEFAULT_PARAMS.
DefaultParams ==
    [trend_low_vol  |-> [stop |-> 80,  size |-> 120, threshold |-> 50,
                         trade |-> TRUE,  closeWeak |-> FALSE],
     trend_high_vol |-> [stop |-> 150, size |-> 70,  threshold |-> 70,
                         trade |-> TRUE,  closeWeak |-> FALSE],
     range_low_vol  |-> [stop |-> 100, size |-> 30,  threshold |-> 95,
                         trade |-> FALSE, closeWeak |-> FALSE],
     range_high_vol |-> [stop |-> 200, size |-> 0,   threshold |-> 100,
                         trade |-> FALSE, closeWeak |-> TRUE]]

\* adapt_from_state: a classification of low confidence is traded smaller,
\* with a wider stop, and needs a stronger signal.
AdaptFromState(params, state) ==
    LET base == params[state.composite]
    IN  IF state.confidence >= 30 THEN base
        ELSE [base EXCEPT !.stop = (@ * 12) \div 10, !.size = @ \div 2,
                          !.threshold = Min({@ + 20, 100})]

\* should_enter_long and should_exit_early.
ShouldEnterLong(params, state, strength) ==
    LET p == AdaptFromState(params, state)
    IN  p.trade /\ state.direction # "down" /\ strength >= p.threshold

ShouldExitEarly(params, state, pnlPct) ==
    \/ AdaptFromState(params, state).closeWeak /\ pnlPct < 1
    \/ state.composite = "range_high_vol" /\ pnlPct > 2

\* The multiplier _open_position hands to the sizer, 0.1 to 2.0.
RegimeMult(state) ==
    Max({10, Min({AdaptFromState(DefaultParams, state).size, 200})})

=============================================================================
