----------------------------- MODULE Parameters -----------------------------
(***************************************************************************)
(* Parameters that adapt: the weekly job of engine/runner.py optimises     *)
(* each regime (adaptive/optimizer.py) and stores the result               *)
(* (adaptive/param_store.py), and adaptive/adaptive_adapter.py reads it in *)
(* place of the defaults of regime/adapters.py.                            *)
(*                                                                         *)
(* save_params, record_performance and activate are three transactions; a  *)
(* crash can come between any two.                                         *)
(***************************************************************************)
EXTENDS Regimes, Sequences

CONSTANTS OptimizedRegimes, \* the regimes, in any order
          MaxParamSets,     \* rows of param_sets in a behaviour
          Strengths         \* strengths of an entry signal, in hundredths

ASSUME ParametersAssumption ==
    OptimizedRegimes \subseteq Composite /\ MaxParamSets \in Nat

VARIABLES paramSets,  \* param_sets; the index is the id
          toOptimize, \* regimes the running job has not reached
          optimizing, \* the regime it is at, or "none"
          stored,     \* the row it has saved for it, or 0
          longAllowed \* the last answer of should_enter_long

parametersVars == <<paramSets, toOptimize, optimizing, stored, longAllowed>>

NoScore == "none"
Scores  == {"measured", "worthless"}
Row     == [regime : OptimizedRegimes, trade : BOOLEAN, closeWeak : BOOLEAN,
            score : Scores \cup {NoScore}, active : BOOLEAN]

ActiveIds(sets, r) == {i \in DOMAIN sets : sets[i].regime = r /\ sets[i].active}

\* get_active_params, ORDER BY id DESC LIMIT 1.
GetActive(r) == IF ActiveIds(paramSets, r) = {} THEN 0 ELSE Max(ActiveIds(paramSets, r))

\* The flags of an optimised set.  The runner passes regime.value, which is in
\* lower case, and the optimizer compares it with names in upper case: every
\* regime may be traded, none is closed on weakness.
OptimizedTrade(r)     == r \notin {"RANGE_HIGH_VOL", "RANGE_LOW_VOL"}
OptimizedCloseWeak(r) == r = "RANGE_HIGH_VOL"

\* AdaptiveRegimeAdapter.adapt.  The optimised multipliers are those of the
\* defaults here, only the flags differ.
AdaptedParams ==
    [r \in Composite |->
        IF r \in OptimizedRegimes /\ GetActive(r) # 0
        THEN [DefaultParams[r] EXCEPT !.trade = paramSets[GetActive(r)].trade,
                                      !.closeWeak = paramSets[GetActive(r)].closeWeak]
        ELSE DefaultParams[r]]

-----------------------------------------------------------------------------
ParametersInit ==
    /\ paramSets = <<>> /\ toOptimize = {} /\ optimizing = "none" /\ stored = 0
    /\ longAllowed = FALSE

\* _weekly_optimization with the candles of at least one pair; without any, or
\* without optuna's module, nothing is stored.
WeeklyOptimization ==
    /\ toOptimize = {} /\ optimizing = "none"
    /\ toOptimize' = OptimizedRegimes
    /\ UNCHANGED <<paramSets, optimizing, stored, longAllowed>>

\* optimize_regime: the study ends with a set, or raises and the job goes on
\* with the next regime.
SaveParams ==
    /\ optimizing = "none"
    /\ \E r \in toOptimize :
         /\ toOptimize' = toOptimize \ {r}
         /\ \/ UNCHANGED <<paramSets, optimizing, stored>>
            \/ /\ Len(paramSets) < MaxParamSets
               /\ paramSets' = Append(paramSets,
                      [regime |-> r, trade |-> OptimizedTrade(r),
                       closeWeak |-> OptimizedCloseWeak(r), score |-> NoScore,
                       active |-> FALSE])
               /\ optimizing' = r /\ stored' = Len(paramSets')
    /\ UNCHANGED longAllowed

\* best_value; -10 when no backtest of any trial worked, stored all the same.
RecordPerformance ==
    /\ stored # 0 /\ paramSets[stored].score = NoScore
    /\ \E score \in Scores : paramSets' = [paramSets EXCEPT ![stored].score = score]
    /\ UNCHANGED <<toOptimize, optimizing, stored, longAllowed>>

\* Mutant: the set that was active stays active.
ActivatedBeside(sets, id, r) == [sets EXCEPT ![id].active = TRUE]

Activated(sets, id, r) ==
    [i \in DOMAIN sets |->
        IF i = id THEN [sets[i] EXCEPT !.active = TRUE]
        ELSE IF sets[i].regime = r THEN [sets[i] EXCEPT !.active = FALSE]
        ELSE sets[i]]

\* activate, one transaction.
Activate ==
    /\ stored # 0 /\ paramSets[stored].score # NoScore
    /\ paramSets' = Activated(paramSets, stored, optimizing)
    /\ optimizing' = "none" /\ stored' = 0
    /\ UNCHANGED <<toOptimize, longAllowed>>

\* The process ends; also a write that fails, after which the job takes the
\* next regime.
JobDies ==
    /\ toOptimize' \in {{}, toOptimize}
    /\ optimizing # "none"
    /\ optimizing' = "none" /\ stored' = 0
    /\ UNCHANGED <<paramSets, longAllowed>>

\* A strategy with the adaptive adapter asks for an entry.
AskToEnter ==
    /\ longAllowed' \in
           {ShouldEnterLong(AdaptedParams, Detect(adx, up, ratio), strength) :
               adx \in {Missing, 10, 20, 30}, up \in BOOLEAN,
               ratio \in {Missing, 10, 15}, strength \in Strengths}
    /\ UNCHANGED <<paramSets, toOptimize, optimizing, stored>>

ParametersNext ==
    \/ WeeklyOptimization
    \/ SaveParams
    \/ RecordPerformance
    \/ Activate
    \/ JobDies
    \/ AskToEnter

ParametersSpec == ParametersInit /\ [][ParametersNext]_parametersVars

-----------------------------------------------------------------------------
(* Properties.                                                             *)

ParametersTypeOK ==
    /\ paramSets \in Seq(Row) /\ Len(paramSets) <= MaxParamSets
    /\ toOptimize \subseteq OptimizedRegimes
    /\ optimizing \in OptimizedRegimes \cup {"none"}
    /\ stored \in 0..Len(paramSets) /\ longAllowed \in BOOLEAN

\* Wherever the job dies, a regime has at most one active set, a set that was
\* measured, no older than any set that was ever active, and a regime that had
\* an active set never falls back to the defaults.
ActiveSetsAreMeasured ==
    /\ [](\A r \in OptimizedRegimes : \A i, j \in ActiveIds(paramSets, r) :
              i = j /\ paramSets[i].score # NoScore)
    /\ [][\A r \in OptimizedRegimes : \A i \in ActiveIds(paramSets, r) :
              \E j \in ActiveIds(paramSets', r) : j >= i]_parametersVars

=============================================================================
