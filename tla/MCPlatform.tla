----------------------------- MODULE MCPlatform -----------------------------
(***************************************************************************)
(* The components around the runner on small instances.  They share no     *)
(* state with each other, so a behaviour follows one of them: interleaving *)
(* their steps would multiply the states and show nothing new.  The others *)
(* stay in one of their initial states.                                    *)
(***************************************************************************)
EXTENDS Stops, Monitoring, CommandBot, Learning, PaperBroker, Backtest,
        Parameters, EntryGates, Research, Robustness

VARIABLE part   \* the component that this behaviour follows

Parts == {"stops", "monitoring", "bot", "learning", "paper",
          "backtest", "parameters", "gates", "research", "robustness"}

platformVars == <<part, stopsVars, monitoringVars, botVars, learningVars,
                  paperVars, backtestVars, parametersVars, entryGatesVars,
                  researchVars, robustnessVars>>

-----------------------------------------------------------------------------
\* Values of the constants.
Scale   == {<<2, 15>>, <<4, 12>>, <<6, 10>>, <<10, 8>>}
File    == {[name |-> "cpi", at |-> 3], [name |-> "nfp", at |-> 8]}
Feed    == {[name |-> "cpi", at |-> 5], [name |-> "boj", at |-> 9]}
Free    == {{}, {3}, {2, 6}}
Results == {-2, 3}
MarkSet == {-3, 4}

-----------------------------------------------------------------------------
PlatformInit ==
    /\ part \in Parts
    /\ StopsInit /\ (part # "stops" => candle = [close |-> Min(Prices), atr |-> Min(Atrs)])
    /\ MonitoringInit /\ (part # "monitoring" => weekHour = 0)
    /\ BotInit
    /\ LearningInit
    /\ PaperInit
    /\ BacktestInit /\ (part # "backtest" => kind = "v1")
    /\ ParametersInit
    /\ EntryGatesInit /\ (part # "gates" => lastFeed = {})
    /\ ResearchInit /\ (part # "research" => \A s \in Sides : Range(history[s]) = {Min(DayCloses)}
                                          /\ DOMAIN history[s] = 1..HistoryDays)
    /\ RobustnessInit /\ (part # "robustness" => study = "stress" /\ dealt = <<>>)

\* A step of component p leaves the others alone.
Only(p) ==
    /\ part = p /\ UNCHANGED part
    /\ IF p = "stops" THEN TRUE ELSE UNCHANGED stopsVars
    /\ IF p = "monitoring" THEN TRUE ELSE UNCHANGED monitoringVars
    /\ IF p = "bot" THEN TRUE ELSE UNCHANGED botVars
    /\ IF p = "learning" THEN TRUE ELSE UNCHANGED learningVars
    /\ IF p = "paper" THEN TRUE ELSE UNCHANGED paperVars
    /\ IF p = "backtest" THEN TRUE ELSE UNCHANGED backtestVars
    /\ IF p = "parameters" THEN TRUE ELSE UNCHANGED parametersVars
    /\ IF p = "gates" THEN TRUE ELSE UNCHANGED entryGatesVars
    /\ IF p = "research" THEN TRUE ELSE UNCHANGED researchVars
    /\ IF p = "robustness" THEN TRUE ELSE UNCHANGED robustnessVars

\* The next-state relations of the components, action by action, so that TLC
\* counts each of them.
PlatformNext ==
    \/ Only("stops") /\ StopFires
    \/ Only("stops") /\ ForeignTrade
    \/ Only("stops") /\ BeginTick
    \/ Only("stops") /\ CheckExitManager
    \/ Only("stops") /\ NoPositionToCheck
    \/ Only("stops") /\ Fills
    \/ Only("stops") /\ NothingFills
    \/ Only("stops") /\ UpdateStopLosses
    \/ Only("stops") /\ TightenAllStops
    \/ Only("stops") /\ SyncPositions
    \/ Only("monitoring") /\ HourPasses
    \/ Only("monitoring") /\ TickFinishes
    \/ Only("monitoring") /\ TickLeavesNoBeat
    \/ Only("monitoring") /\ HealthCheck
    \/ Only("monitoring") /\ SendDailyReport
    \/ Only("bot") /\ UserWrites
    \/ Only("bot") /\ GetUpdates
    \/ Only("bot") /\ ProcessUpdate
    \/ Only("bot") /\ BotStops
    \/ Only("bot") /\ BotStarts
    \/ Only("learning") /\ TradeCloses
    \/ Only("learning") /\ WeeklyRetraining
    \/ Only("learning") /\ EvaluateShadow
    \/ Only("learning") /\ AutoPromote
    \/ Only("learning") /\ LearningRestart
    \/ Only("paper") /\ SubmitOrder
    \/ Only("paper") /\ SubmitClose
    \/ Only("paper") /\ CancelOrder
    \/ Only("paper") /\ PriceUpdate
    \/ Only("paper") /\ AccrueSwap
    \/ Only("backtest") /\ NextBar
    \/ Only("backtest") /\ DetectRegime
    \/ Only("backtest") /\ EndOfBacktest
    \/ Only("parameters") /\ WeeklyOptimization
    \/ Only("parameters") /\ SaveParams
    \/ Only("parameters") /\ RecordPerformance
    \/ Only("parameters") /\ Activate
    \/ Only("parameters") /\ JobDies
    \/ Only("parameters") /\ AskToEnter
    \/ Only("gates") /\ SlotPasses
    \/ Only("gates") /\ CalendarRestart
    \/ Only("gates") /\ EntrySignal
    \/ Only("research") /\ MergeDay
    \/ Only("research") /\ VerifyNoLookahead
    \/ Only("research") /\ TryWindow
    \/ Only("research") /\ ComparePaper
    \/ Only("robustness") /\ LoadPortfolio
    \/ Only("robustness") /\ ReconstructDay
    \/ Only("robustness") /\ WalkCurve
    \/ Only("robustness") /\ RunValidationSuite

PlatformSpec == PlatformInit /\ [][PlatformNext]_platformVars

\* Every component keeps the kind of values that its code keeps.
PlatformTypeOK ==
    /\ part \in Parts
    /\ StopsTypeOK /\ MonitoringTypeOK /\ BotTypeOK /\ LearningTypeOK /\ PaperTypeOK
    /\ BacktestTypeOK /\ ParametersTypeOK /\ EntryGatesTypeOK /\ ResearchTypeOK /\ RobustnessTypeOK

=============================================================================
