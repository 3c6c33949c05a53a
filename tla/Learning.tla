------------------------------ MODULE Learning ------------------------------
(***************************************************************************)
(* The life of the signal bandit: ml/bandit.py and ml/shadow.py in the     *)
(* process, rl/registry.py and rl/retraining.py in the database, and the   *)
(* parts of engine/runner.py that join them (_close_position,              *)
(* _weekly_retraining, _load_bandit_model).                                *)
(*                                                                         *)
(* The closed trades are numbered; what a model was trained on is the      *)
(* interval of trades it saw.  Weights and Sharpe ratios are left out: a   *)
(* comparison of two of them is a choice.                                  *)
(***************************************************************************)
EXTENDS Integers, Sequences, FiniteSets, FiniteSetsExt, Functions

CONSTANTS MaxClosed,        \* closed trades in a behaviour
          MaxVersions,      \* model versions in a behaviour
          RecentTrades,     \* the retraining window, 100
          MinRecent,        \* trades needed to retrain, 10
          ShadowTrades      \* ShadowEvaluator.min_trades, 50

ASSUME LearningAssumption ==
    /\ {MaxClosed, MaxVersions} \subseteq Nat
    /\ {RecentTrades, MinRecent, ShadowTrades} \subseteq Nat \ {0}

VARIABLES closedTrades, \* closed trades in trade_log
          models,       \* model_versions; the index is the version
          artifacts,    \* files: number of updates in the name -> content
          bandit,       \* weights of the process, updates since they were set
          banditActive, \* _bandit_active
          shadowCount   \* records of the shadow evaluator

learningVars == <<closedTrades, models, artifacts, bandit, banditActive,
                  shadowCount>>

Interval == (0..MaxClosed) \X (0..MaxClosed)
Blank    == [trained |-> <<0, 0>>, updated |-> FALSE]
Statuses == {"training", "shadow", "active", "retired"}
Model    == [status : Statuses, evaluated : BOOLEAN, trained : Interval,
             file : 0..RecentTrades]

LearningTypeOK ==
    /\ closedTrades \in 0..MaxClosed
    /\ models \in Seq(Model) /\ Len(models) <= MaxVersions
    /\ \A f \in DOMAIN artifacts : artifacts[f] \in Interval
    /\ bandit \in [trained : Interval, updated : BOOLEAN]
    /\ banditActive \in BOOLEAN /\ shadowCount \in 0..ShadowTrades

-----------------------------------------------------------------------------
(* rl/registry.py                                                          *)

\* get_active and get_shadow: the highest version with that status, or 0.
Latest(status) ==
    LET found == {v \in DOMAIN models : models[v].status = status}
    IN  IF found = {} THEN 0 ELSE Max(found)

\* register.
Registered(ms, trained, name) ==
    Append(ms, [status |-> "training", evaluated |-> FALSE, trained |-> trained,
                file |-> name])

\* promote: one transaction, retiring the active model first.
Promote(ms, v, status) ==
    [w \in DOMAIN ms |->
        IF w = v THEN [ms[w] EXCEPT !.status = status]
        ELSE IF status = "active" /\ ms[w].status = "active"
             THEN [ms[w] EXCEPT !.status = "retired"] ELSE ms[w]]

-----------------------------------------------------------------------------
(* The trading process.                                                    *)

LearningInit ==
    /\ closedTrades = 0 /\ models = <<>> /\ artifacts = [n \in {} |-> <<0, 0>>]
    /\ bandit = Blank /\ banditActive = FALSE /\ shadowCount = 0

\* Mutant: the evaluator does not wait for its minimum of trades.
EnoughRecordsAtOnce(n) == n >= 1

EnoughRecords(n) == n >= ShadowTrades

\* ShadowEvaluator.record; the advantage over taking every trade, known only
\* with enough records, decides in should_activate.
Recorded(n)         == Min({n + 1, ShadowTrades})
MayActivate(n, yes) == EnoughRecords(n) /\ yes

\* SignalBandit.update: an outcome moves the weights of one arm.
Updated(b) == [b EXCEPT !.updated = TRUE]

\* _close_position: the outcome trains the bandit and, until it is active, is
\* recorded in the shadow evaluator, which may activate it.  Without cached
\* candles the trade teaches nothing.
TradeCloses ==
    /\ closedTrades < MaxClosed
    /\ closedTrades' = closedTrades + 1
    /\ \/ /\ bandit' = Updated(bandit)
          /\ IF banditActive THEN UNCHANGED <<banditActive, shadowCount>>
             ELSE /\ shadowCount' = Recorded(shadowCount)
                  /\ \E advantage \in BOOLEAN :
                        banditActive' = MayActivate(shadowCount', advantage)
       \/ UNCHANGED <<bandit, banditActive, shadowCount>>
    /\ UNCHANGED <<models, artifacts>>

\* Mutant: one name for all artifacts.
FixedName(trained) == 0

\* The number of updates names the file: trades in the window.
ArtifactName(trained) == trained[2] - trained[1] + 1

\* retrain_bandit trains a new bandit on the window, writes its file, then
\* registers the version and makes it the shadow.
Window == <<Max({1, closedTrades - RecentTrades + 1}), closedTrades>>

RetrainBandit ==
    LET name == ArtifactName(Window)
        new  == Registered(models, Window, name)
    IN  /\ artifacts' = [n \in DOMAIN artifacts \cup {name} |->
                            IF n = name THEN Window ELSE artifacts[n]]
        /\ \/ models' = Promote(new, Len(new), "shadow")
              /\ UNCHANGED <<bandit, banditActive, shadowCount>>
           \/ /\ models' \in {models, new}       \* a crash on the way
              /\ bandit' = Blank /\ banditActive' = FALSE /\ shadowCount' = 0

\* The job asks auto_promote for the latest shadow, which is the version just
\* registered and has no evaluation yet, so it promotes nothing.
WeeklyRetraining ==
    /\ closedTrades >= MinRecent /\ Len(models) < MaxVersions
    /\ RetrainBandit
    /\ UNCHANGED closedTrades

\* update_shadow_sharpe and auto_promote, called by hand: no job of the runner
\* evaluates a shadow.
EvaluateShadow ==
    /\ Latest("shadow") # 0
    /\ models' = [models EXCEPT ![Latest("shadow")].evaluated = TRUE]
    /\ UNCHANGED <<closedTrades, artifacts, bandit, banditActive, shadowCount>>

AutoPromote ==
    /\ Latest("shadow") # 0 /\ models[Latest("shadow")].evaluated
    /\ models' = Promote(models, Latest("shadow"), "active")
    /\ UNCHANGED <<closedTrades, artifacts, bandit, banditActive, shadowCount>>

\* _load_bandit_model reads the file of the active version; a file with another
\* number of features leaves a blank bandit that filters nothing.
Loaded(version) == [trained |-> artifacts[models[version].file], updated |-> FALSE]

LoadBanditModel(fits) ==
    LET active == Latest("active")
    IN  /\ banditActive' = (active # 0 /\ fits)
        /\ bandit' = IF active # 0 /\ fits THEN Loaded(active) ELSE Blank

\* A new process: what the bandit learned from its own trades is gone.
LearningRestart ==
    /\ \E fits \in BOOLEAN : LoadBanditModel(fits)
    /\ shadowCount' = 0
    /\ UNCHANGED <<closedTrades, models, artifacts>>

LearningNext ==
    \/ TradeCloses
    \/ WeeklyRetraining
    \/ EvaluateShadow
    \/ AutoPromote
    \/ LearningRestart

LearningSpec == LearningInit /\ [][LearningNext]_learningVars

-----------------------------------------------------------------------------
(* Properties.                                                             *)

\* "Version-controlled model storage": every version's artifact is the model
\* that was registered, and the weights the process loaded are those of some
\* version -- as long as the trade log is not longer than the window.  Beyond
\* that the number of updates no longer tells two models apart, and retraining
\* overwrites the file of an older, perhaps active, version.
ArtifactsAreKept ==
    closedTrades <= RecentTrades =>
        /\ \A v \in DOMAIN models : artifacts[models[v].file] = models[v].trained
        /\ bandit.trained # <<0, 0>> =>
               \E v \in DOMAIN models : models[v].trained = bandit.trained

\* A bandit that filters live entries has earned it: it was recorded in shadow
\* mode for the minimum of trades in this process, or it is a promoted model.
FilterIsEarned ==
    banditActive => \/ shadowCount = ShadowTrades
                    \/ bandit.trained # <<0, 0>> /\ Latest("active") # 0

=============================================================================
