---------------------------- MODULE ScaleManager ----------------------------
(***************************************************************************)
(* risk/scaling.py: tranche arithmetic of scale-in and scale-out.          *)
(* ScalePercent stands for tranche_pct and for the exit_fraction of every  *)
(* profit level, both 0.33 in the code; int() truncates.  Whether the      *)
(* price has moved far enough (current_price - entry_price against a       *)
(* multiple of the ATR) is an input the caller chooses.                    *)
(***************************************************************************)
EXTENDS Integers

CONSTANTS MaxTranches,      \* max_tranches
          ProfitLevels,     \* len(profit_levels)
          ScalePercent      \* tranche_pct and exit_fraction, in percent

ASSUME ScaleAssumption ==
    /\ MaxTranches \in Nat \ {0}
    /\ ProfitLevels \in Nat
    /\ ScalePercent \in 1..99

Share(units) == (units * ScalePercent) \div 100

AtLeastOne(n) == IF n = 0 THEN 1 ELSE n

\* Mutant: one tranche too many.
MayAddOneMore(position) == position.tranches <= MaxTranches

MayAdd(position)    == position.tranches < MaxTranches
MayReduce(position) == position.levels < ProfitLevels

TrancheUnits(units) == AtLeastOne(Share(units))

ReductionUnits(units, level) ==
    IF level >= ProfitLevels THEN 0 ELSE AtLeastOne(Share(units))

=============================================================================
