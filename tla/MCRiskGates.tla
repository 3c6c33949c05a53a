---------------------------- MODULE MCRiskGates ----------------------------
(* RiskGates with a few equities and days. The .cfg files give the constants. *)
EXTENDS RiskGates

=============================================================================
