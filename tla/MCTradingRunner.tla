-------------------------- MODULE MCTradingRunner --------------------------
(* TradingRunner on small accounts. The .cfg files give the constants. *)
EXTENDS TradingRunner

=============================================================================
