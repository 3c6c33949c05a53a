--------------------------- MODULE MCPaperBroker ---------------------------
(* The broker simulator on a small account. The .cfg file gives the constants. *)
EXTENDS PaperBroker

=============================================================================
