----------------------------- MODULE MCProtocol -----------------------------
(* Protocol over a few days; the .cfg files give the constants. *)
EXTENDS Protocol

=============================================================================
