------------------------------ MODULE MCNaming ------------------------------
(* Two clients that compete for a name, and a session that waits for it.   *)
EXTENDS Naming

=============================================================================
