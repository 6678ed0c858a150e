------------------------------- MODULE MCRpc -------------------------------
(* Two calls through one remote object, of which one returns a future.     *)
EXTENDS Rpc

=============================================================================
