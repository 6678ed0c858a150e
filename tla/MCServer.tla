------------------------------ MODULE MCServer ------------------------------
(* Two objects, a client and a service directory.                          *)
EXTENDS Server

=============================================================================
