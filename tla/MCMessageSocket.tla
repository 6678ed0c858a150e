-------------------------- MODULE MCMessageSocket --------------------------
(* A server socket with TLS and without; a client with TLS, as one without *)
(* only skips a step.                                                      *)
EXTENDS MessageSocket

MCKinds == {<<"client", TRUE>>, <<"server", TRUE>>, <<"server", FALSE>>}

=============================================================================
