------------------------- MODULE MCServiceDirectory -------------------------
(* A small instance of the service directory: interchangeable sockets.     *)
EXTENDS ServiceDirectory, TLC

Symmetry == Permutations(Sockets) \cup Permutations(Endpoints)

=============================================================================
