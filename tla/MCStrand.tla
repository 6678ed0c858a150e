------------------------------ MODULE MCStrand ------------------------------
(***************************************************************************)
(* Instances of Strand for TLC: two workers, and one task of each kind.    *)
(***************************************************************************)
EXTENDS Strand

CONSTANTS now, late, must, msg, w1, w2
=============================================================================
