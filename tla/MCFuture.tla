------------------------------ MODULE MCFuture ------------------------------
(***************************************************************************)
(* Instances of Future for TLC: two threads, one of which constructs the   *)
(* promise, and callbacks called directly, posted, or left to the promise. *)
(***************************************************************************)
EXTENDS Future

CONSTANTS t1, t2, p1, p2, c1, c2, k1, k2

MCThreads  == {t1, t2}
MCPromises == {p1, p2}

MCCallType == [c \in {c1, c2} |-> IF c = c1 THEN "Sync" ELSE "Async"]
MCAutoType == [c \in {c1} |-> "Auto"]
=============================================================================
