---------------------------- MODULE MCEventLoop ----------------------------
(* Instances of EventLoop for TLC: a task that waits for a delayed one.    *)
EXTENDS EventLoop

CONSTANTS waits, late

MCWaitsFor == [t \in Tasks |-> IF t = waits THEN late ELSE NoTask]

=============================================================================
