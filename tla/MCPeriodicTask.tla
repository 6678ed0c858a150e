--------------------------- MODULE MCPeriodicTask ---------------------------
(***************************************************************************)
(* Instances of PeriodicTask for TLC, with threads named by strings.       *)
(***************************************************************************)
EXTENDS PeriodicTask

\* One caller starts and stops, the other triggers.
Roles == [c \in Callers |-> IF c = "c1" THEN Calls \ {"trigger"} ELSE {"trigger"}]
\* The other, which may be a worker in another task of the event loop, stops too.
Stoppers == [c \in Callers |-> IF c = "c1" THEN Calls \ {"trigger"} ELSE {"stop", "trigger"}]
\* The only caller starts and stops.
StartStop == [c \in Callers |-> {"start", "stop"}]
=============================================================================
