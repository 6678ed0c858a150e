------------------------------- MODULE OneShot ------------------------------
(***************************************************************************)
(* What a qi::Future promises to its users, without threads or locks: one  *)
(* result, set once and kept, and each callback called at most once and    *)
(* only when the result is there.                                          *)
(***************************************************************************)
EXTENDS Naturals

CONSTANTS Outcomes, Listeners, Running

VARIABLES result, calls

Init ==
    /\ result = Running
    /\ calls = [c \in Listeners |-> 0]

Complete ==
    /\ result = Running
    /\ result' \in Outcomes
    /\ UNCHANGED calls

Notify(c) ==
    /\ result \in Outcomes
    /\ calls[c] = 0
    /\ calls' = [calls EXCEPT ![c] = 1]
    /\ UNCHANGED result

Next == Complete \/ \E c \in Listeners : Notify(c)

Spec == Init /\ [][Next]_<<result, calls>>
=============================================================================
