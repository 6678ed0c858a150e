------------------------------- MODULE Queues -------------------------------
(***************************************************************************)
(* std::deque::erase and std::find on the queues of tasks, messages and    *)
(* callbacks, in a form the provers can use.                               *)
(***************************************************************************)
EXTENDS Integers, Sequences, Functions

\* The sequence without its i-th element.
EraseAt(s, i) == [k \in 1..(Len(s) - 1) |-> IF k < i THEN s[k] ELSE s[k + 1]]

\* The sequence without an element, if it has it: the loop that looks for an id
\* and erases the iterator it stops at.  The ids in a queue are unique.
Erase(s, x) ==
    IF x \in Range(s)
    THEN EraseAt(s, CHOOSE i \in DOMAIN s : s[i] = x)
    ELSE s
=============================================================================
