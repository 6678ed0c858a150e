---------------------------- MODULE StrandProofs ----------------------------
(***************************************************************************)
(* Proofs about module Strand, for any set of tasks of each kind and any   *)
(* number of workers.                                                      *)
(***************************************************************************)
EXTENDS Strand, SequenceTheorems, FiniteSetTheorems, TLAPS

-----------------------------------------------------------------------------
(***************************************************************************)
(* The deque of tasks: what appending, taking the head and erasing do to *)
(* the elements of a sequence.                                           *)
(***************************************************************************)

\* Appending an element not yet in a queue.
LEMMA AppendRange ==
    ASSUME NEW S, NEW s \in Seq(S), NEW x \in S
    PROVE  /\ Append(s, x) \in Seq(S)
           /\ Range(Append(s, x)) = Range(s) \cup {x}
           /\ (IsInjective(s) /\ x \notin Range(s)) => IsInjective(Append(s, x))
<1>1. /\ Append(s, x) \in Seq(S)
      /\ DOMAIN s = 1..Len(s)
      /\ DOMAIN Append(s, x) = 1..(Len(s) + 1)
      /\ \A i \in 1..Len(s) : Append(s, x)[i] = s[i]
      /\ Append(s, x)[Len(s) + 1] = x
      /\ Len(s) \in Nat
  OBVIOUS
<1>2. Range(Append(s, x)) = Range(s) \cup {x}
  BY <1>1 DEF Range
<1>3. ASSUME IsInjective(s), x \notin Range(s)
      PROVE  IsInjective(Append(s, x))
  BY <1>1, <1>3 DEF IsInjective, Range
<1> QED BY <1>1, <1>2, <1>3

\* Taking the head of a queue leaves it out of the rest.
LEMMA TailRange ==
    ASSUME NEW S, NEW s \in Seq(S), s # <<>>
    PROVE  /\ Head(s) \in S
           /\ Tail(s) \in Seq(S)
           /\ Range(s) = {Head(s)} \cup Range(Tail(s))
           /\ IsInjective(s) => /\ IsInjective(Tail(s))
                                /\ Head(s) \notin Range(Tail(s))
<1>1. /\ Head(s) \in S /\ Head(s) = s[1]
      /\ Tail(s) \in Seq(S)
      /\ Len(s) \in Nat /\ Len(s) >= 1
      /\ DOMAIN s = 1..Len(s)
      /\ DOMAIN Tail(s) = 1..(Len(s) - 1)
      /\ \A i \in 1..(Len(s) - 1) : Tail(s)[i] = s[i + 1]
  OBVIOUS
<1>2. Range(s) = {Head(s)} \cup Range(Tail(s))
  <2>1. ASSUME NEW e \in Range(s) PROVE e \in {Head(s)} \cup Range(Tail(s))
    <3>1. PICK i \in 1..Len(s) : e = s[i]
      BY <1>1, <2>1 DEF Range
    <3>2. CASE i = 1
      BY <3>1, <3>2, <1>1
    <3>3. CASE i # 1
      <4>1. i - 1 \in 1..(Len(s) - 1) /\ Tail(s)[i - 1] = s[i]
        BY <3>3, <1>1
      <4> QED BY <4>1, <3>1, <1>1 DEF Range
    <3> QED BY <3>2, <3>3
  <2>2. ASSUME NEW e \in {Head(s)} \cup Range(Tail(s)) PROVE e \in Range(s)
    BY <1>1, <2>2 DEF Range
  <2> QED BY <2>1, <2>2
<1>3. ASSUME IsInjective(s)
      PROVE  IsInjective(Tail(s)) /\ Head(s) \notin Range(Tail(s))
  <2>1. \A i, j \in 1..Len(s) : s[i] = s[j] => i = j
    BY <1>1, <1>3 DEF IsInjective
  <2>2. \A i, j \in 1..(Len(s) - 1) : Tail(s)[i] = Tail(s)[j] => i = j
    <3>1. ASSUME NEW i \in 1..(Len(s) - 1), NEW j \in 1..(Len(s) - 1),
                 Tail(s)[i] = Tail(s)[j]
          PROVE  i = j
      <4>1. i + 1 \in 1..Len(s) /\ j + 1 \in 1..Len(s) /\ s[i + 1] = s[j + 1]
        BY <1>1, <3>1
      <4> QED BY <4>1, <2>1
    <3> QED BY <3>1
  <2>3. \A i \in 1..(Len(s) - 1) : Tail(s)[i] # Head(s)
    <3>1. ASSUME NEW i \in 1..(Len(s) - 1), Tail(s)[i] = Head(s) PROVE FALSE
      <4>1. i + 1 \in 1..Len(s) /\ 1 \in 1..Len(s) /\ s[i + 1] = s[1] /\ i + 1 # 1
        BY <1>1, <3>1
      <4> QED BY <4>1, <2>1
    <3> QED BY <3>1
  <2> QED BY <2>2, <2>3, <1>1 DEF IsInjective, Range
<1> QED BY <1>1, <1>2, <1>3

\* The empty queue.
LEMMA EmptyRange ==
    Range(<<>>) = {} /\ IsInjective(<<>>) /\ \A S : <<>> \in Seq(S)
BY DEF Range, IsInjective

\* Erasing one element of a queue (std::deque::erase): the others stay.
LEMMA EraseAtRange ==
    ASSUME NEW S, NEW s \in Seq(S), NEW i \in DOMAIN s
    PROVE  /\ EraseAt(s, i) \in Seq(S)
           /\ Range(EraseAt(s, i)) \subseteq Range(s)
           /\ Range(s) \subseteq Range(EraseAt(s, i)) \cup {s[i]}
           /\ IsInjective(s) => /\ IsInjective(EraseAt(s, i))
                                /\ s[i] \notin Range(EraseAt(s, i))
<1> DEFINE e == EraseAt(s, i)
<1>1. /\ Len(s) \in Nat /\ DOMAIN s = 1..Len(s) /\ i \in 1..Len(s)
      /\ DOMAIN e = 1..(Len(s) - 1) /\ Len(s) - 1 \in Nat
      /\ \A k \in 1..(Len(s) - 1) : e[k] = IF k < i THEN s[k] ELSE s[k + 1]
      /\ \A k \in 1..Len(s) : s[k] \in S
  BY DEF EraseAt
<1>2. \A k \in 1..(Len(s) - 1) : k \in 1..Len(s) /\ k + 1 \in 1..Len(s)
  BY <1>1
<1>3. e \in Seq(S)
  <2>1. e \in [1..(Len(s) - 1) -> S]
    BY <1>1, <1>2 DEF EraseAt
  <2> QED BY <2>1, <1>1, SeqDef
<1>4. Range(e) \subseteq Range(s)
  BY <1>1, <1>2 DEF Range
<1>5. Range(s) \subseteq Range(e) \cup {s[i]}
  <2> SUFFICES ASSUME NEW k \in 1..Len(s), k # i PROVE s[k] \in Range(e)
    BY <1>1 DEF Range
  <2>1. CASE k < i
    <3>1. k \in 1..(Len(s) - 1) /\ e[k] = s[k]
      BY <2>1, <1>1
    <3> QED BY <3>1, <1>1 DEF Range
  <2>2. CASE k > i
    <3>1. k - 1 \in 1..(Len(s) - 1) /\ e[k - 1] = s[k]
      BY <2>2, <1>1
    <3> QED BY <3>1, <1>1 DEF Range
  <2> QED BY <2>1, <2>2, <1>1
<1>6. ASSUME IsInjective(s) PROVE IsInjective(e) /\ s[i] \notin Range(e)
  <2>1. \A j, k \in 1..Len(s) : s[j] = s[k] => j = k
    BY <1>1, <1>6 DEF IsInjective
  <2>2. ASSUME NEW j \in 1..(Len(s) - 1), NEW k \in 1..(Len(s) - 1), e[j] = e[k]
        PROVE  j = k
    <3> DEFINE J == IF j < i THEN j ELSE j + 1
               K == IF k < i THEN k ELSE k + 1
    <3>1. J \in 1..Len(s) /\ K \in 1..Len(s) /\ e[j] = s[J] /\ e[k] = s[K]
      BY <1>1, <1>2
    <3>2. J = K
      BY <3>1, <2>2, <2>1
    <3> QED BY <3>2, <1>1
  <2>3. ASSUME NEW j \in 1..(Len(s) - 1), e[j] = s[i] PROVE FALSE
    <3> DEFINE J == IF j < i THEN j ELSE j + 1
    <3>1. J \in 1..Len(s) /\ e[j] = s[J] /\ J # i
      BY <1>1, <1>2
    <3> QED BY <3>1, <2>3, <2>1, <1>1
  <2> QED BY <2>2, <2>3, <1>1 DEF IsInjective, Range
<1> QED BY <1>3, <1>4, <1>5, <1>6

\* Erasing an element by its value.
LEMMA EraseRange ==
    ASSUME NEW S, NEW s \in Seq(S), NEW x \in S
    PROVE  /\ Erase(s, x) \in Seq(S)
           /\ Range(Erase(s, x)) \subseteq Range(s)
           /\ Range(s) \subseteq Range(Erase(s, x)) \cup {x}
           /\ IsInjective(s) => IsInjective(Erase(s, x)) /\ x \notin Range(Erase(s, x))
<1>1. CASE x \in Range(s)
  <2>1. PICK i \in DOMAIN s : i = (CHOOSE k \in DOMAIN s : s[k] = x) /\ s[i] = x
    BY <1>1 DEF Range
  <2>2. Erase(s, x) = EraseAt(s, i)
    BY <1>1, <2>1 DEF Erase
  <2>3. /\ EraseAt(s, i) \in Seq(S)
        /\ Range(EraseAt(s, i)) \subseteq Range(s)
        /\ Range(s) \subseteq Range(EraseAt(s, i)) \cup {x}
        /\ IsInjective(s) => IsInjective(EraseAt(s, i)) /\ x \notin Range(EraseAt(s, i))
    BY <2>1, EraseAtRange
  <2> QED BY <2>2, <2>3
<1>2. CASE x \notin Range(s)
  BY <1>2 DEF Erase
<1> QED BY <1>1, <1>2

TaskStates == {"New", "None", "Scheduled", "Running", "Canceled"}
Results    == {"none", "pending", "done", "error", "canceled"}

-----------------------------------------------------------------------------
(***************************************************************************)
(* The queue and the promises: what the operations on them return.         *)
(***************************************************************************)

\* trySetError and setCanceled change an unfinished promise only.
LEMMA SetIfPendingType ==
    ASSUME NEW c \in Tasks, NEW o \in Results, result \in [Tasks -> Results]
    PROVE  /\ SetIfPending(c, o) \in [Tasks -> Results]
           /\ SetIfPending(c, o)[c] = IF result[c] = "pending" THEN o ELSE result[c]
           /\ \A d \in Tasks : d # c => SetIfPending(c, o)[d] = result[d]
BY DEF SetIfPending
-----------------------------------------------------------------------------
(***************************************************************************)
(* Type correctness.                                                       *)
(***************************************************************************)

\* enqueue() keeps the types.
LEMMA ScheduleType ==
    ASSUME TypeOK, NEW c \in Tasks, Schedule(c)
    PROVE  /\ queue' \in Seq(Tasks) /\ taskState' \in [Tasks -> TaskStates]
           /\ processing' \in BOOLEAN /\ posted' \in Nat /\ group' \subseteq Delayed
BY AppendRange DEF Schedule, TypeOK, TaskStates

\* join() keeps the types.
LEMMA DropType ==
    ASSUME TypeOK, NEW S, DropTasks(S)
    PROVE  /\ queue' \in Seq(Tasks) /\ result' \in [Tasks -> Results] /\ group' \subseteq Delayed
BY EmptyRange DEF DropTasks, TypeOK, Results

\* A fresh strand.
LEMMA TypeInit == Init => TypeOK
<1> SUFFICES ASSUME Init PROVE TypeOK
  OBVIOUS
<1>1. /\ taskState \in [Tasks -> TaskStates] /\ result \in [Tasks -> Results]
      /\ pc \in [Workers -> {"idle", "loop", "run", "ended", "stop", "repost"}]
      /\ job \in [Workers -> Tasks \cup {NoTask}] /\ runs \in [Tasks -> Nat]
  BY DEF Init, TaskStates, Results
<1>2. queue \in Seq(Tasks) /\ processingThread \in Workers \cup {NoWorker}
  BY EmptyRange DEF Init
<1>3. /\ processing \in BOOLEAN /\ dying \in BOOLEAN /\ joined \in BOOLEAN
      /\ held \in BOOLEAN /\ alive \in BOOLEAN
  BY DEF Init
<1>4. /\ aliveCount \in Int /\ posted \in Nat /\ group = {} /\ timers = {}
      /\ cancels = {} /\ cancelTaken = {} /\ joiner = "none"
  BY DEF Init
<1> QED BY <1>1, <1>2, <1>3, <1>4 DEF TypeOK, TaskStates, Results

\* Every step keeps the types.
LEMMA TypeNext == TypeOK /\ [Next]_vars => TypeOK'
<1> SUFFICES ASSUME TypeOK, [Next]_vars PROVE TypeOK'
  OBVIOUS
<1> USE TasksAssumption, WorkersAssumption
<1>0. result \in [Tasks -> Results]
  BY DEF TypeOK, Results
<1>1. ASSUME NEW w \in Workers, StartProcess(w) PROVE TypeOK'
  BY <1>1 DEF StartProcess, TypeOK, taskVars, cancelVars, lifeVars, procVars
<1>2. ASSUME NEW w \in Workers, PopDying(w) PROVE TypeOK'
  BY <1>2 DEF PopDying, TypeOK, taskVars, cancelVars, lifeVars, procVars
<1>3. ASSUME NEW w \in Workers, PopEmpty(w) PROVE TypeOK'
  BY <1>3 DEF PopEmpty, TypeOK, taskVars, cancelVars, lifeVars, procVars
<1>4. ASSUME NEW w \in Workers, EscapeTask(w) PROVE TypeOK'
  BY <1>4 DEF EscapeTask, TypeOK, taskVars, cancelVars, lifeVars, procVars
<1>5. ASSUME NEW w \in Workers, EndProcess(w) PROVE TypeOK'
  BY <1>5 DEF EndProcess, TypeOK, taskVars, cancelVars, lifeVars, procVars
<1>6. ASSUME NEW w \in Workers, stopProcess(w) PROVE TypeOK'
  BY <1>6 DEF stopProcess, TypeOK, taskVars, cancelVars, lifeVars, procVars
<1>7. ASSUME NEW w \in Workers, Repost(w) PROVE TypeOK'
  BY <1>7 DEF Repost, TypeOK, taskVars, cancelVars, lifeVars, procVars
<1>8. ASSUME NEW w \in Workers, JoinInTask(w) PROVE TypeOK'
  BY <1>8 DEF JoinInTask, TypeOK, taskVars, cancelVars, lifeVars, procVars
<1>9. ASSUME NEW w \in Workers, PopTask(w) PROVE TypeOK'
  <2>1. Head(queue) \in Tasks /\ Tail(queue) \in Seq(Tasks)
    BY <1>9, TailRange DEF PopTask, TypeOK
  <2>2. pc' \in [Workers -> {"idle", "loop", "run", "ended", "stop", "repost"}]
    BY <1>9 DEF PopTask, TypeOK
  <2>3. job' \in [Workers -> Tasks \cup {NoTask}] /\ aliveCount' \in Int
    <3>1. [job EXCEPT ![w] = Head(queue)] \in [Workers -> Tasks \cup {NoTask}]
      BY <2>1 DEF TypeOK
    <3>2. \/ job' = [job EXCEPT ![w] = Head(queue)] /\ aliveCount' = aliveCount - 1
          \/ job' = job /\ aliveCount' = aliveCount
      BY <1>9 DEF PopTask
    <3>3. job \in [Workers -> Tasks \cup {NoTask}] /\ aliveCount \in Int
      BY DEF TypeOK
    <3> QED BY <3>1, <3>2, <3>3
  <2>4. taskState' \in [Tasks -> TaskStates]
    BY <1>9, <2>1 DEF PopTask, TypeOK, TaskStates
  <2>5. runs' \in [Tasks -> Nat]
    <3>1. [runs EXCEPT ![Head(queue)] = runs[Head(queue)] + 1] \in [Tasks -> Nat]
      BY <2>1 DEF TypeOK
    <3> QED BY <1>9, <3>1 DEF PopTask, TypeOK
  <2>6. /\ queue' = Tail(queue)
        /\ UNCHANGED <<result, processing, processingThread, group, timers, posted,
                       cancelVars, lifeVars>>
    BY <1>9 DEF PopTask
  <2> QED BY <2>1, <2>2, <2>3, <2>4, <2>5, <2>6 DEF TypeOK, TaskStates, cancelVars, lifeVars
<1>10. ASSUME NEW w \in Workers, FinishTask(w) PROVE TypeOK'
  <2>1. job[w] \in Tasks => result' \in [Tasks -> Results]
    BY <1>10, <1>0 DEF FinishTask, Results
  <2>2. job[w] \notin Tasks => result' = result
    BY <1>10, <1>0 DEF FinishTask
  <2>3. pc' \in [Workers -> {"idle", "loop", "run", "ended", "stop", "repost"}] /\ job' \in [Workers -> Tasks \cup {NoTask}]
    BY <1>10 DEF FinishTask, TypeOK
  <2> QED BY <1>10, <1>0, <2>1, <2>2, <2>3 DEF FinishTask, TypeOK, Results, cancelVars, lifeVars
<1>11. ASSUME NEW w \in Workers, NEW c \in Tasks, ExecNow(w, c) PROVE TypeOK'
  BY <1>11 DEF ExecNow, TypeOK, taskVars, cancelVars, lifeVars, procVars
<1>12. ASSUME NEW c \in Tasks, Defer(c) PROVE TypeOK'
  <2>1. /\ queue' \in Seq(Tasks) /\ taskState' \in [Tasks -> TaskStates]
        /\ processing' \in BOOLEAN /\ posted' \in Nat /\ group' \subseteq Delayed
    BY <1>12, ScheduleType DEF Defer, TypeOK, TaskStates
  <2>2. result' \in [Tasks -> Results] /\ aliveCount' \in Int
    <3>1. \E r \in {"error", "pending"} : result' = [result EXCEPT ![c] = r]
      BY <1>12 DEF Defer
    <3>2. aliveCount' = aliveCount \/ aliveCount' = aliveCount + 1
      BY <1>12 DEF Defer
    <3> QED BY <1>0, <3>1, <3>2 DEF TypeOK, Results
  <2> QED BY <1>12, <2>1, <2>2 DEF Defer, TypeOK, TaskStates, Results, taskVars, cancelVars, lifeVars, procVars
<1>13. ASSUME NEW c \in Tasks, Post(c) PROVE TypeOK'
  <2>1. taskState' \in [Tasks -> TaskStates] /\ result' \in [Tasks -> Results]
    BY <1>13, <1>0 DEF Post, TypeOK, TaskStates, Results
  <2>2. aliveCount' \in Int
    BY <1>13 DEF Post, TypeOK
  <2> QED BY <1>13, <2>1, <2>2 DEF Post, TypeOK, TaskStates, Results, taskVars, cancelVars, lifeVars, procVars
<1>14. ASSUME NEW c \in Tasks, DeferDelayed(c) PROVE TypeOK'
  <2>1. taskState' \in [Tasks -> TaskStates] /\ result' \in [Tasks -> Results]
    BY <1>14, <1>0 DEF DeferDelayed, TypeOK, TaskStates, Results
  <2>2. timers' \subseteq Delayed /\ group' \subseteq Delayed /\ aliveCount' \in Int
    BY <1>14 DEF DeferDelayed, TypeOK
  <2> QED BY <1>14, <2>1, <2>2 DEF DeferDelayed, TypeOK, TaskStates, Results, taskVars, cancelVars, lifeVars, procVars
<1>15. ASSUME NEW c \in Tasks, TimerFires(c) PROVE TypeOK'
  <2>1. /\ queue' \in Seq(Tasks) /\ taskState' \in [Tasks -> TaskStates]
        /\ processing' \in BOOLEAN /\ posted' \in Nat /\ group' \subseteq Delayed
    BY <1>15, ScheduleType DEF TimerFires, TypeOK, TaskStates
  <2>2. result' \in [Tasks -> Results]
    <3>1. SetIfPending(c, "error") \in [Tasks -> Results]
      BY <1>0, SetIfPendingType DEF Results
    <3> QED BY <1>15, <1>0, <3>1 DEF TimerFires
  <2>3. timers' \subseteq Delayed
    BY <1>15 DEF TimerFires, TypeOK
  <2> QED BY <1>15, <2>1, <2>2, <2>3 DEF TimerFires, TypeOK, TaskStates, Results, taskVars, cancelVars, lifeVars, procVars
<1>16. ASSUME NEW c \in Tasks, TimerCanceled(c) PROVE TypeOK'
  BY <1>16 DEF TimerCanceled, TypeOK, taskVars, cancelVars, lifeVars, procVars
<1>17. ASSUME NEW c \in Tasks, FutureCancel(c) PROVE TypeOK'
  BY <1>17 DEF FutureCancel, TypeOK, taskVars, cancelVars, lifeVars, procVars
<1>18. ASSUME NEW c \in Tasks, cancel(c) PROVE TypeOK'
  <2>1. /\ SetIfPending(c, "error") \in [Tasks -> Results]
        /\ SetIfPending(c, "canceled") \in [Tasks -> Results]
    BY <1>0, SetIfPendingType DEF Results
  <2>2. Erase(queue, c) \in Seq(Tasks)
    BY EraseRange DEF TypeOK
  <2>3. [taskState EXCEPT ![c] = "Canceled"] \in [Tasks -> TaskStates]
    BY DEF TypeOK, TaskStates
  <2>4. /\ queue' \in Seq(Tasks) /\ taskState' \in [Tasks -> TaskStates]
        /\ result' \in [Tasks -> Results] /\ aliveCount' \in Int
    <3>1. queue' = queue \/ queue' = Erase(queue, c)
      BY <1>18 DEF cancel, CancelDying, CancelNone, CancelScheduled, CancelTooLate
    <3>2. taskState' = taskState \/ taskState' = [taskState EXCEPT ![c] = "Canceled"]
      BY <1>18 DEF cancel, CancelDying, CancelNone, CancelScheduled, CancelTooLate
    <3>3. \/ result' = result \/ result' = SetIfPending(c, "error")
          \/ result' = SetIfPending(c, "canceled")
      BY <1>18 DEF cancel, CancelDying, CancelNone, CancelScheduled, CancelTooLate
    <3>4. aliveCount' = aliveCount \/ aliveCount' = aliveCount - 1
      BY <1>18 DEF cancel, CancelDying, CancelNone, CancelScheduled, CancelTooLate
    <3>5. queue \in Seq(Tasks) /\ taskState \in [Tasks -> TaskStates] /\ aliveCount \in Int
      BY DEF TypeOK, TaskStates
    <3> QED BY <1>0, <2>1, <2>2, <2>3, <3>1, <3>2, <3>3, <3>4, <3>5
  <2> QED BY <1>18, <2>4 DEF cancel, TypeOK, TaskStates, Results, taskVars, cancelVars, lifeVars, procVars
<1>19. ASSUME Join PROVE TypeOK'
  <2>1. /\ queue' \in Seq(Tasks) /\ result' \in [Tasks -> Results] /\ group' \subseteq Delayed
    BY <1>19, DropType DEF Join
  <2> QED BY <1>19, <2>1 DEF Join, TypeOK, Results, taskVars, cancelVars, lifeVars, procVars
<1>20. ASSUME JoinReturn PROVE TypeOK'
  BY <1>20 DEF JoinReturn, TypeOK, taskVars, cancelVars, lifeVars, procVars
<1>21. ASSUME Destroy PROVE TypeOK'
  <2>1. /\ queue' \in Seq(Tasks) /\ result' \in [Tasks -> Results] /\ group' \subseteq Delayed
    BY <1>21, <1>0, DropType DEF Destroy, TypeOK
  <2>2. dying' \in BOOLEAN /\ joiner' \in {"none", "waiting", "done"}
    BY <1>21 DEF Destroy, TypeOK
  <2> QED BY <1>21, <2>1, <2>2 DEF Destroy, TypeOK, Results, taskVars, cancelVars, lifeVars, procVars
<1>22. ASSUME UNCHANGED vars PROVE TypeOK'
  BY <1>22 DEF vars, TypeOK, taskVars, cancelVars, lifeVars, procVars
<1>23. ASSUME NEW c \in Tasks, Enqueue(c) PROVE TypeOK'
  <2>1. /\ queue' \in Seq(Tasks) /\ taskState' \in [Tasks -> TaskStates]
        /\ processing' \in BOOLEAN /\ posted' \in Nat /\ group' \subseteq Delayed
    BY <1>23, ScheduleType DEF Enqueue, TypeOK, TaskStates
  <2>2. result' \in [Tasks -> Results]
    BY <1>23, <1>0 DEF Enqueue, Results
  <2> QED BY <1>23, <2>1, <2>2 DEF Enqueue, TypeOK, TaskStates, Results, taskVars, cancelVars, lifeVars, procVars
<1> QED BY <1>1, <1>2, <1>3, <1>4, <1>5, <1>6, <1>7, <1>8, <1>9, <1>10, <1>11, <1>12,
         <1>13, <1>14, <1>15, <1>16, <1>17, <1>18, <1>19, <1>20, <1>21, <1>22, <1>23
         DEF Next, Process, Submit
-----------------------------------------------------------------------------
(***************************************************************************)
(* Serial execution.  _processing is the lock: there is at most one call   *)
(* of process(), in the executor or in a worker, and none without it.      *)
(***************************************************************************)
ProcInv ==
    /\ posted \in {0, 1}
    /\ posted = 1 => processing /\ \A w \in Workers : pc[w] = "idle"
    /\ \A v, w \in Workers : (pc[v] # "idle" /\ pc[w] # "idle") => v = w
    /\ \A w \in Workers : pc[w] # "idle" => processing
    /\ joiner = "waiting" => dying
    /\ joined => dying /\ ~processing

\* Nothing is posted by a fresh strand.
LEMMA ProcInit == Init => ProcInv
BY DEF Init, ProcInv

\* enqueue() posts process() only if nobody processes.
LEMMA ProcSchedule ==
    ASSUME TypeOK, ProcInv, NEW c \in Tasks, Schedule(c), ~dying, pc' = pc, UNCHANGED lifeVars
    PROVE  ProcInv'
<1>1. CASE processing
  BY <1>1 DEF Schedule, ProcInv, TypeOK, lifeVars
<1>2. CASE ~processing
  BY <1>2 DEF Schedule, ProcInv, TypeOK, lifeVars
<1> QED BY <1>1, <1>2

\* Every step keeps the lock.
LEMMA ProcNext == TypeOK /\ ProcInv /\ [Next]_vars => ProcInv'
<1> SUFFICES ASSUME TypeOK, ProcInv, [Next]_vars PROVE ProcInv'
  OBVIOUS
<1>1. ASSUME NEW w \in Workers, StartProcess(w) PROVE ProcInv'
  BY <1>1 DEF StartProcess, ProcInv, TypeOK, procVars, lifeVars
<1>2. ASSUME NEW w \in Workers, PopDying(w) PROVE ProcInv'
  BY <1>2 DEF PopDying, ProcInv, TypeOK, procVars, lifeVars
<1>3. ASSUME NEW w \in Workers, PopEmpty(w) PROVE ProcInv'
  BY <1>3 DEF PopEmpty, ProcInv, TypeOK, procVars, lifeVars
<1>4. ASSUME NEW w \in Workers, PopTask(w) PROVE ProcInv'
  BY <1>4, ZenonT(60) DEF PopTask, ProcInv, TypeOK, procVars, lifeVars
<1>5. ASSUME NEW w \in Workers, FinishTask(w) PROVE ProcInv'
  BY <1>5 DEF FinishTask, ProcInv, TypeOK, procVars, lifeVars
<1>6. ASSUME NEW w \in Workers, EscapeTask(w) PROVE ProcInv'
  BY <1>6 DEF EscapeTask, ProcInv, TypeOK, procVars, lifeVars
<1>7. ASSUME NEW w \in Workers, EndProcess(w) PROVE ProcInv'
  BY <1>7 DEF EndProcess, ProcInv, TypeOK, procVars, lifeVars
<1>8. ASSUME NEW w \in Workers, stopProcess(w) PROVE ProcInv'
  BY <1>8 DEF stopProcess, ProcInv, TypeOK, procVars, lifeVars
<1>9. ASSUME NEW w \in Workers, Repost(w) PROVE ProcInv'
  BY <1>9 DEF Repost, ProcInv, TypeOK, procVars, lifeVars
<1>10. ASSUME NEW w \in Workers, JoinInTask(w) PROVE ProcInv'
  BY <1>10 DEF JoinInTask, ProcInv, TypeOK, procVars, lifeVars
<1>11. ASSUME NEW w \in Workers, NEW c \in Tasks, ExecNow(w, c) PROVE ProcInv'
  BY <1>11 DEF ExecNow, ProcInv, procVars, lifeVars
<1>12. ASSUME NEW c \in Tasks, Defer(c) PROVE ProcInv'
  <2>1. CASE Schedule(c) /\ ~dying
    BY <1>12, <2>1, ProcSchedule DEF Defer, procVars, lifeVars
  <2>2. CASE UNCHANGED <<processing, posted>>
    BY <1>12, <2>2 DEF Defer, ProcInv, procVars, lifeVars
  <2> QED BY <1>12, <2>1, <2>2 DEF Defer
<1>13. ASSUME NEW c \in Tasks, DeferDelayed(c) PROVE ProcInv'
  BY <1>13 DEF DeferDelayed, ProcInv, procVars, lifeVars
<1>14. ASSUME NEW c \in Tasks, Post(c) PROVE ProcInv'
  BY <1>14 DEF Post, ProcInv, procVars, lifeVars
<1>15. ASSUME NEW c \in Tasks, TimerFires(c) PROVE ProcInv'
  <2>1. CASE Schedule(c) /\ ~dying
    BY <1>15, <2>1, ProcSchedule DEF TimerFires, procVars, lifeVars
  <2>2. CASE UNCHANGED <<processing, posted>>
    BY <1>15, <2>2 DEF TimerFires, ProcInv, procVars, lifeVars
  <2> QED BY <1>15, <2>1, <2>2 DEF TimerFires
<1>16. ASSUME NEW c \in Tasks, TimerCanceled(c) PROVE ProcInv'
  BY <1>16 DEF TimerCanceled, ProcInv, procVars, lifeVars
<1>17. ASSUME NEW c \in Tasks, FutureCancel(c) PROVE ProcInv'
  BY <1>17 DEF FutureCancel, ProcInv, procVars, lifeVars
<1>18. ASSUME NEW c \in Tasks, cancel(c) PROVE ProcInv'
  BY <1>18 DEF cancel, ProcInv, procVars, lifeVars
<1>19. ASSUME Join PROVE ProcInv'
  BY <1>19 DEF Join, ProcInv, TypeOK, procVars
<1>20. ASSUME JoinReturn PROVE ProcInv'
  BY <1>20 DEF JoinReturn, ProcInv, TypeOK, procVars
<1>21. ASSUME Destroy PROVE ProcInv'
  BY <1>21 DEF Destroy, ProcInv, TypeOK, procVars
<1>22. ASSUME UNCHANGED vars PROVE ProcInv'
  BY <1>22 DEF vars, ProcInv, procVars, lifeVars
<1>23. ASSUME NEW c \in Tasks, Enqueue(c) PROVE ProcInv'
  <2>1. CASE Schedule(c) /\ ~dying
    BY <1>23, <2>1, ProcSchedule DEF Enqueue, procVars, lifeVars
  <2>2. CASE UNCHANGED <<processing, posted>>
    BY <1>23, <2>2 DEF Enqueue, ProcInv, procVars, lifeVars
  <2> QED BY <1>23, <2>1, <2>2 DEF Enqueue
<1> QED BY <1>1, <1>2, <1>3, <1>4, <1>5, <1>6, <1>7, <1>8, <1>9, <1>10, <1>11, <1>12,
         <1>13, <1>14, <1>15, <1>16, <1>17, <1>18, <1>19, <1>20, <1>21, <1>22, <1>23
         DEF Next, Process, Submit

\* Two callbacks are never executed concurrently, by any two workers.
LEMMA ProcSerial == ProcInv => Serial
BY DEF ProcInv, Serial

\* A step after join() has returned executes nothing.
LEMMA JoinedStep == TypeOK /\ ProcInv /\ joined /\ [Next]_vars => UNCHANGED runs
<1> SUFFICES ASSUME TypeOK, ProcInv, joined, [Next]_vars PROVE UNCHANGED runs
  OBVIOUS
<1>1. \A w \in Workers : pc[w] = "idle"
  BY DEF ProcInv, TypeOK
<1>2. ASSUME NEW w \in Workers, Process(w) PROVE UNCHANGED runs
  BY <1>1, <1>2 DEF Process, StartProcess, PopDying, PopEmpty, PopTask, FinishTask,
                    EscapeTask, EndProcess, stopProcess, Repost, taskVars
<1>3. ASSUME NEW w \in Workers, NEW c \in Tasks, ExecNow(w, c) PROVE FALSE
  BY <1>1, <1>3 DEF ExecNow
<1>4. ASSUME NEW w \in Workers, JoinInTask(w) PROVE UNCHANGED runs
  BY <1>4 DEF JoinInTask, taskVars
<1>5. ASSUME NEW c \in Tasks,
             \/ Submit(c) \/ Enqueue(c) \/ TimerFires(c) \/ TimerCanceled(c)
             \/ FutureCancel(c) \/ cancel(c)
      PROVE  UNCHANGED runs
  BY <1>5 DEF Submit, Defer, DeferDelayed, Post, Enqueue, TimerFires, TimerCanceled,
              FutureCancel, cancel, taskVars
<1>6. ASSUME Join \/ JoinReturn \/ Destroy PROVE UNCHANGED runs
  BY <1>6 DEF Join, JoinReturn, Destroy, taskVars
<1>7. ASSUME UNCHANGED vars PROVE UNCHANGED runs
  BY <1>7 DEF vars, taskVars
<1> QED BY <1>2, <1>3, <1>4, <1>5, <1>6, <1>7 DEF Next
-----------------------------------------------------------------------------
(***************************************************************************)
(* The life of a task: in the executor's timers, in the queue, executed.   *)
(* It is in one of these places at most, and a canceled future's task is   *)
(* in none from which it could be executed.                                *)
(***************************************************************************)
Queued(c) == c \in Range(queue)

TaskOK(c) ==
    /\ result[c] = "none" => taskState[c] = "New" /\ runs[c] = 0
    /\ taskState[c] \in {"New", "Running"} => ~Queued(c)
    /\ c \in timers => taskState[c] \in {"None", "Canceled"} /\ ~Queued(c)
    /\ Queued(c) => taskState[c] = "Scheduled" \/ (taskState[c] = "Canceled" /\ c \in NeverSkip)
    /\ taskState[c] \in {"None", "Scheduled", "Canceled"} => runs[c] = 0
    /\ runs[c] \in {0, 1}
    /\ result[c] = "canceled" =>
         /\ runs[c] = 0 /\ ~Queued(c)
         /\ c \in timers => taskState[c] = "Canceled" /\ c \notin NeverSkip
    /\ (taskState[c] = "Scheduled" /\ result[c] = "pending" /\ alive) => Queued(c)
    /\ (~dying /\ Queued(c)) => result[c] = "pending"
    /\ (~dying /\ c \in timers /\ (taskState[c] = "None" \/ c \in NeverSkip))
         => result[c] = "pending"
    /\ c \in cancels => c \in cancelTaken /\ taskState[c] # "Canceled"
    /\ taskState[c] = "Canceled" => c \in cancelTaken
    /\ (~dying /\ c \in cancels /\ taskState[c] \in {"None", "Scheduled"})
         => result[c] = "pending"

JobOK(w) == pc[w] = "run" => job[w] \in Tasks /\ taskState[job[w]] = "Running"

TaskInv ==
    /\ IsInjective(queue)
    /\ \A c \in Tasks : TaskOK(c)
    /\ \A w \in Workers : JobOK(w)

\* What a step leaves alone about a task.
Same(d) ==
    /\ result'[d] = result[d] /\ taskState'[d] = taskState[d] /\ runs'[d] = runs[d]
    /\ d \in timers' <=> d \in timers
    /\ d \in Range(queue') <=> d \in Range(queue)
    /\ d \in cancels' <=> d \in cancels
    /\ d \in cancelTaken' <=> d \in cancelTaken

\* A task that a step leaves alone stays as it was.
LEMMA TaskFrame ==
    ASSUME NEW d \in Tasks, TaskOK(d), Same(d), alive' => alive, dying => dying'
    PROVE  TaskOK(d)'
BY DEF TaskOK, Same, Queued

\* Nothing is known of any task to a fresh strand.
LEMMA TaskInit == Init => TaskInv
BY EmptyRange DEF Init, TaskInv, TaskOK, JobOK, Queued

\* enqueue() of a task that is not in the queue.
LEMMA ScheduleTask ==
    ASSUME TypeOK, TaskInv, NEW c \in Tasks, Schedule(c), ~Queued(c), taskState[c] # "Running",
           pc' = pc, job' = job
    PROVE  /\ IsInjective(queue') /\ Range(queue') = Range(queue) \cup {c}
           /\ taskState'[c] = "Scheduled"
           /\ \A d \in Tasks : d # c => taskState'[d] = taskState[d]
           /\ \A w \in Workers : JobOK(w)'
<1>1. IsInjective(queue') /\ Range(queue') = Range(queue) \cup {c}
  BY AppendRange DEF Schedule, TypeOK, TaskInv, Queued
<1>2. taskState'[c] = "Scheduled" /\ \A d \in Tasks : d # c => taskState'[d] = taskState[d]
  BY DEF Schedule, TypeOK
<1>3. \A w \in Workers : JobOK(w)'
  BY <1>2 DEF TaskInv, JobOK
<1> QED BY <1>1, <1>2, <1>3

\* Every step moves a task on, or leaves it alone.
LEMMA TaskNext == TypeOK /\ TaskInv /\ [Next]_vars => TaskInv'
<1> SUFFICES ASSUME TypeOK, TaskInv, [Next]_vars PROVE TaskInv'
  OBVIOUS
<1> USE TasksAssumption
<1>0. \A c \in Tasks : TaskOK(c)
  BY DEF TaskInv
<1>1. ASSUME NEW w \in Workers, StartProcess(w) PROVE TaskInv'
  <2>1. /\ UNCHANGED <<queue, taskVars, timers, cancelVars, alive>>
        /\ dying => dying'
    BY <1>1 DEF StartProcess, lifeVars
  <2>2. \A d \in Tasks : TaskOK(d)'
    BY <1>0, <2>1, TaskFrame DEF Same, taskVars, cancelVars
  <2>3. \A v \in Workers : JobOK(v)'
    BY <1>1, <2>1 DEF StartProcess, TaskInv, JobOK, TypeOK, procVars, taskVars
  <2> QED BY <2>1, <2>2, <2>3 DEF TaskInv
<1>2. ASSUME NEW w \in Workers, PopDying(w) PROVE TaskInv'
  <2>1. /\ UNCHANGED <<queue, taskVars, timers, cancelVars, alive>>
        /\ dying => dying'
    BY <1>2 DEF PopDying, lifeVars
  <2>2. \A d \in Tasks : TaskOK(d)'
    BY <1>0, <2>1, TaskFrame DEF Same, taskVars, cancelVars
  <2>3. \A v \in Workers : JobOK(v)'
    BY <1>2, <2>1 DEF PopDying, TaskInv, JobOK, TypeOK, procVars, taskVars
  <2> QED BY <2>1, <2>2, <2>3 DEF TaskInv
<1>3. ASSUME NEW w \in Workers, PopEmpty(w) PROVE TaskInv'
  <2>1. /\ UNCHANGED <<queue, taskVars, timers, cancelVars, alive>>
        /\ dying => dying'
    BY <1>3 DEF PopEmpty, lifeVars
  <2>2. \A d \in Tasks : TaskOK(d)'
    BY <1>0, <2>1, TaskFrame DEF Same, taskVars, cancelVars
  <2>3. \A v \in Workers : JobOK(v)'
    BY <1>3, <2>1 DEF PopEmpty, TaskInv, JobOK, TypeOK, procVars, taskVars
  <2> QED BY <2>1, <2>2, <2>3 DEF TaskInv
<1>4. ASSUME NEW w \in Workers, EscapeTask(w) PROVE TaskInv'
  <2>1. /\ UNCHANGED <<queue, taskVars, timers, cancelVars, alive>>
        /\ dying => dying'
    BY <1>4 DEF EscapeTask, lifeVars
  <2>2. \A d \in Tasks : TaskOK(d)'
    BY <1>0, <2>1, TaskFrame DEF Same, taskVars, cancelVars
  <2>3. \A v \in Workers : JobOK(v)'
    BY <1>4, <2>1 DEF EscapeTask, TaskInv, JobOK, TypeOK, procVars, taskVars
  <2> QED BY <2>1, <2>2, <2>3 DEF TaskInv
<1>5. ASSUME NEW w \in Workers, EndProcess(w) PROVE TaskInv'
  <2>1. /\ UNCHANGED <<queue, taskVars, timers, cancelVars, alive>>
        /\ dying => dying'
    BY <1>5 DEF EndProcess, lifeVars
  <2>2. \A d \in Tasks : TaskOK(d)'
    BY <1>0, <2>1, TaskFrame DEF Same, taskVars, cancelVars
  <2>3. \A v \in Workers : JobOK(v)'
    BY <1>5, <2>1 DEF EndProcess, TaskInv, JobOK, TypeOK, procVars, taskVars
  <2> QED BY <2>1, <2>2, <2>3 DEF TaskInv
<1>6. ASSUME NEW w \in Workers, stopProcess(w) PROVE TaskInv'
  <2>1. /\ UNCHANGED <<queue, taskVars, timers, cancelVars, alive>>
        /\ dying => dying'
    BY <1>6 DEF stopProcess, lifeVars
  <2>2. \A d \in Tasks : TaskOK(d)'
    BY <1>0, <2>1, TaskFrame DEF Same, taskVars, cancelVars
  <2>3. \A v \in Workers : JobOK(v)'
    BY <1>6, <2>1 DEF stopProcess, TaskInv, JobOK, TypeOK, procVars, taskVars
  <2> QED BY <2>1, <2>2, <2>3 DEF TaskInv
<1>7. ASSUME NEW w \in Workers, Repost(w) PROVE TaskInv'
  <2>1. /\ UNCHANGED <<queue, taskVars, timers, cancelVars, alive>>
        /\ dying => dying'
    BY <1>7 DEF Repost, lifeVars
  <2>2. \A d \in Tasks : TaskOK(d)'
    BY <1>0, <2>1, TaskFrame DEF Same, taskVars, cancelVars
  <2>3. \A v \in Workers : JobOK(v)'
    BY <1>7, <2>1 DEF Repost, TaskInv, JobOK, TypeOK, procVars, taskVars
  <2> QED BY <2>1, <2>2, <2>3 DEF TaskInv
<1>8. ASSUME NEW w \in Workers, JoinInTask(w) PROVE TaskInv'
  <2>1. /\ UNCHANGED <<queue, taskVars, timers, cancelVars, alive>>
        /\ dying => dying'
    BY <1>8 DEF JoinInTask, lifeVars
  <2>2. \A d \in Tasks : TaskOK(d)'
    BY <1>0, <2>1, TaskFrame DEF Same, taskVars, cancelVars
  <2>3. \A v \in Workers : JobOK(v)'
    BY <1>8, <2>1 DEF JoinInTask, TaskInv, JobOK, TypeOK, procVars, taskVars
  <2> QED BY <2>1, <2>2, <2>3 DEF TaskInv
<1>9. ASSUME NEW w \in Workers, PopTask(w) PROVE TaskInv'
  <2>1. /\ queue # <<>> /\ queue' = Tail(queue) /\ ~dying
        /\ UNCHANGED <<result, timers, cancels, cancelTaken, alive, dying>>
    BY <1>9 DEF PopTask, cancelVars, lifeVars
  <2>2. PICK c \in Tasks : c = Head(queue)
    BY <2>1, TailRange DEF TypeOK
  <2>3. /\ Range(queue) = {c} \cup Range(queue') /\ c \notin Range(queue')
        /\ IsInjective(queue')
    BY <2>1, <2>2, TailRange DEF TypeOK, TaskInv
  <2>4. /\ Queued(c) /\ runs[c] = 0 /\ result[c] = "pending" /\ c \notin timers
        /\ taskState[c] = "Scheduled" \/ (taskState[c] = "Canceled" /\ c \in NeverSkip)
    BY <1>0, <2>1, <2>3 DEF TaskOK, Queued
  <2>5. /\ taskState' = [taskState EXCEPT ![c] = "Running"]
        /\ runs' = [runs EXCEPT ![c] = @ + 1]
        /\ job' = [job EXCEPT ![w] = c]
        /\ pc' = [pc EXCEPT ![w] = "run"]
    BY <1>9, <2>2, <2>4 DEF PopTask
  <2>6. taskState'[c] = "Running" /\ runs'[c] = 1
    BY <2>4, <2>5 DEF TypeOK
  <2>7. \A d \in Tasks : d # c => Same(d)
    BY <2>1, <2>3, <2>5 DEF Same, TypeOK
  <2>8. \A d \in Tasks : TaskOK(d)'
    <3> SUFFICES ASSUME NEW d \in Tasks PROVE TaskOK(d)'
      OBVIOUS
    <3>1. CASE d = c
      BY <3>1, <2>1, <2>3, <2>4, <2>6, <1>0 DEF TaskOK, Queued
    <3>2. CASE d # c
      BY <3>2, <1>0, <2>1, <2>7, TaskFrame
    <3> QED BY <3>1, <3>2
  <2>9. \A v \in Workers : JobOK(v)'
    BY <2>4, <2>5, <2>6, <2>7 DEF TaskInv, JobOK, TypeOK, Same
  <2> QED BY <2>3, <2>8, <2>9 DEF TaskInv
<1>10. ASSUME NEW w \in Workers, FinishTask(w) PROVE TaskInv'
  <2>1. PICK c \in Tasks : c = job[w] /\ taskState[c] = "Running" /\ result[c] = "pending"
    BY <1>10 DEF FinishTask, TaskInv, JobOK
  <2>2. /\ UNCHANGED <<queue, taskState, runs, timers, cancels, cancelTaken, alive, dying>>
        /\ result' = [result EXCEPT ![c] = "done"]
    BY <1>10, <2>1 DEF FinishTask, cancelVars, lifeVars
  <2>3. result'[c] = "done" /\ \A d \in Tasks : d # c => Same(d)
    BY <2>2 DEF Same, TypeOK
  <2>4. \A d \in Tasks : TaskOK(d)'
    <3> SUFFICES ASSUME NEW d \in Tasks PROVE TaskOK(d)'
      OBVIOUS
    <3>1. CASE d = c
      BY <3>1, <2>1, <2>2, <2>3, <1>0 DEF TaskOK, Queued
    <3>2. CASE d # c
      BY <3>2, <1>0, <2>2, <2>3, TaskFrame
    <3> QED BY <3>1, <3>2
  <2>5. \A v \in Workers : JobOK(v)'
    BY <1>10, <2>2 DEF FinishTask, TaskInv, JobOK, TypeOK
  <2> QED BY <2>2, <2>4, <2>5 DEF TaskInv
<1>11. ASSUME NEW w \in Workers, NEW c \in Tasks, ExecNow(w, c) PROVE TaskInv'
  <2>1. /\ UNCHANGED <<queue, taskState, timers, cancels, cancelTaken, alive, dying, pc, job>>
        /\ result[c] = "none" /\ result'[c] = "done" /\ runs'[c] = runs[c] + 1
        /\ \A d \in Tasks : d # c => Same(d)
    BY <1>11 DEF ExecNow, TypeOK, cancelVars, lifeVars, procVars, Same
  <2>2. TaskOK(c)'
    BY <2>1, <1>0 DEF TaskOK, Queued
  <2>3. \A d \in Tasks : TaskOK(d)'
    BY <2>1, <2>2, <1>0, TaskFrame
  <2>4. \A v \in Workers : JobOK(v)'
    BY <2>1 DEF TaskInv, JobOK
  <2> QED BY <2>1, <2>3, <2>4 DEF TaskInv
<1>12. ASSUME NEW c \in Tasks, Defer(c) PROVE TaskInv'
  <2>1. /\ UNCHANGED <<runs, timers, cancels, cancelTaken, alive, dying, pc, job>>
        /\ result[c] = "none"
    BY <1>12 DEF Defer, cancelVars, lifeVars, procVars
  <2>2. taskState[c] = "New" /\ runs[c] = 0 /\ ~Queued(c) /\ c \notin timers
    BY <2>1, <1>0 DEF TaskOK
  <2>3. CASE Schedule(c) /\ result' = [result EXCEPT ![c] = "pending"]
    <3>1. /\ IsInjective(queue') /\ Range(queue') = Range(queue) \cup {c}
          /\ taskState'[c] = "Scheduled"
          /\ \A d \in Tasks : d # c => taskState'[d] = taskState[d]
          /\ \A v \in Workers : JobOK(v)'
      BY <2>1, <2>2, <2>3, ScheduleTask
    <3>2. result'[c] = "pending" /\ \A d \in Tasks : d # c => Same(d)
      BY <2>1, <2>3, <3>1 DEF Same, TypeOK
    <3>3. TaskOK(c)'
      BY <2>1, <2>2, <3>1, <3>2, <1>0 DEF TaskOK, Queued
    <3>4. \A d \in Tasks : TaskOK(d)'
      BY <2>1, <3>2, <3>3, <1>0, TaskFrame
    <3> QED BY <3>1, <3>4 DEF TaskInv
  <2>4. CASE ~(Schedule(c) /\ result' = [result EXCEPT ![c] = "pending"])
    <3>1. /\ queue' = queue /\ taskState' = [taskState EXCEPT ![c] = "New"]
          /\ result' = [result EXCEPT ![c] = "error"]
          /\ dying \/ taskState' = taskState
      BY <1>12, <2>2, <2>4 DEF Defer, TypeOK
    <3>2. /\ result'[c] = "error" /\ taskState'[c] = "New"
          /\ \A d \in Tasks : d # c => Same(d)
      BY <2>1, <3>1 DEF Same, TypeOK
    <3>3. TaskOK(c)'
      BY <2>1, <2>2, <3>1, <3>2, <1>0 DEF TaskOK, Queued
    <3>4. \A d \in Tasks : TaskOK(d)'
      BY <2>1, <3>2, <3>3, <1>0, TaskFrame
    <3>5. \A v \in Workers : JobOK(v)'
      BY <2>1, <2>2, <3>2 DEF TaskInv, JobOK, Same
    <3> QED BY <3>1, <3>4, <3>5 DEF TaskInv
  <2> QED BY <2>3, <2>4
<1>13. ASSUME NEW c \in Tasks, Post(c) PROVE TaskInv'
  <2>1. /\ UNCHANGED <<queue, runs, timers, cancels, cancelTaken, alive, dying, pc, job>>
        /\ result[c] = "none"
    BY <1>13 DEF Post, cancelVars, lifeVars, procVars
  <2>2. taskState[c] = "New" /\ runs[c] = 0 /\ ~Queued(c) /\ c \notin timers
    BY <2>1, <1>0 DEF TaskOK
  <2>3. /\ result'[c] = "pending" /\ taskState'[c] = "None"
        /\ \A d \in Tasks : d # c => Same(d)
    BY <1>13, <2>1 DEF Post, Same, TypeOK
  <2>4. TaskOK(c)'
    BY <2>1, <2>2, <2>3, <1>0 DEF TaskOK, Queued
  <2>5. \A d \in Tasks : TaskOK(d)'
    BY <2>1, <2>3, <2>4, <1>0, TaskFrame
  <2>6. \A v \in Workers : JobOK(v)'
    BY <2>1, <2>2, <2>3 DEF TaskInv, JobOK, Same
  <2> QED BY <2>1, <2>5, <2>6 DEF TaskInv
<1>14. ASSUME NEW c \in Tasks, DeferDelayed(c) PROVE TaskInv'
  <2>1. /\ UNCHANGED <<queue, runs, cancels, cancelTaken, alive, dying, pc, job>>
        /\ result[c] = "none"
    BY <1>14 DEF DeferDelayed, cancelVars, lifeVars, procVars
  <2>2. taskState[c] = "New" /\ runs[c] = 0 /\ ~Queued(c) /\ c \notin timers
    BY <2>1, <1>0 DEF TaskOK
  <2>3. /\ \/ result'[c] = "error" /\ taskState'[c] = "New" /\ c \notin timers'
           \/ result'[c] = "pending" /\ taskState'[c] = "None" /\ c \in timers'
        /\ \A d \in Tasks : d # c => Same(d)
    BY <1>14, <2>1, <2>2 DEF DeferDelayed, Same, TypeOK
  <2>4. TaskOK(c)'
    BY <2>1, <2>2, <2>3, <1>0 DEF TaskOK, Queued
  <2>5. \A d \in Tasks : TaskOK(d)'
    BY <2>1, <2>3, <2>4, <1>0, TaskFrame
  <2>6. \A v \in Workers : JobOK(v)'
    BY <2>1, <2>2, <2>3 DEF TaskInv, JobOK, Same
  <2> QED BY <2>1, <2>5, <2>6 DEF TaskInv
<1>15. ASSUME NEW c \in Tasks, TimerFires(c) PROVE TaskInv'
  <2>1. /\ UNCHANGED <<runs, cancels, cancelTaken, alive, dying, pc, job>>
        /\ c \in timers /\ timers' = timers \ {c}
    BY <1>15 DEF TimerFires, cancelVars, lifeVars, procVars
  <2>2. /\ taskState[c] \in {"None", "Canceled"} /\ runs[c] = 0 /\ ~Queued(c)
        /\ taskState[c] = "Canceled" => c \notin cancels
    BY <2>1, <1>0 DEF TaskOK
  <2>3. CASE alive /\ ~dying /\ (taskState[c] = "None" \/ c \in NeverSkip)
    <3>1. Schedule(c) /\ result' = result
      BY <1>15, <2>3 DEF TimerFires
    <3>2. /\ IsInjective(queue') /\ Range(queue') = Range(queue) \cup {c}
          /\ taskState'[c] = "Scheduled"
          /\ \A d \in Tasks : d # c => taskState'[d] = taskState[d]
          /\ \A v \in Workers : JobOK(v)'
      BY <2>1, <2>2, <3>1, ScheduleTask
    <3>3. \A d \in Tasks : d # c => Same(d)
      BY <2>1, <3>1, <3>2 DEF Same
    <3>4. result[c] = "pending"
      BY <2>1, <2>3, <1>0 DEF TaskOK
    <3>5. TaskOK(c)'
      BY <2>1, <2>2, <3>1, <3>2, <3>4, <1>0 DEF TaskOK, Queued
    <3>6. \A d \in Tasks : TaskOK(d)'
      BY <2>1, <3>3, <3>5, <1>0, TaskFrame
    <3> QED BY <3>2, <3>6 DEF TaskInv
  <2>4. CASE ~(alive /\ ~dying /\ (taskState[c] = "None" \/ c \in NeverSkip))
    <3>1. /\ queue' = queue /\ taskState' = taskState
          /\ result' = IF alive /\ dying THEN SetIfPending(c, "error") ELSE result
      BY <1>15, <2>4 DEF TimerFires
    <3>2. /\ result'[c] = result[c] \/ (dying /\ result'[c] = "error" /\ result[c] = "pending")
          /\ \A d \in Tasks : d # c => result'[d] = result[d]
      BY <3>1 DEF SetIfPending, TypeOK
    <3>3. \A d \in Tasks : d # c => Same(d)
      BY <2>1, <3>1, <3>2 DEF Same
    <3>4. TaskOK(c)'
      BY <2>1, <2>2, <3>1, <3>2, <1>0 DEF TaskOK, Queued
    <3>5. \A d \in Tasks : TaskOK(d)'
      BY <2>1, <3>3, <3>4, <1>0, TaskFrame
    <3>6. \A v \in Workers : JobOK(v)'
      BY <2>1, <3>1 DEF TaskInv, JobOK
    <3> QED BY <3>1, <3>5, <3>6 DEF TaskInv
  <2> QED BY <2>3, <2>4
<1>16. ASSUME NEW c \in Tasks, TimerCanceled(c) PROVE TaskInv'
  <2>1. /\ UNCHANGED <<queue, taskVars, cancels, cancelTaken, alive, dying, pc, job>>
        /\ timers' = timers \ {c}
    BY <1>16 DEF TimerCanceled, cancelVars, lifeVars, procVars
  <2>2. TaskOK(c)' /\ \A d \in Tasks : d # c => Same(d)
    BY <2>1, <1>0 DEF TaskOK, Queued, Same, taskVars
  <2>3. \A d \in Tasks : TaskOK(d)'
    BY <2>1, <2>2, <1>0, TaskFrame
  <2> QED BY <2>1, <2>3 DEF TaskInv, JobOK, taskVars
<1>17. ASSUME NEW c \in Tasks, FutureCancel(c) PROVE TaskInv'
  <2>1. /\ UNCHANGED <<queue, taskVars, timers, alive, dying, pc, job>>
        /\ c \notin cancelTaken /\ result[c] = "pending"
        /\ cancels' = cancels \cup {c} /\ cancelTaken' = cancelTaken \cup {c}
    BY <1>17 DEF FutureCancel, lifeVars, procVars
  <2>2. TaskOK(c)' /\ \A d \in Tasks : d # c => Same(d)
    BY <2>1, <1>0 DEF TaskOK, Queued, Same, taskVars
  <2>3. \A d \in Tasks : TaskOK(d)'
    BY <2>1, <2>2, <1>0, TaskFrame
  <2> QED BY <2>1, <2>3 DEF TaskInv, JobOK, taskVars
<1>18. ASSUME NEW c \in Tasks, cancel(c) PROVE TaskInv'
  <2>1. /\ UNCHANGED <<runs, timers, cancelTaken, alive, dying, pc, job>>
        /\ c \in cancels /\ cancels' = cancels \ {c}
    BY <1>18 DEF cancel, lifeVars, procVars
  <2>2. c \in cancelTaken /\ taskState[c] # "Canceled"
    BY <2>1, <1>0 DEF TaskOK
  <2>3. /\ SetIfPending(c, "error")[c] = IF result[c] = "pending" THEN "error" ELSE result[c]
        /\ SetIfPending(c, "canceled")[c] = IF result[c] = "pending" THEN "canceled" ELSE result[c]
        /\ \A d \in Tasks : d # c => /\ SetIfPending(c, "error")[d] = result[d]
                                    /\ SetIfPending(c, "canceled")[d] = result[d]
    BY DEF SetIfPending, TypeOK
  <2>4. CASE UNCHANGED <<queue, taskState, result>>
    <3>1. TaskOK(c)' /\ \A d \in Tasks : d # c => Same(d)
      BY <2>1, <2>2, <2>4, <1>0 DEF TaskOK, Queued, Same
    <3>2. \A d \in Tasks : TaskOK(d)'
      BY <2>1, <3>1, <1>0, TaskFrame
    <3> QED BY <2>1, <2>4, <3>2 DEF TaskInv, JobOK
  <2>5. CASE dying /\ CancelDying(c)
    <3>1. UNCHANGED <<queue, taskState>> /\ result' = SetIfPending(c, "error")
      BY <2>5 DEF CancelDying
    <3>2. TaskOK(c)' /\ \A d \in Tasks : d # c => Same(d)
      BY <2>1, <2>2, <2>3, <2>5, <3>1, <1>0 DEF TaskOK, Queued, Same
    <3>3. \A d \in Tasks : TaskOK(d)'
      BY <2>1, <3>2, <1>0, TaskFrame
    <3> QED BY <2>1, <3>1, <3>3 DEF TaskInv, JobOK
  <2>6. CASE ~dying /\ CancelNone(c)
    <3>1. /\ queue' = queue /\ taskState[c] = "None" /\ taskState'[c] = "Canceled"
          /\ \A d \in Tasks : d # c => taskState'[d] = taskState[d]
          /\ IF c \in NeverSkip THEN result' = result ELSE result' = SetIfPending(c, "canceled")
      BY <2>6 DEF CancelNone, TypeOK
    <3>2. result[c] = "pending"
      BY <2>1, <2>6, <3>1, <1>0 DEF TaskOK
    <3>3. TaskOK(c)'
      BY <2>1, <2>2, <2>3, <2>6, <3>1, <3>2, <1>0 DEF TaskOK, Queued
    <3>4. \A d \in Tasks : d # c => Same(d)
      BY <2>1, <2>3, <3>1 DEF Same
    <3>5. \A d \in Tasks : TaskOK(d)'
      BY <2>1, <3>3, <3>4, <1>0, TaskFrame
    <3> QED BY <2>1, <3>1, <3>5 DEF TaskInv, JobOK
  <2>7. CASE ~dying /\ CancelScheduled(c) /\ c \in NeverSkip
    <3>1. /\ queue' = queue /\ taskState[c] = "Scheduled" /\ taskState'[c] = "Canceled"
          /\ \A d \in Tasks : d # c => taskState'[d] = taskState[d]
          /\ result' = result
      BY <2>7 DEF CancelScheduled, TypeOK
    <3>2. result[c] = "pending"
      BY <2>1, <2>7, <3>1, <1>0 DEF TaskOK
    <3>3. TaskOK(c)' /\ \A d \in Tasks : d # c => Same(d)
      BY <2>1, <2>2, <2>7, <3>1, <3>2, <1>0 DEF TaskOK, Queued, Same
    <3>4. \A d \in Tasks : TaskOK(d)'
      BY <2>1, <3>3, <1>0, TaskFrame
    <3> QED BY <2>1, <3>1, <3>4 DEF TaskInv, JobOK
  <2>8. CASE ~dying /\ CancelScheduled(c) /\ c \notin NeverSkip
    <3>1. /\ queue' = Erase(queue, c) /\ taskState[c] = "Scheduled"
          /\ taskState' = taskState /\ result' = SetIfPending(c, "canceled")
      BY <2>8 DEF CancelScheduled
    <3>2. /\ IsInjective(queue') /\ c \notin Range(queue')
          /\ \A d \in Tasks : d # c => (d \in Range(queue') <=> d \in Range(queue))
      BY <3>1, EraseRange DEF TaskInv, TypeOK
    <3>3. result[c] = "pending"
      BY <2>1, <2>8, <3>1, <1>0 DEF TaskOK
    <3>4. TaskOK(c)' /\ \A d \in Tasks : d # c => Same(d)
      BY <2>1, <2>2, <2>3, <3>1, <3>2, <3>3, <1>0 DEF TaskOK, Queued, Same
    <3>5. \A d \in Tasks : TaskOK(d)'
      BY <2>1, <3>4, <1>0, TaskFrame
    <3> QED BY <2>1, <3>1, <3>2, <3>5 DEF TaskInv, JobOK
  <2> QED BY <1>18, <2>4, <2>5, <2>6, <2>7, <2>8 DEF cancel, CancelTooLate
<1>19. ASSUME Join PROVE TaskInv'
  <2>1. /\ UNCHANGED <<taskState, runs, timers, cancels, cancelTaken, alive, pc, job>>
        /\ dying' /\ DropTasks(group \cup Range(queue))
    BY <1>19 DEF Join, cancelVars, procVars
  <2>2. /\ queue' = <<>> /\ Range(queue') = {} /\ IsInjective(queue')
        /\ \A d \in Tasks : /\ Queued(d) => result'[d] # "pending"
                            /\ result'[d] = result[d] \/ (result[d] = "pending" /\ result'[d] = "error")
    BY <2>1, EmptyRange DEF DropTasks, Queued
  <2>3. \A d \in Tasks : TaskOK(d)'
    BY <2>1, <2>2, <1>0 DEF TaskOK, Queued
  <2> QED BY <2>1, <2>2, <2>3 DEF TaskInv, JobOK
<1>20. ASSUME JoinReturn PROVE TaskInv'
  <2>1. UNCHANGED <<queue, taskVars, timers, cancelVars, alive, dying, pc, job>>
    BY <1>20 DEF JoinReturn, procVars
  <2>2. \A d \in Tasks : TaskOK(d)'
    BY <1>0, <2>1, TaskFrame DEF Same, taskVars, cancelVars
  <2> QED BY <2>1, <2>2 DEF TaskInv, JobOK, taskVars
<1>21. ASSUME Destroy PROVE TaskInv'
  <2>1. /\ UNCHANGED <<taskState, runs, timers, cancels, cancelTaken, pc, job>>
        /\ ~alive' /\ (dying => dying')
    BY <1>21 DEF Destroy, cancelVars, procVars
  <2>2. CASE UNCHANGED <<queue, result, dying>>
    <3>1. \A d \in Tasks : TaskOK(d)'
      BY <2>1, <2>2, <1>0 DEF TaskOK, Queued
    <3> QED BY <2>1, <2>2, <3>1 DEF TaskInv, JobOK
  <2>3. CASE dying' /\ \E S : DropTasks(S)
    <3>1. /\ queue' = <<>> /\ Range(queue') = {} /\ IsInjective(queue')
          /\ \A d \in Tasks :
                result'[d] = result[d] \/ (result[d] = "pending" /\ result'[d] = "error")
      BY <2>3, EmptyRange DEF DropTasks
    <3>2. \A d \in Tasks : TaskOK(d)'
      BY <2>1, <2>3, <3>1, <1>0 DEF TaskOK, Queued
    <3> QED BY <2>1, <3>1, <3>2 DEF TaskInv, JobOK
  <2> QED BY <1>21, <2>2, <2>3 DEF Destroy
<1>22. ASSUME UNCHANGED vars PROVE TaskInv'
  <2>1. UNCHANGED <<queue, taskVars, timers, cancelVars, alive, dying, pc, job>>
    BY <1>22 DEF vars, procVars, lifeVars
  <2>2. \A d \in Tasks : TaskOK(d)'
    BY <1>0, <2>1, TaskFrame DEF Same, taskVars, cancelVars
  <2> QED BY <2>1, <2>2 DEF TaskInv, JobOK, taskVars
<1>23. ASSUME NEW c \in Tasks, Enqueue(c) PROVE TaskInv'
  <2>1. /\ UNCHANGED <<runs, timers, cancels, cancelTaken, alive, dying, pc, job>>
        /\ result[c] = "pending" /\ taskState[c] = "None" /\ c \in Posted
    BY <1>23 DEF Enqueue, Created, cancelVars, lifeVars, procVars
  <2>2. runs[c] = 0 /\ ~Queued(c) /\ c \notin timers
    BY <2>1, <1>0 DEF TaskOK, TypeOK
  <2>3. CASE Schedule(c) /\ result' = result
    <3>1. /\ IsInjective(queue') /\ Range(queue') = Range(queue) \cup {c}
          /\ taskState'[c] = "Scheduled"
          /\ \A d \in Tasks : d # c => taskState'[d] = taskState[d]
          /\ \A v \in Workers : JobOK(v)'
      BY <2>1, <2>2, <2>3, ScheduleTask
    <3>2. result'[c] = "pending" /\ \A d \in Tasks : d # c => Same(d)
      BY <2>1, <2>3, <3>1 DEF Same, TypeOK
    <3>3. TaskOK(c)'
      BY <2>1, <2>2, <3>1, <3>2, <1>0 DEF TaskOK, Queued
    <3>4. \A d \in Tasks : TaskOK(d)'
      BY <2>1, <3>2, <3>3, <1>0, TaskFrame
    <3> QED BY <3>1, <3>4 DEF TaskInv
  <2>4. CASE dying
    <3>1. /\ UNCHANGED <<queue, taskState>>
          /\ result'[c] = "error" /\ \A d \in Tasks : d # c => Same(d)
      BY <1>23, <2>1, <2>4 DEF Enqueue, Same, TypeOK
    <3>2. TaskOK(c)'
      BY <2>1, <2>2, <2>4, <3>1, <1>0 DEF TaskOK, Queued
    <3>3. \A d \in Tasks : TaskOK(d)'
      BY <2>1, <3>1, <3>2, <1>0, TaskFrame
    <3> QED BY <2>1, <3>1, <3>3 DEF TaskInv, JobOK
  <2> QED BY <1>23, <2>3, <2>4 DEF Enqueue
<1> QED BY <1>1, <1>2, <1>3, <1>4, <1>5, <1>6, <1>7, <1>8, <1>9, <1>10, <1>11, <1>12,
         <1>13, <1>14, <1>15, <1>16, <1>17, <1>18, <1>19, <1>20, <1>21, <1>22, <1>23
         DEF Next, Process, Submit

-----------------------------------------------------------------------------
(***************************************************************************)
(* The count of the tasks that wait for their execution.                   *)
(***************************************************************************)
Waits(c) == result[c] = "pending" /\ taskState[c] \in {"None", "Scheduled", "Canceled"}
Waiting == {c \in Tasks : Waits(c)}
Counted == ~dying => aliveCount = Cardinality(Waiting)

\* The property in terms of the set of the waiting tasks.
LEMMA CountedIsExact == Counted <=> AliveCountExact
BY DEF Counted, AliveCountExact, Waiting, Waits

\* A step that leaves the waiting tasks alone.
LEMMA CountSame ==
    ASSUME Counted, dying => dying', aliveCount' = aliveCount,
           \A d \in Tasks : Waits(d)' <=> Waits(d)
    PROVE  Counted'
<1>1. Waiting' = Waiting
  BY DEF Waiting
<1> QED BY <1>1 DEF Counted

\* A step after which one more task waits.
LEMMA CountMore ==
    ASSUME Counted, dying => dying', aliveCount' = aliveCount + 1,
           NEW c \in Tasks, ~Waits(c), Waits(c)',
           \A d \in Tasks \ {c} : Waits(d)' <=> Waits(d)
    PROVE  Counted'
<1>1. Waiting' = Waiting \cup {c} /\ c \notin Waiting /\ IsFiniteSet(Waiting)
  BY FS_Subset, TasksAssumption DEF Waiting
<1>2. Cardinality(Waiting') = Cardinality(Waiting) + 1
  BY <1>1, FS_AddElement
<1> QED BY <1>2 DEF Counted

\* A step after which one task waits no more.
LEMMA CountLess ==
    ASSUME Counted, dying => dying', aliveCount' = aliveCount - 1,
           NEW c \in Tasks, Waits(c), ~Waits(c)',
           \A d \in Tasks \ {c} : Waits(d)' <=> Waits(d)
    PROVE  Counted'
<1>1. Waiting' = Waiting \ {c} /\ c \in Waiting /\ IsFiniteSet(Waiting)
  BY FS_Subset, TasksAssumption DEF Waiting
<1>2. Cardinality(Waiting') = Cardinality(Waiting) - 1
  BY <1>1, FS_RemoveElement
<1> QED BY <1>2 DEF Counted

\* Every step counts the tasks it accepts, starts or cancels.
LEMMA CountNext == TypeOK /\ TaskInv /\ Counted /\ [Next]_vars => Counted'
<1> SUFFICES ASSUME TypeOK, TaskInv, Counted, [Next]_vars PROVE Counted'
  OBVIOUS
<1> USE TasksAssumption
<1>0. \A c \in Tasks : TaskOK(c)
  BY DEF TaskInv
<1>1. ASSUME NEW w \in Workers,
             \/ StartProcess(w) \/ PopDying(w) \/ PopEmpty(w) \/ EscapeTask(w)
             \/ EndProcess(w) \/ stopProcess(w) \/ Repost(w) \/ JoinInTask(w)
      PROVE  Counted'
  <2>1. UNCHANGED <<taskState, result, aliveCount>> /\ (dying => dying')
    BY <1>1 DEF StartProcess, PopDying, PopEmpty, EscapeTask, EndProcess, stopProcess,
                Repost, JoinInTask, taskVars, lifeVars
  <2> QED BY <2>1, CountSame DEF Waits
<1>2. ASSUME NEW w \in Workers, PopTask(w) PROVE Counted'
  <2>0. PICK c \in Tasks : c = Head(queue)
    BY <1>2 DEF PopTask, TypeOK
  <2>1. Queued(c) /\ ~dying
    BY <1>2, <2>0, TailRange DEF PopTask, TypeOK, Queued, TaskInv
  <2>2. Waits(c)
    BY <2>1, <1>0 DEF TaskOK, Waits
  <2>3. /\ result' = result /\ dying' = dying
        /\ taskState' = [taskState EXCEPT ![c] = "Running"]
        /\ aliveCount' = aliveCount - 1
    BY <1>2, <2>0, <2>1, <1>0 DEF PopTask, TaskOK, lifeVars
  <2>4. ~Waits(c)' /\ \A d \in Tasks \ {c} : Waits(d)' <=> Waits(d)
    BY <2>1, <2>3 DEF Waits, TypeOK
  <2> QED BY <2>1, <2>2, <2>3, <2>4, CountLess
<1>3. ASSUME NEW w \in Workers, FinishTask(w) PROVE Counted'
  <2>1. taskState[job[w]] = "Running" /\ job[w] \in Tasks
    BY <1>3 DEF FinishTask, TaskInv, JobOK
  <2>2. UNCHANGED <<taskState, aliveCount>> /\ (dying => dying')
    BY <1>3 DEF FinishTask, lifeVars
  <2>3. \A d \in Tasks \ {job[w]} : result'[d] = result[d]
    BY <1>3, <2>1 DEF FinishTask, TypeOK
  <2>4. \A d \in Tasks : Waits(d)' <=> Waits(d)
    BY <2>1, <2>2, <2>3 DEF Waits
  <2> QED BY <2>2, <2>4, CountSame
<1>4. ASSUME NEW w \in Workers, NEW c \in Tasks, ExecNow(w, c) PROVE Counted'
  <2>1. /\ UNCHANGED <<taskState, aliveCount>> /\ (dying => dying')
        /\ result[c] = "none" /\ taskState[c] = "New"
    BY <1>4, <1>0 DEF ExecNow, TaskOK, lifeVars
  <2>2. \A d \in Tasks \ {c} : result'[d] = result[d]
    BY <1>4 DEF ExecNow, TypeOK
  <2>3. \A d \in Tasks : Waits(d)' <=> Waits(d)
    BY <2>1, <2>2 DEF Waits
  <2> QED BY <2>1, <2>3, CountSame
<1>5. ASSUME NEW c \in Tasks, Submit(c) PROVE Counted'
  <2>1. ~Waits(c) /\ dying' = dying
    BY <1>5 DEF Submit, Defer, DeferDelayed, Post, Waits, lifeVars
  <2>2. \A d \in Tasks \ {c} : Waits(d)' <=> Waits(d)
    BY <1>5 DEF Submit, Defer, DeferDelayed, Post, Schedule, Waits, TypeOK
  <2>3. \/ Waits(c)' /\ aliveCount' = aliveCount + 1
        \/ ~Waits(c)' /\ aliveCount' = aliveCount
        \/ dying
    BY <1>5 DEF Submit, Defer, DeferDelayed, Post, Schedule, Waits, TypeOK
  <2>4. CASE Waits(c)' /\ aliveCount' = aliveCount + 1
    BY <2>1, <2>2, <2>4, CountMore
  <2>5. CASE ~Waits(c)' /\ aliveCount' = aliveCount
    BY <2>1, <2>2, <2>5, CountSame
  <2>6. CASE dying
    BY <2>1, <2>6 DEF Counted
  <2> QED BY <2>3, <2>4, <2>5, <2>6
<1>6. ASSUME NEW c \in Tasks, TimerFires(c) PROVE Counted'
  <2>1. taskState[c] \in {"None", "Canceled"} /\ aliveCount' = aliveCount /\ dying' = dying
    BY <1>6, <1>0 DEF TimerFires, TaskOK, lifeVars
  <2>2. CASE dying
    BY <2>1, <2>2 DEF Counted
  <2>3. CASE ~dying
    <3>1. result' = result /\ (taskState' = taskState \/ Schedule(c))
      BY <1>6, <2>3 DEF TimerFires
    <3>2. \A d \in Tasks : Waits(d)' <=> Waits(d)
      BY <2>1, <3>1 DEF Schedule, Waits, TypeOK
    <3> QED BY <2>1, <3>2, CountSame
  <2> QED BY <2>2, <2>3
<1>7. ASSUME NEW c \in Tasks, TimerCanceled(c) \/ FutureCancel(c) PROVE Counted'
  <2>1. UNCHANGED <<taskState, result, aliveCount>> /\ (dying => dying')
    BY <1>7 DEF TimerCanceled, FutureCancel, taskVars, lifeVars
  <2> QED BY <2>1, CountSame DEF Waits
<1>8. ASSUME NEW c \in Tasks, cancel(c) PROVE Counted'
  <2>1. c \in cancels /\ dying' = dying
    BY <1>8 DEF cancel, lifeVars
  <2>2. CASE dying
    BY <2>1, <2>2 DEF Counted
  <2>3. CASE UNCHANGED <<taskState, result, aliveCount>>
    BY <2>1, <2>3, CountSame DEF Waits
  <2>4. CASE ~dying /\ (CancelNone(c) \/ CancelScheduled(c))
    <3>1. Waits(c)
      BY <2>1, <2>4, <1>0 DEF CancelNone, CancelScheduled, TaskOK, Waits
    <3>2. \A d \in Tasks \ {c} : Waits(d)' <=> Waits(d)
      BY <2>4 DEF CancelNone, CancelScheduled, SetIfPending, Waits, TypeOK
    <3>3. CASE c \in NeverSkip
      <4>1. Waits(c)' /\ aliveCount' = aliveCount
        BY <2>4, <3>1, <3>3 DEF CancelNone, CancelScheduled, Waits, TypeOK
      <4>2. \A d \in Tasks : Waits(d)' <=> Waits(d)
        BY <3>1, <3>2, <4>1
      <4> QED BY <2>1, <4>1, <4>2, CountSame
    <3>4. CASE c \notin NeverSkip
      <4>1. ~Waits(c)' /\ aliveCount' = aliveCount - 1
        BY <2>4, <3>1, <3>4 DEF CancelNone, CancelScheduled, SetIfPending, Waits, TypeOK
      <4> QED BY <2>1, <3>1, <3>2, <4>1, CountLess
    <3> QED BY <3>3, <3>4
  <2> QED BY <1>8, <2>2, <2>3, <2>4 DEF cancel, CancelTooLate
<1>9. ASSUME Join PROVE Counted'
  BY <1>9 DEF Join, Counted
<1>10. ASSUME JoinReturn PROVE Counted'
  <2>1. UNCHANGED <<taskState, result, aliveCount, dying>>
    BY <1>10 DEF JoinReturn, taskVars
  <2> QED BY <2>1, CountSame DEF Waits
<1>11. ASSUME Destroy PROVE Counted'
  <2>1. CASE dying'
    BY <2>1 DEF Counted
  <2>2. CASE UNCHANGED <<taskState, result, aliveCount, dying>>
    BY <2>2, CountSame DEF Waits
  <2> QED BY <1>11, <2>1, <2>2 DEF Destroy
<1>12. ASSUME UNCHANGED vars PROVE Counted'
  <2>1. UNCHANGED <<taskState, result, aliveCount, dying>>
    BY <1>12 DEF vars, taskVars, lifeVars
  <2> QED BY <2>1, CountSame DEF Waits
<1>13. ASSUME NEW c \in Tasks, Enqueue(c) PROVE Counted'
  <2>1. /\ taskState[c] = "None" /\ result[c] = "pending"
        /\ aliveCount' = aliveCount /\ dying' = dying
    BY <1>13 DEF Enqueue, Created, lifeVars
  <2>2. CASE dying
    BY <2>1, <2>2 DEF Counted
  <2>3. CASE ~dying
    <3>1. result' = result /\ Schedule(c)
      BY <1>13, <2>3 DEF Enqueue
    <3>2. \A d \in Tasks : Waits(d)' <=> Waits(d)
      BY <2>1, <3>1 DEF Schedule, Waits, TypeOK
    <3> QED BY <2>1, <3>2, CountSame
  <2> QED BY <2>2, <2>3
<1> QED BY <1>1, <1>2, <1>3, <1>4, <1>5, <1>6, <1>7, <1>8, <1>9, <1>10, <1>11, <1>12,
         <1>13 DEF Next, Process

-----------------------------------------------------------------------------
(***************************************************************************)
(* The theorems.                                                           *)
(***************************************************************************)
StrandInv == TypeOK /\ ProcInv /\ TaskInv /\ Counted

\* The inductive invariant of a strand, for any tasks and any workers.
THEOREM StrandInvariant == Spec => []StrandInv
<1>1. Init => StrandInv
  <2>1. Init => Counted
    <3> SUFFICES ASSUME Init PROVE Counted
      OBVIOUS
    <3>1. Waiting = {}
      BY DEF Init, Waiting, Waits
    <3> QED BY <3>1, FS_EmptySet DEF Counted, Init
  <2> QED BY <2>1, TypeInit, ProcInit, TaskInit DEF StrandInv
<1>2. StrandInv /\ [Next]_vars => StrandInv'
  BY TypeNext, ProcNext, TaskNext, CountNext DEF StrandInv
<1> QED BY <1>1, <1>2, PTL DEF Spec

\* The fields of a strand keep their types: no promise is registered as
\* deferred that is not delayed, and no post of process() is taken twice.
THEOREM TypeCorrect == Spec => []TypeOK
<1>1. StrandInv => TypeOK
  BY DEF StrandInv
<1> QED BY <1>1, StrandInvariant, PTL

\* _processing serialises the executions: at most one worker executes a task.
THEOREM SerialExecution == Spec => []Serial
<1>1. StrandInv => Serial
  BY ProcSerial DEF StrandInv
<1> QED BY <1>1, StrandInvariant, PTL

\* No task is executed twice, and none whose future is canceled is executed.
THEOREM CanceledNeverRun == Spec => []CanceledNotRun
<1>1. StrandInv => CanceledNotRun
  BY DEF StrandInv, TaskInv, TaskOK, CanceledNotRun
<1> QED BY <1>1, StrandInvariant, PTL

\* The queue holds what join() and cancel() assert that it holds.
THEOREM QueueConsistent == Spec => []QueueStates
<1>1. StrandInv => QueueStates
  <2> SUFFICES ASSUME StrandInv PROVE QueueStates
    OBVIOUS
  <2>1. Range(queue) \subseteq Tasks
    BY DEF StrandInv, TypeOK, Range
  <2> QED BY <2>1 DEF StrandInv, TaskInv, TaskOK, Queued, QueueStates
<1> QED BY <1>1, StrandInvariant, PTL

\* _aliveCount is the number of the tasks that wait for their execution, from
\* createCallback() on, until the strand dies.
THEOREM AliveCountCorrect == Spec => []AliveCountExact
<1>1. StrandInv => AliveCountExact
  BY CountedIsExact DEF StrandInv
<1> QED BY <1>1, StrandInvariant, PTL

\* Once a join() that waited has returned, the strand executes nothing.
THEOREM JoinIsFinal == Spec => JoinSilences
<1>1. StrandInv /\ [Next]_vars => [joined => /\ \A w \in Workers : pc[w] # "run"
                                            /\ UNCHANGED runs]_vars
  <2>1. StrandInv /\ joined => \A w \in Workers : pc[w] # "run"
    BY DEF StrandInv, ProcInv, TypeOK
  <2> QED BY <2>1, JoinedStep DEF StrandInv
<1> QED BY <1>1, StrandInvariant, PTL DEF Spec, JoinSilences
=============================================================================
