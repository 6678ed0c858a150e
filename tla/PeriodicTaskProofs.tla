------------------------- MODULE PeriodicTaskProofs -------------------------
(***************************************************************************)
(* Theorems about a periodic task, for any threads, tasks and calls, and   *)
(* about the event loop that it runs on, for any pool.                     *)
(***************************************************************************)
EXTENDS PeriodicTask, Sequences, FiniteSetTheorems, TLAPS

\* The Boolean fields, and the others.
Flags == synchro \in BOOLEAN /\ silenced \in BOOLEAN /\ returned \in BOOLEAN /\ wanted \in BOOLEAN
Fields ==
    /\ state \in {"Stopped", "Scheduled", "Running", "Stopping", "Triggering", "TriggerReady"}
    /\ task \in Tasks \cup {NoTask}
    /\ tid \in Workers \cup {NoThread}
    /\ phase \in [Tasks -> {"timer", "ready", "aborted", "executing", "finished"}]
    /\ tracked \in [Tasks -> {"alive", "dying", "gone"}]
    /\ wrap \in [Threads -> {"none", "begin", "running", "cb", "called", "thrown", "returning"}]
    /\ exec \in [Threads -> Tasks \cup {NoTask}]
    /\ \A t \in Threads : exec[t] = NoTask <=> wrap[t] = "none"
    /\ call \in [Threads -> {"none", "asyncStopWait", "stopWait", "stopTid", "stopDrain",
                             "triggerWait"}]
    /\ asleep \subseteq Threads
    /\ calls \in Nat

\* The two parts make up the type invariant.
LEMMA Typed == TypeOK <=> Fields /\ Flags
BY DEF TypeOK, Fields, Flags

\* The fields of a fresh periodic task have their types.
LEMMA TypeInit == Init => TypeOK
<1> SUFFICES ASSUME Init PROVE TypeOK
  OBVIOUS
<1>1. Fields
  BY DEF Init, Fields
<1>2. Flags
  BY DEF Init, Flags
<1> QED BY <1>1, <1>2, Typed

\* Every step keeps the types.
LEMMA TypeNext == TypeOK /\ [Next]_vars => TypeOK'
<1> SUFFICES ASSUME TypeOK, [Next]_vars PROVE TypeOK'
  OBVIOUS
<1> USE DEF Threads
<1>1. ASSUME NEW t \in Threads, start(t) PROVE TypeOK'
  <2>1. Fields'
    BY <1>1, Typed DEF start, Reschedule, FreeTasks, Holders, MayCall, Fields, taskVars,
           wrapVars, historyVars, stopped
  <2>2. Flags'
    BY <1>1, Typed DEF start, Flags, historyVars, stopped
  <2> QED BY <2>1, <2>2 DEF TypeOK, Fields, Flags
<1>2. ASSUME NEW t \in Threads, stop(t) PROVE TypeOK'
  <2>1. Fields'
    BY <1>2, Typed DEF stop, StopOrSleep, CancelTask, MayCall, Fields, taskVars, wrapVars,
           historyVars, stopped
  <2>2. Flags'
    BY <1>2, Typed DEF stop, Flags, historyVars, stopped
  <2> QED BY <2>1, <2>2 DEF TypeOK, Fields, Flags
<1>3. ASSUME NEW t \in Threads, asyncStop(t) PROVE TypeOK'
  <2>1. Fields'
    BY <1>3, Typed DEF asyncStop, StopOrSleep, CancelTask, MayCall, Fields, taskVars, wrapVars,
           historyVars, stopped
  <2>2. Flags'
    BY <1>3, Typed DEF asyncStop, Flags, historyVars, stopped
  <2> QED BY <2>1, <2>2 DEF TypeOK, Fields, Flags
<1>4. ASSUME NEW t \in Threads, trigger(t) PROVE TypeOK'
  BY <1>4 DEF trigger, CancelTask, MayCall, TypeOK, taskVars, wrapVars, historyVars, stopped
<1>5. ASSUME NEW t \in Threads, asyncStopWakes(t) PROVE TypeOK'
  BY <1>5 DEF asyncStopWakes, StopOrSleep, CancelTask, TypeOK, taskVars, wrapVars, historyVars, stopped
<1>6. ASSUME NEW t \in Threads, stopWakes(t) PROVE TypeOK'
  BY <1>6 DEF stopWakes, StopOrSleep, CancelTask, TypeOK, taskVars, wrapVars, historyVars, stopped
<1>7. ASSUME NEW t \in Threads, stopChecksTid(t) PROVE TypeOK'
  <2>1. Fields'
    BY <1>7, Typed DEF stopChecksTid, Fields, taskVars, wrapVars, historyVars, stopped
  <2>2. Flags'
    BY <1>7, Typed DEF stopChecksTid, Flags, historyVars, stopped
  <2> QED BY <2>1, <2>2 DEF TypeOK, Fields, Flags
<1>8. ASSUME NEW t \in Threads, stopDrains(t) PROVE TypeOK'
  BY <1>8 DEF stopDrains, TypeOK, taskVars, wrapVars, historyVars, stopped
<1>9. ASSUME NEW t \in Threads, triggerWakes(t) PROVE TypeOK'
  BY <1>9 DEF triggerWakes, Reschedule, FreeTasks, TypeOK, taskVars, wrapVars, historyVars, stopped
<1>10. ASSUME NEW w \in Workers, WrapBegins(w) PROVE TypeOK'
  BY <1>10 DEF WrapBegins, TypeOK, taskVars, wrapVars, historyVars, stopped
<1>11. ASSUME NEW w \in Workers, CallbackBegins(w) PROVE TypeOK'
  BY <1>11 DEF CallbackBegins, TypeOK, taskVars, wrapVars, historyVars, stopped
<1>12. ASSUME NEW w \in Workers, CallbackReturns(w) PROVE TypeOK'
  BY <1>12 DEF CallbackReturns, TypeOK, taskVars, wrapVars, historyVars, stopped
<1>13. ASSUME NEW w \in Workers, CallbackThrows(w) PROVE TypeOK'
  BY <1>13 DEF CallbackThrows, TypeOK, taskVars, wrapVars, historyVars, stopped
<1>14. ASSUME NEW w \in Workers, WrapAborts(w) PROVE TypeOK'
  BY <1>14 DEF WrapAborts, TypeOK, taskVars, wrapVars, historyVars, stopped
<1>15. ASSUME NEW w \in Workers, WrapContinues(w) PROVE TypeOK'
  BY <1>15 DEF WrapContinues, Reschedule, FreeTasks, TypeOK, taskVars, wrapVars, historyVars, stopped
<1>16. ASSUME NEW w \in Workers, WrapReturns(w) PROVE TypeOK'
  BY <1>16 DEF WrapReturns, TypeOK, taskVars, wrapVars, historyVars, stopped
<1>17. ASSUME NEW k \in Tasks, TimerExpires(k) PROVE TypeOK'
  BY <1>17 DEF TimerExpires, TypeOK, taskVars, wrapVars, historyVars, stopped
<1>18. ASSUME NEW k \in Tasks, LockFails(k) PROVE TypeOK'
  BY <1>18 DEF LockFails, TypeOK, taskVars, wrapVars, historyVars, stopped
<1>19. ASSUME NEW k \in Tasks, onTaskFinished(k) PROVE TypeOK'
  BY <1>19 DEF onTaskFinished, TypeOK, taskVars, wrapVars, historyVars, stopped
<1>20. ASSUME NEW w \in Workers, NEW k \in Tasks, Lock(w, k) PROVE TypeOK'
  BY <1>20, PeriodicAssumption DEF Lock, IdleWorker, TypeOK, taskVars, wrapVars, historyVars, stopped
<1>21. ASSUME UNCHANGED vars PROVE TypeOK'
  BY <1>21 DEF vars, TypeOK, taskVars, wrapVars, historyVars, stopped
<1> QED BY <1>1, <1>2, <1>3, <1>4, <1>5, <1>6, <1>7, <1>8, <1>9, <1>10, <1>11,
        <1>12, <1>13, <1>14, <1>15, <1>16, <1>17, <1>18, <1>19, <1>20, <1>21 DEF Next, GoOn, Wrap, Handle

-----------------------------------------------------------------------------
(***************************************************************************)
(* The task _task refers to is the only one that can still be canceled or  *)
(* started, and the only one that is before the end of _wrap().            *)
(***************************************************************************)
Pending(k) == phase[k] \in {"timer", "ready", "aborted"}

TaskInv ==
    /\ \A k \in Tasks : Pending(k) => k = task
    /\ \A k \in Tasks : phase[k] = "timer" => state = "Scheduled"
    /\ \A k \in Tasks : phase[k] = "ready" => state \in {"Scheduled", "Triggering", "Stopping"}
    /\ \A k \in Tasks : phase[k] = "aborted" => state \in {"Triggering", "Stopping"}

WrapInv ==
    /\ \A t \in Threads : InWrap(t) => exec[t] = task
    /\ \A t \in Threads : exec[t] # NoTask => phase[exec[t]] = "executing"
    /\ \A t, u \in Threads : (exec[t] = exec[u] /\ exec[t] # NoTask) => t = u
    /\ \A t \in Threads : wrap[t] = "begin" => state \in {"Scheduled", "Triggering", "Stopping"}
    /\ \A t \in Threads : wrap[t] \in {"running", "cb", "called", "thrown"}
                              => state \in {"Running", "Stopping"}

PeriodicInv == TaskInv /\ WrapInv

\* A fresh periodic task has no task.
LEMMA PeriodicInit == Init => PeriodicInv
BY PeriodicAssumption DEF Init, PeriodicInv, TaskInv, WrapInv, Pending, InWrap

\* No step makes a second task current while the first one is under way.
LEMMA PeriodicNext == TypeOK /\ PeriodicInv /\ [Next]_vars => PeriodicInv'
<1> SUFFICES ASSUME TypeOK, PeriodicInv, [Next]_vars PROVE PeriodicInv'
  OBVIOUS
<1> USE PeriodicAssumption DEF Threads
<1>1. ASSUME NEW t \in Threads, start(t) PROVE PeriodicInv'
  BY <1>1 DEF start, Reschedule, FreeTasks, Holders, MayCall, TypeOK, taskVars, wrapVars,
         historyVars, stopped, PeriodicInv, TaskInv, WrapInv, Pending, InWrap
<1>2. ASSUME NEW t \in Threads, stop(t) PROVE PeriodicInv'
  BY <1>2 DEF stop, StopOrSleep, CancelTask, MayCall, TypeOK, taskVars, wrapVars, historyVars, stopped,
         PeriodicInv, TaskInv, WrapInv, Pending, InWrap
<1>3. ASSUME NEW t \in Threads, asyncStop(t) PROVE PeriodicInv'
  BY <1>3 DEF asyncStop, StopOrSleep, CancelTask, MayCall, TypeOK, taskVars, wrapVars,
         historyVars, stopped, PeriodicInv, TaskInv, WrapInv, Pending, InWrap
<1>4. ASSUME NEW t \in Threads, trigger(t) PROVE PeriodicInv'
  BY <1>4 DEF trigger, CancelTask, MayCall, TypeOK, taskVars, wrapVars, historyVars, stopped,
         PeriodicInv, TaskInv, WrapInv, Pending, InWrap
<1>5. ASSUME NEW t \in Threads, asyncStopWakes(t) PROVE PeriodicInv'
  BY <1>5 DEF asyncStopWakes, StopOrSleep, CancelTask, TypeOK, taskVars, wrapVars, historyVars, stopped,
         PeriodicInv, TaskInv, WrapInv, Pending, InWrap
<1>6. ASSUME NEW t \in Threads, stopWakes(t) PROVE PeriodicInv'
  BY <1>6 DEF stopWakes, StopOrSleep, CancelTask, TypeOK, taskVars, wrapVars, historyVars, stopped,
         PeriodicInv, TaskInv, WrapInv, Pending, InWrap
<1>7. ASSUME NEW t \in Threads, stopChecksTid(t) PROVE PeriodicInv'
  BY <1>7 DEF stopChecksTid, TypeOK, taskVars, wrapVars, historyVars, stopped, PeriodicInv, TaskInv,
         WrapInv, Pending, InWrap
<1>8. ASSUME NEW t \in Threads, stopDrains(t) PROVE PeriodicInv'
  BY <1>8 DEF stopDrains, TypeOK, taskVars, wrapVars, historyVars, stopped, PeriodicInv, TaskInv,
         WrapInv, Pending, InWrap
<1>9. ASSUME NEW t \in Threads, triggerWakes(t) PROVE PeriodicInv'
  BY <1>9 DEF triggerWakes, Reschedule, FreeTasks, TypeOK, taskVars, wrapVars, historyVars, stopped,
         PeriodicInv, TaskInv, WrapInv, Pending, InWrap
<1>10. ASSUME NEW w \in Workers, WrapBegins(w) PROVE PeriodicInv'
  BY <1>10 DEF WrapBegins, TypeOK, taskVars, wrapVars, historyVars, stopped, PeriodicInv, TaskInv,
         WrapInv, Pending, InWrap
<1>11. ASSUME NEW w \in Workers, CallbackBegins(w) PROVE PeriodicInv'
  BY <1>11 DEF CallbackBegins, TypeOK, taskVars, wrapVars, historyVars, stopped, PeriodicInv, TaskInv,
         WrapInv, Pending, InWrap
<1>12. ASSUME NEW w \in Workers, CallbackReturns(w) PROVE PeriodicInv'
  BY <1>12 DEF CallbackReturns, TypeOK, taskVars, wrapVars, historyVars, stopped, PeriodicInv, TaskInv,
         WrapInv, Pending, InWrap
<1>13. ASSUME NEW w \in Workers, CallbackThrows(w) PROVE PeriodicInv'
  BY <1>13 DEF CallbackThrows, TypeOK, taskVars, wrapVars, historyVars, stopped, PeriodicInv, TaskInv,
         WrapInv, Pending, InWrap
<1>14. ASSUME NEW w \in Workers, WrapAborts(w) PROVE PeriodicInv'
  BY <1>14 DEF WrapAborts, TypeOK, taskVars, wrapVars, historyVars, stopped, PeriodicInv, TaskInv,
         WrapInv, Pending, InWrap
<1>15. ASSUME NEW w \in Workers, WrapContinues(w) PROVE PeriodicInv'
  BY <1>15 DEF WrapContinues, Reschedule, FreeTasks, TypeOK, taskVars, wrapVars, historyVars, stopped,
         PeriodicInv, TaskInv, WrapInv, Pending, InWrap
<1>16. ASSUME NEW w \in Workers, WrapReturns(w) PROVE PeriodicInv'
  BY <1>16 DEF WrapReturns, TypeOK, taskVars, wrapVars, historyVars, stopped, PeriodicInv, TaskInv,
         WrapInv, Pending, InWrap
<1>17. ASSUME NEW k \in Tasks, TimerExpires(k) PROVE PeriodicInv'
  BY <1>17 DEF TimerExpires, TypeOK, taskVars, wrapVars, historyVars, stopped, PeriodicInv, TaskInv,
         WrapInv, Pending, InWrap
<1>18. ASSUME NEW k \in Tasks, LockFails(k) PROVE PeriodicInv'
  BY <1>18 DEF LockFails, TypeOK, taskVars, wrapVars, historyVars, stopped, PeriodicInv, TaskInv,
         WrapInv, Pending, InWrap
<1>19. ASSUME NEW k \in Tasks, onTaskFinished(k) PROVE PeriodicInv'
  BY <1>19 DEF onTaskFinished, TypeOK, taskVars, wrapVars, historyVars, stopped, PeriodicInv, TaskInv,
         WrapInv, Pending, InWrap
<1>20. ASSUME NEW w \in Workers, NEW k \in Tasks, Lock(w, k) PROVE PeriodicInv'
  BY <1>20, PeriodicAssumption DEF Lock, IdleWorker, TypeOK, taskVars, wrapVars, historyVars, stopped,
         PeriodicInv, TaskInv, WrapInv, Pending, InWrap
<1>21. ASSUME UNCHANGED vars PROVE PeriodicInv'
  BY <1>21 DEF vars, TypeOK, taskVars, wrapVars, historyVars, stopped, PeriodicInv, TaskInv, WrapInv,
         Pending, InWrap
<1> QED BY <1>1, <1>2, <1>3, <1>4, <1>5, <1>6, <1>7, <1>8, <1>9, <1>10, <1>11,
        <1>12, <1>13, <1>14, <1>15, <1>16, <1>17, <1>18, <1>19, <1>20, <1>21 DEF Next, GoOn, Wrap, Handle

-----------------------------------------------------------------------------
(***************************************************************************)
(* stop() silences the task, although its last steps are taken without the *)
(* mutex and others may stop the task at the same time: the thread that    *)
(* takes the synchronizer joins the tasks, and until it has done so nobody *)
(* else's stop() counts as one that silences.                              *)
(***************************************************************************)

\* Who is inside a call: the thread in the callback, which _tid names, or a
\* caller from outside, and only the latter joins the tasks.
CallInv ==
    /\ \A t \in Threads : wrap[t] = "cb" => tid = t
    /\ \A t \in Threads : call[t] # "none"
                              => wrap[t] = "cb" \/ (wrap[t] = "none" /\ t \in Callers)
    /\ \A t \in Threads : call[t] = "stopDrain" => wrap[t] = "none"

\* No thread is about to call the callback, and none will be.
Still == state \in {"Stopped", "Stopping"} /\ \A t \in Threads : wrap[t] # "running"

\* From the moment stop() is through with the state, the task stays stopped; it
\* is still once the synchronizer has been joined.
StopInv ==
    /\ \A t \in Threads : call[t] \in {"stopTid", "stopDrain"} => state \in {"Stopped", "Stopping"}
    /\ silenced => Still
    /\ synchro \/ Still \/ \E t \in Threads : call[t] = "stopDrain"

\* A fresh periodic task is still, and nobody calls it.
LEMMA StopInit == Init => CallInv /\ StopInv
BY PeriodicAssumption DEF Init, CallInv, StopInv, Still, Threads

\* A thread enters a call from the callback or from outside, and stays there.
LEMMA CallNext == TypeOK /\ PeriodicInv /\ CallInv /\ [Next]_vars => CallInv'
<1> SUFFICES ASSUME TypeOK, WrapInv, CallInv, [Next]_vars PROVE CallInv'
  BY DEF PeriodicInv
<1> USE PeriodicAssumption DEF Threads
<1>1. ASSUME NEW t \in Threads, start(t) PROVE CallInv'
  BY <1>1 DEF start, Reschedule, FreeTasks, Holders, MayCall, TypeOK, taskVars, wrapVars,
         historyVars, stopped, WrapInv, CallInv, InWrap
<1>2. ASSUME NEW t \in Threads, stop(t) PROVE CallInv'
  BY <1>2 DEF stop, StopOrSleep, MayCall, TypeOK, taskVars, wrapVars, historyVars, stopped, WrapInv,
         CallInv, InWrap
<1>3. ASSUME NEW t \in Threads, asyncStop(t) PROVE CallInv'
  BY <1>3 DEF asyncStop, StopOrSleep, MayCall, TypeOK, taskVars, wrapVars, historyVars, stopped,
         WrapInv, CallInv, InWrap
<1>4. ASSUME NEW t \in Threads, trigger(t) PROVE CallInv'
  BY <1>4 DEF trigger, MayCall, TypeOK, taskVars, wrapVars, historyVars, stopped, WrapInv, CallInv, InWrap
<1>5. ASSUME NEW t \in Threads, asyncStopWakes(t) PROVE CallInv'
  BY <1>5 DEF asyncStopWakes, StopOrSleep, TypeOK, taskVars, wrapVars, historyVars, stopped, WrapInv,
         CallInv, InWrap
<1>6. ASSUME NEW t \in Threads, stopWakes(t) PROVE CallInv'
  BY <1>6 DEF stopWakes, StopOrSleep, TypeOK, taskVars, wrapVars, historyVars, stopped, WrapInv,
         CallInv, InWrap
<1>7. ASSUME NEW t \in Threads, stopChecksTid(t) PROVE CallInv'
  BY <1>7 DEF stopChecksTid, TypeOK, taskVars, wrapVars, historyVars, stopped, WrapInv, CallInv, InWrap
<1>8. ASSUME NEW t \in Threads, stopDrains(t) PROVE CallInv'
  BY <1>8 DEF stopDrains, Holders, TypeOK, taskVars, wrapVars, historyVars, stopped, WrapInv, CallInv, InWrap
<1>9. ASSUME NEW t \in Threads, triggerWakes(t) PROVE CallInv'
  BY <1>9 DEF triggerWakes, Reschedule, TypeOK, taskVars, wrapVars, historyVars, stopped, WrapInv,
         CallInv, InWrap
<1>10. ASSUME NEW w \in Workers, WrapBegins(w) PROVE CallInv'
  BY <1>10 DEF WrapBegins, TypeOK, taskVars, wrapVars, historyVars, stopped, WrapInv, CallInv, InWrap
<1>11. ASSUME NEW w \in Workers, CallbackBegins(w) PROVE CallInv'
  BY <1>11 DEF CallbackBegins, TypeOK, taskVars, wrapVars, historyVars, stopped, WrapInv, CallInv, InWrap
<1>12. ASSUME NEW w \in Workers, CallbackReturns(w) PROVE CallInv'
  BY <1>12 DEF CallbackReturns, TypeOK, taskVars, wrapVars, historyVars, stopped, WrapInv, CallInv, InWrap
<1>13. ASSUME NEW w \in Workers, CallbackThrows(w) PROVE CallInv'
  BY <1>13 DEF CallbackThrows, TypeOK, taskVars, wrapVars, historyVars, stopped, WrapInv, CallInv, InWrap
<1>14. ASSUME NEW w \in Workers, WrapAborts(w) PROVE CallInv'
  BY <1>14 DEF WrapAborts, TypeOK, taskVars, wrapVars, historyVars, stopped, WrapInv, CallInv, InWrap
<1>15. ASSUME NEW w \in Workers, WrapContinues(w) PROVE CallInv'
  BY <1>15 DEF WrapContinues, Reschedule, TypeOK, taskVars, wrapVars, historyVars, stopped, WrapInv,
         CallInv, InWrap
<1>16. ASSUME NEW w \in Workers, WrapReturns(w) PROVE CallInv'
  BY <1>16 DEF WrapReturns, TypeOK, taskVars, wrapVars, historyVars, stopped, WrapInv, CallInv, InWrap
<1>17. ASSUME NEW k \in Tasks, TimerExpires(k) PROVE CallInv'
  BY <1>17 DEF TimerExpires, TypeOK, taskVars, wrapVars, historyVars, stopped, WrapInv, CallInv, InWrap
<1>18. ASSUME NEW k \in Tasks, LockFails(k) PROVE CallInv'
  BY <1>18 DEF LockFails, TypeOK, taskVars, wrapVars, historyVars, stopped, WrapInv, CallInv, InWrap
<1>19. ASSUME NEW k \in Tasks, onTaskFinished(k) PROVE CallInv'
  BY <1>19 DEF onTaskFinished, TypeOK, taskVars, wrapVars, historyVars, stopped, WrapInv, CallInv, InWrap
<1>20. ASSUME NEW w \in Workers, NEW k \in Tasks, Lock(w, k) PROVE CallInv'
  BY <1>20 DEF Lock, IdleWorker, TypeOK, taskVars, wrapVars, historyVars, stopped, WrapInv, CallInv, InWrap
<1>21. ASSUME UNCHANGED vars PROVE CallInv'
  BY <1>21 DEF vars, TypeOK, taskVars, wrapVars, historyVars, stopped, WrapInv, CallInv, InWrap
<1> QED BY <1>1, <1>2, <1>3, <1>4, <1>5, <1>6, <1>7, <1>8, <1>9, <1>10, <1>11,
        <1>12, <1>13, <1>14, <1>15, <1>16, <1>17, <1>18, <1>19, <1>20, <1>21 DEF Next, GoOn, Wrap, Handle

\* A task that is still is woken only by start(), which no stop() in its last
\* steps allows and which ends the silence.
LEMMA StopNext == TypeOK /\ PeriodicInv /\ CallInv /\ StopInv /\ [Next]_vars => StopInv'
<1> SUFFICES ASSUME TypeOK, WrapInv, CallInv, StopInv, [Next]_vars PROVE StopInv'
  BY DEF PeriodicInv
<1> USE PeriodicAssumption DEF Threads
<1>1. ASSUME NEW t \in Threads, start(t) PROVE StopInv'
  BY <1>1 DEF start, Reschedule, FreeTasks, Holders, MayCall, TypeOK, taskVars, wrapVars,
         historyVars, stopped, WrapInv, CallInv, StopInv, Still, InWrap
<1>2. ASSUME NEW t \in Threads, stop(t) PROVE StopInv'
  BY <1>2 DEF stop, StopOrSleep, MayCall, TypeOK, taskVars, wrapVars, historyVars, stopped, WrapInv,
         CallInv, StopInv, Still, InWrap
<1>3. ASSUME NEW t \in Threads, asyncStop(t) PROVE StopInv'
  BY <1>3 DEF asyncStop, StopOrSleep, MayCall, TypeOK, taskVars, wrapVars, historyVars, stopped,
         WrapInv, CallInv, StopInv, Still, InWrap
<1>4. ASSUME NEW t \in Threads, trigger(t) PROVE StopInv'
  BY <1>4 DEF trigger, MayCall, TypeOK, taskVars, wrapVars, historyVars, stopped, WrapInv, CallInv,
         StopInv, Still, InWrap
<1>5. ASSUME NEW t \in Threads, asyncStopWakes(t) PROVE StopInv'
  BY <1>5 DEF asyncStopWakes, StopOrSleep, TypeOK, taskVars, wrapVars, historyVars, stopped, WrapInv,
         CallInv, StopInv, Still, InWrap
<1>6. ASSUME NEW t \in Threads, stopWakes(t) PROVE StopInv'
  BY <1>6 DEF stopWakes, StopOrSleep, TypeOK, taskVars, wrapVars, historyVars, stopped, WrapInv,
         CallInv, StopInv, Still, InWrap
<1>7. ASSUME NEW t \in Threads, stopChecksTid(t) PROVE StopInv'
  <2>1. UNCHANGED <<state, wrap>> /\ state \in {"Stopped", "Stopping"}
    BY <1>7 DEF stopChecksTid, StopInv, wrapVars
  <2>2. Still => Still'
    BY <2>1 DEF Still
  <2>3. (\A u \in Threads : call[u] \in {"stopTid", "stopDrain"} => state \in {"Stopped", "Stopping"})'
    BY <2>1
  <2>4. CASE tid = t
    <3>1. /\ silenced' <=> (silenced \/ wrap[t] = "cb")
          /\ synchro' = synchro
          /\ \A u \in Threads : call[u] = "stopDrain" => call'[u] = "stopDrain"
      BY <1>7, <2>4 DEF stopChecksTid, TypeOK
    <3>2. wrap[t] = "cb" => Still
      BY <2>1 DEF Still, WrapInv, InWrap, TypeOK
    <3> QED BY <2>2, <2>3, <3>1, <3>2 DEF StopInv
  <2>5. CASE tid # t
    <3>1. CASE synchro
      <4>1. silenced' <=> silenced
        BY <1>7, <2>5, <3>1, Zenon DEF stopChecksTid
      <4>2. call'[t] = "stopDrain"
        BY <1>7, <2>5, <3>1 DEF stopChecksTid, TypeOK
      <4> QED BY <2>2, <2>3, <4>1, <4>2, Zenon DEF StopInv
    <3>2. CASE ~synchro
      <4>1. /\ silenced' <=> (silenced \/ \A u \in Threads : call[u] # "stopDrain")
            /\ \A u \in Threads : call[u] = "stopDrain" => call'[u] = "stopDrain"
        BY <1>7, <2>5, <3>2 DEF stopChecksTid, TypeOK
      <4>2. Still \/ \E u \in Threads : call[u] = "stopDrain"
        BY <3>2 DEF StopInv
      <4> QED BY <2>2, <2>3, <4>1, <4>2, Zenon DEF StopInv
    <3> QED BY <3>1, <3>2
  <2> QED BY <2>4, <2>5
<1>8. ASSUME NEW t \in Threads, stopDrains(t) PROVE StopInv'
  BY <1>8 DEF stopDrains, Holders, TypeOK, taskVars, wrapVars, historyVars, stopped, WrapInv, CallInv,
         StopInv, Still, InWrap
<1>9. ASSUME NEW t \in Threads, triggerWakes(t) PROVE StopInv'
  BY <1>9 DEF triggerWakes, Reschedule, TypeOK, taskVars, wrapVars, historyVars, stopped, WrapInv,
         CallInv, StopInv, Still, InWrap
<1>10. ASSUME NEW w \in Workers, WrapBegins(w) PROVE StopInv'
  BY <1>10 DEF WrapBegins, TypeOK, taskVars, wrapVars, historyVars, stopped, WrapInv, CallInv, StopInv,
         Still, InWrap
<1>11. ASSUME NEW w \in Workers, CallbackBegins(w) PROVE StopInv'
  BY <1>11 DEF CallbackBegins, TypeOK, taskVars, wrapVars, historyVars, stopped, WrapInv, CallInv,
         StopInv, Still, InWrap
<1>12. ASSUME NEW w \in Workers, CallbackReturns(w) PROVE StopInv'
  BY <1>12 DEF CallbackReturns, TypeOK, taskVars, wrapVars, historyVars, stopped, WrapInv, CallInv,
         StopInv, Still, InWrap
<1>13. ASSUME NEW w \in Workers, CallbackThrows(w) PROVE StopInv'
  BY <1>13 DEF CallbackThrows, TypeOK, taskVars, wrapVars, historyVars, stopped, WrapInv, CallInv,
         StopInv, Still, InWrap
<1>14. ASSUME NEW w \in Workers, WrapAborts(w) PROVE StopInv'
  BY <1>14 DEF WrapAborts, TypeOK, taskVars, wrapVars, historyVars, stopped, WrapInv, CallInv, StopInv,
         Still, InWrap
<1>15. ASSUME NEW w \in Workers, WrapContinues(w) PROVE StopInv'
  BY <1>15 DEF WrapContinues, Reschedule, TypeOK, taskVars, wrapVars, historyVars, stopped, WrapInv,
         CallInv, StopInv, Still, InWrap
<1>16. ASSUME NEW w \in Workers, WrapReturns(w) PROVE StopInv'
  BY <1>16 DEF WrapReturns, TypeOK, taskVars, wrapVars, historyVars, stopped, WrapInv, CallInv, StopInv,
         Still, InWrap
<1>17. ASSUME NEW k \in Tasks, TimerExpires(k) PROVE StopInv'
  BY <1>17 DEF TimerExpires, TypeOK, taskVars, wrapVars, historyVars, stopped, WrapInv, CallInv,
         StopInv, Still, InWrap
<1>18. ASSUME NEW k \in Tasks, LockFails(k) PROVE StopInv'
  BY <1>18 DEF LockFails, TypeOK, taskVars, wrapVars, historyVars, stopped, WrapInv, CallInv, StopInv,
         Still, InWrap
<1>19. ASSUME NEW k \in Tasks, onTaskFinished(k) PROVE StopInv'
  BY <1>19 DEF onTaskFinished, TypeOK, taskVars, wrapVars, historyVars, stopped, WrapInv, CallInv,
         StopInv, Still, InWrap
<1>20. ASSUME NEW w \in Workers, NEW k \in Tasks, Lock(w, k) PROVE StopInv'
  BY <1>20 DEF Lock, IdleWorker, TypeOK, taskVars, wrapVars, historyVars, stopped, WrapInv, StopInv,
         Still, InWrap
<1>21. ASSUME UNCHANGED vars PROVE StopInv'
  BY <1>21 DEF vars, TypeOK, taskVars, wrapVars, historyVars, stopped, WrapInv, StopInv, Still, InWrap
<1> QED BY <1>1, <1>2, <1>3, <1>4, <1>5, <1>6, <1>7, <1>8, <1>9, <1>10, <1>11,
        <1>12, <1>13, <1>14, <1>15, <1>16, <1>17, <1>18, <1>19, <1>20, <1>21 DEF Next, GoOn, Wrap, Handle

\* What one step of a silenced task may not do.
NoNewCallback == silenced => \A t \in Threads : wrap'[t] = "cb" => wrap[t] = "cb"

\* Only a thread that is about to call the callback can call it.
LEMMA SilentStep == TypeOK /\ StopInv /\ [Next]_vars => NoNewCallback
<1> SUFFICES ASSUME TypeOK, StopInv, [Next]_vars PROVE NoNewCallback
  OBVIOUS
<1> USE DEF Threads
<1>1. ASSUME NEW t \in Threads, start(t) PROVE NoNewCallback
  BY <1>1 DEF start, TypeOK, taskVars, wrapVars, historyVars, stopped, StopInv, Still, NoNewCallback
<1>2. ASSUME NEW t \in Threads, stop(t) PROVE NoNewCallback
  BY <1>2 DEF stop, TypeOK, taskVars, wrapVars, historyVars, stopped, StopInv, Still, NoNewCallback
<1>3. ASSUME NEW t \in Threads, asyncStop(t) PROVE NoNewCallback
  BY <1>3 DEF asyncStop, TypeOK, taskVars, wrapVars, historyVars, stopped, StopInv, Still, NoNewCallback
<1>4. ASSUME NEW t \in Threads, trigger(t) PROVE NoNewCallback
  BY <1>4 DEF trigger, TypeOK, taskVars, wrapVars, historyVars, stopped, StopInv, Still, NoNewCallback
<1>5. ASSUME NEW t \in Threads, asyncStopWakes(t) PROVE NoNewCallback
  BY <1>5 DEF asyncStopWakes, TypeOK, taskVars, wrapVars, historyVars, stopped, StopInv, Still, NoNewCallback
<1>6. ASSUME NEW t \in Threads, stopWakes(t) PROVE NoNewCallback
  BY <1>6 DEF stopWakes, TypeOK, taskVars, wrapVars, historyVars, stopped, StopInv, Still, NoNewCallback
<1>7. ASSUME NEW t \in Threads, stopChecksTid(t) PROVE NoNewCallback
  BY <1>7 DEF stopChecksTid, TypeOK, taskVars, wrapVars, historyVars, stopped, StopInv, Still, NoNewCallback
<1>8. ASSUME NEW t \in Threads, stopDrains(t) PROVE NoNewCallback
  BY <1>8 DEF stopDrains, TypeOK, taskVars, wrapVars, historyVars, stopped, StopInv, Still, NoNewCallback
<1>9. ASSUME NEW t \in Threads, triggerWakes(t) PROVE NoNewCallback
  BY <1>9 DEF triggerWakes, TypeOK, taskVars, wrapVars, historyVars, stopped, StopInv, Still, NoNewCallback
<1>10. ASSUME NEW w \in Workers, WrapBegins(w) PROVE NoNewCallback
  BY <1>10 DEF WrapBegins, TypeOK, taskVars, wrapVars, historyVars, stopped, StopInv, Still, NoNewCallback
<1>11. ASSUME NEW w \in Workers, CallbackBegins(w) PROVE NoNewCallback
  BY <1>11 DEF CallbackBegins, TypeOK, taskVars, wrapVars, historyVars, stopped, StopInv, Still,
         NoNewCallback
<1>12. ASSUME NEW w \in Workers, CallbackReturns(w) PROVE NoNewCallback
  BY <1>12 DEF CallbackReturns, TypeOK, taskVars, wrapVars, historyVars, stopped, StopInv, Still,
         NoNewCallback
<1>13. ASSUME NEW w \in Workers, CallbackThrows(w) PROVE NoNewCallback
  BY <1>13 DEF CallbackThrows, TypeOK, taskVars, wrapVars, historyVars, stopped, StopInv, Still,
         NoNewCallback
<1>14. ASSUME NEW w \in Workers, WrapAborts(w) PROVE NoNewCallback
  BY <1>14 DEF WrapAborts, TypeOK, taskVars, wrapVars, historyVars, stopped, StopInv, Still, NoNewCallback
<1>15. ASSUME NEW w \in Workers, WrapContinues(w) PROVE NoNewCallback
  BY <1>15 DEF WrapContinues, TypeOK, taskVars, wrapVars, historyVars, stopped, StopInv, Still, NoNewCallback
<1>16. ASSUME NEW w \in Workers, WrapReturns(w) PROVE NoNewCallback
  BY <1>16 DEF WrapReturns, TypeOK, taskVars, wrapVars, historyVars, stopped, StopInv, Still, NoNewCallback
<1>17. ASSUME NEW k \in Tasks, TimerExpires(k) PROVE NoNewCallback
  BY <1>17 DEF TimerExpires, TypeOK, taskVars, wrapVars, historyVars, stopped, StopInv, Still, NoNewCallback
<1>18. ASSUME NEW k \in Tasks, LockFails(k) PROVE NoNewCallback
  BY <1>18 DEF LockFails, TypeOK, taskVars, wrapVars, historyVars, stopped, StopInv, Still, NoNewCallback
<1>19. ASSUME NEW k \in Tasks, onTaskFinished(k) PROVE NoNewCallback
  BY <1>19 DEF onTaskFinished, TypeOK, taskVars, wrapVars, historyVars, stopped, StopInv, Still,
         NoNewCallback
<1>20. ASSUME NEW w \in Workers, NEW k \in Tasks, Lock(w, k) PROVE NoNewCallback
  BY <1>20 DEF Lock, IdleWorker, TypeOK, taskVars, wrapVars, historyVars, stopped, StopInv, Still,
         NoNewCallback
<1>21. ASSUME UNCHANGED vars PROVE NoNewCallback
  BY <1>21 DEF vars, TypeOK, taskVars, wrapVars, historyVars, stopped, StopInv, Still, NoNewCallback
<1> QED BY <1>1, <1>2, <1>3, <1>4, <1>5, <1>6, <1>7, <1>8, <1>9, <1>10, <1>11,
        <1>12, <1>13, <1>14, <1>15, <1>16, <1>17, <1>18, <1>19, <1>20, <1>21 DEF Next, GoOn, Wrap, Handle

-----------------------------------------------------------------------------
(***************************************************************************)
(* The theorems.                                                           *)
(***************************************************************************)

\* The inductive invariant of a periodic task.
THEOREM PeriodicInvariant == Spec => [](TypeOK /\ PeriodicInv)
<1>1. Init => TypeOK /\ PeriodicInv
  BY TypeInit, PeriodicInit
<1>2. TypeOK /\ PeriodicInv /\ [Next]_vars => (TypeOK /\ PeriodicInv)'
  BY TypeNext, PeriodicNext
<1> QED BY <1>1, <1>2, PTL DEF Spec

\* The fields keep their types, and only a thread in _wrap() holds the
\* synchronizer.
THEOREM TypeCorrect == Spec => []TypeOK
BY PeriodicInvariant, PTL

\* No QI_ASSERT of periodictask.cpp fails.
THEOREM AssertionsCorrect == Spec => []AssertionsHold
<1>1. PeriodicInv => AssertionsHold
  BY DEF PeriodicInv, TaskInv, WrapInv, AssertionsHold
<1> QED BY <1>1, PeriodicInvariant, PTL

\* The state says Stopped only when _wrap() has nothing left to do.
THEOREM StoppedCorrect == Spec => []StoppedIsQuiet
<1>1. TypeOK /\ PeriodicInv => StoppedIsQuiet
  BY DEF PeriodicInv, WrapInv, StoppedIsQuiet, InWrap, TypeOK
<1> QED BY <1>1, PeriodicInvariant, PTL

\* The callback is never called by two threads at once.
THEOREM CallbackSerial == Spec => []OneCallback
<1>1. TypeOK /\ PeriodicInv => OneCallback
  BY DEF PeriodicInv, WrapInv, OneCallback, InWrap, TypeOK
<1> QED BY <1>1, PeriodicInvariant, PTL

\* When a stop() has joined the tasks, has found nothing to join and nobody
\* joining, or was called by the callback, the callback is not called until the
\* next start(), whoever stops, triggers or throws meanwhile.
THEOREM StopSilencesCorrect == Spec => StopSilences
<1>1. Init => TypeOK /\ PeriodicInv /\ CallInv /\ StopInv
  BY TypeInit, PeriodicInit, StopInit
<1>2. TypeOK /\ PeriodicInv /\ CallInv /\ StopInv /\ [Next]_vars
          => (TypeOK /\ PeriodicInv /\ CallInv /\ StopInv)'
  BY TypeNext, PeriodicNext, CallNext, StopNext
<1>3. TypeOK /\ StopInv /\ [Next]_vars
          => [silenced => \A t \in Threads : wrap'[t] = "cb" => wrap[t] = "cb"]_vars
  BY SilentStep DEF NoNewCallback
<1> QED BY <1>1, <1>2, <1>3, PTL DEF Spec, StopSilences

-----------------------------------------------------------------------------
(***************************************************************************)
(* The event loop that calls the task: where its handlers are, and how     *)
(* many workers it has.  EventLoop has names of PeriodicTask, so it is an  *)
(* instance here, of constants and variables of its own.                   *)
(***************************************************************************)
CONSTANTS PoolThreads, PoolTasks, NoPoolTask, Delayed, WaitsFor, InitialThreads, MinThreads,
          MaxThreads, MaxPings, MaxStarts

VARIABLES work, running, queue, timers, aborted, slot, worker, job, leaving, pinger, ping,
          joined, stopper, starts, held, submit, fut, terminated

Loop == INSTANCE EventLoop WITH
          Threads <- PoolThreads, Tasks <- PoolTasks, NoTask <- NoPoolTask

\* A worker has a handler exactly while it runs one.
JobInv ==
  \A w \in PoolThreads :
    /\ worker[w] = "task" <=> job[w] \in PoolTasks
    /\ worker[w] = "ping" <=> job[w] \in {"ping", "stale"}

\* Where a task is in the queue, and who runs it.
Queued(t) == {i \in DOMAIN queue : queue[i] = t}
RunBy(t) == {w \in PoolThreads : job[w] = t}

\* A task is in one place at most, and in one exactly while its future is pending.
PlaceAt(t) ==
  /\ fut[t] = "pending" <=>
       submit[t] = "checked" \/ t \in timers \/ Queued(t) # {} \/ RunBy(t) # {}
  /\ submit[t] = "checked" => t \notin timers /\ Queued(t) = {} /\ RunBy(t) = {}
  /\ t \in timers => Queued(t) = {} /\ RunBy(t) = {}
  /\ Queued(t) # {} => RunBy(t) = {}
  /\ \A i, j \in Queued(t) : i = j
  /\ \A v, w \in RunBy(t) : v = w
  /\ submit[t] = "none" => fut[t] = "none"

PlaceInv == \A t \in PoolTasks : PlaceAt(t)

\* Only the ping thread adds workers, one for each time that it finds room for one;
\* joinAll() takes all of them.
PoolInv ==
  /\ Loop!MaxKept
  /\ pinger \in {"launch", "join"} => Loop!activeWorkerCount < MaxThreads
  /\ pinger = "join" => \E w \in PoolThreads : joined = {w} /\ slot[w] = "inactive"
  /\ pinger # "join" => joined = {}
  /\ stopper \in {"join", "done", "destroyed"} =>
       pinger = "end" /\ \A w \in PoolThreads : slot[w] = "none"
  /\ stopper # "join" => leaving = {}
  /\ \A w \in PoolThreads : worker[w] # "none" => slot[w] # "none" \/ w \in leaving

LInv == Loop!TypeOK /\ JobInv /\ PlaceInv /\ PoolInv

-----------------------------------------------------------------------------

\* The counts of the instance are those of the library's theorems.
LEMMA SameCount ==
  ASSUME NEW S
  PROVE  /\ Loop!Cardinality(S) = Cardinality(S)
         /\ Loop!IsFiniteSet(S) <=> IsFiniteSet(S)
         /\ Loop!Range(S) = Range(S)
  BY DEF Loop!Cardinality, Cardinality, Loop!IsFiniteSet, IsFiniteSet, Loop!Range, Range

\* What is assumed of the sizes of a pool.
LEMMA PoolSizes ==
  ASSUME Loop!EventLoopAssumption
  PROVE  /\ IsFiniteSet(PoolThreads) /\ Cardinality(PoolThreads) \in Nat
         /\ InitialThreads \in Nat /\ MaxThreads \in Nat
         /\ InitialThreads <= MaxThreads /\ MaxThreads <= Cardinality(PoolThreads)
<1>1. IsFiniteSet(PoolThreads) /\ Loop!Cardinality(PoolThreads) = Cardinality(PoolThreads)
  BY SameCount DEF Loop!EventLoopAssumption
<1> QED
  BY <1>1, FS_CardinalityType DEF Loop!EventLoopAssumption

\* The number of workers that the pool counts.
LEMMA PoolCount == Loop!activeWorkerCount = Cardinality(Loop!ActiveThreads)
  BY SameCount DEF Loop!activeWorkerCount

\* A finite set has subsets of every size up to its own.
LEMMA SubsetOfSize ==
  ASSUME NEW S, IsFiniteSet(S), NEW n \in Nat, n <= Cardinality(S)
  PROVE  \E T \in SUBSET S : Cardinality(T) = n
<1>1. Cardinality(S) \in Nat /\ ExistsBijection(1 .. Cardinality(S), S)
  BY FS_CardinalityType
<1>2. PICK f : f \in Bijection(1 .. Cardinality(S), S)
  BY <1>1 DEF ExistsBijection
<1>3. /\ f \in [1 .. Cardinality(S) -> S]
      /\ \A i, j \in 1 .. Cardinality(S) : f[i] = f[j] => i = j
  BY <1>2 DEF Bijection, Injection, IsInjective
<1> DEFINE T == {f[i] : i \in 1 .. n}
           g == [i \in 1 .. n |-> f[i]]
<1>4. T \in SUBSET S
  BY <1>1, <1>3
<1>5. g \in [1 .. n -> T] /\ (\A i, j \in 1 .. n : g[i] = g[j] => i = j)
      /\ \A t \in T : \E i \in 1 .. n : g[i] = t
  BY <1>1, <1>3
<1> HIDE DEF g, T
<1>6. g \in Bijection(1 .. n, T)
  BY <1>5 DEF Bijection, Injection, Surjection, IsInjective
<1>7. ExistsBijection(1 .. n, T)
  BY <1>6 DEF ExistsBijection
<1>8. Cardinality(T) = n
  BY <1>7, FS_CountingElements
<1> QED
  BY <1>4, <1>8

\* start() launches as many workers as it is told, and the pool has room for them.
LEMMA FirstWorkersFit ==
  ASSUME Loop!EventLoopAssumption
  PROVE  Loop!FirstWorkers \in SUBSET PoolThreads /\ Cardinality(Loop!FirstWorkers) <= MaxThreads
<1>1. PICK S \in SUBSET PoolThreads : Cardinality(S) = InitialThreads
  BY PoolSizes, SubsetOfSize
<1>2. Loop!Cardinality(S) = InitialThreads
  BY <1>1, SameCount
<1>3. Loop!FirstWorkers \in SUBSET PoolThreads /\ Loop!Cardinality(Loop!FirstWorkers) = InitialThreads
  BY <1>2 DEF Loop!FirstWorkers
<1>4. Cardinality(Loop!FirstWorkers) = InitialThreads
  BY <1>3, SameCount
<1> QED
  BY <1>3, <1>4, PoolSizes

\* The count follows the workers: fewer of them, or one more.
LEMMA Count ==
  ASSUME Loop!EventLoopAssumption, NEW S \in SUBSET PoolThreads, NEW T \in SUBSET PoolThreads
  PROVE  /\ Cardinality(S) \in Nat /\ Cardinality({}) = 0
         /\ T \subseteq S => Cardinality(T) <= Cardinality(S)
         /\ \A w : T = S \cup {w} => Cardinality(T) <= Cardinality(S) + 1
<1>1. IsFiniteSet(S) /\ IsFiniteSet(T) /\ IsFiniteSet(PoolThreads)
  BY PoolSizes, FS_Subset
<1>2. Cardinality(S) \in Nat /\ Cardinality({}) = 0
  BY <1>1, FS_CardinalityType, FS_EmptySet
<1>3. T \subseteq S => Cardinality(T) <= Cardinality(S)
  BY <1>1, FS_Subset
<1>4. ASSUME NEW w, T = S \cup {w} PROVE Cardinality(T) <= Cardinality(S) + 1
  BY <1>1, <1>2, <1>4, FS_AddElement
<1> QED
  BY <1>2, <1>3, <1>4

\* Appending to the queue, and taking its first handler.
LEMMA QueueGrows ==
  ASSUME NEW h \in Loop!Handlers, queue \in Seq(Loop!Handlers), queue' = Append(queue, h)
  PROVE  /\ queue' \in Seq(Loop!Handlers)
         /\ \A t \in PoolTasks : t # h => Queued(t)' = Queued(t)
         /\ h \in PoolTasks /\ Queued(h) = {} => \E i : Queued(h)' = {i}
<1>1. /\ queue' \in Seq(Loop!Handlers) /\ Len(queue) \in Nat
      /\ DOMAIN queue = 1 .. Len(queue) /\ DOMAIN queue' = 1 .. Len(queue) + 1
      /\ \A i \in 1 .. Len(queue) : queue'[i] = queue[i]
      /\ queue'[Len(queue) + 1] = h
  OBVIOUS
<1>2. ASSUME NEW t \in PoolTasks, t # h PROVE Queued(t)' = Queued(t)
  BY <1>1, <1>2 DEF Queued
<1>3. ASSUME h \in PoolTasks, Queued(h) = {} PROVE Queued(h)' = {Len(queue) + 1}
  <2>1. \A i \in 1 .. Len(queue) : queue'[i] # h
    BY <1>1, <1>3 DEF Queued
  <2>2. \A i \in DOMAIN queue' : queue'[i] = h <=> i = Len(queue) + 1
    BY <1>1, <2>1
  <2>3. Len(queue) + 1 \in DOMAIN queue'
    BY <1>1
  <2> QED
    BY <2>2, <2>3 DEF Queued
<1> QED
  BY <1>1, <1>2, <1>3

LEMMA QueueTaken ==
  ASSUME queue \in Seq(Loop!Handlers), queue # <<>>, queue' = Tail(queue)
  PROVE  /\ queue' \in Seq(Loop!Handlers) /\ Head(queue) \in Loop!Handlers
         /\ 1 \in DOMAIN queue /\ Head(queue) = queue[1]
         /\ \A t \in PoolTasks : /\ Queued(t)' = {} => Queued(t) \subseteq {1}
                                 /\ Queued(t)' # {} => \E i \in Queued(t) : i # 1
                                 /\ (\A i, j \in Queued(t) : i = j) => \A i, j \in Queued(t)' : i = j
<1>1. /\ queue' \in Seq(Loop!Handlers) /\ Len(queue) \in Nat /\ Len(queue) >= 1
      /\ DOMAIN queue = 1 .. Len(queue) /\ DOMAIN queue' = 1 .. Len(queue) - 1
      /\ \A i \in 1 .. Len(queue) - 1 : queue'[i] = queue[i + 1]
      /\ Head(queue) = queue[1] /\ Head(queue) \in Loop!Handlers
  OBVIOUS
<1>2. ASSUME NEW t \in PoolTasks, NEW i \in Queued(t)' PROVE i \in Nat /\ i + 1 \in Queued(t) /\ i + 1 # 1
  <2>1. i \in 1 .. Len(queue) - 1 /\ queue'[i] = t
    BY <1>1, <1>2 DEF Queued
  <2>2. i + 1 \in 1 .. Len(queue) /\ queue[i + 1] = t
    BY <1>1, <2>1
  <2> QED
    BY <1>1, <2>1, <2>2 DEF Queued
<1>3. ASSUME NEW t \in PoolTasks, NEW i \in Queued(t), i # 1 PROVE Queued(t)' # {}
  <2>1. i \in 1 .. Len(queue) /\ queue[i] = t
    BY <1>1, <1>3 DEF Queued
  <2>2. i - 1 \in 1 .. Len(queue) - 1 /\ queue'[i - 1] = t
    BY <1>1, <1>3, <2>1
  <2> QED
    BY <1>1, <2>2 DEF Queued
<1>4. ASSUME NEW t \in PoolTasks, \A i, j \in Queued(t) : i = j, NEW i \in Queued(t)', NEW j \in Queued(t)'
      PROVE  i = j
  BY <1>2, <1>4
<1> QED
  BY <1>1, <1>2, <1>3, <1>4

-----------------------------------------------------------------------------

\* A loop that has just been started.
LEMMA LoopInit == ASSUME Loop!EventLoopAssumption, Loop!Init PROVE LInv
<1>0. Loop!FirstWorkers \in SUBSET PoolThreads /\ Cardinality(Loop!FirstWorkers) <= MaxThreads
  BY FirstWorkersFit
<1>1. Loop!TypeOK
  <2>1. /\ queue \in Seq(Loop!Handlers) /\ timers \subseteq Delayed /\ aborted \subseteq Delayed
        /\ slot \in [PoolThreads -> {"none", "active", "inactive"}]
        /\ worker \in [PoolThreads -> {"none", "idle", "task", "ping", "thrown", "logging", "exited"}]
        /\ job \in [PoolThreads -> Loop!Handlers \cup {NoPoolTask}]
        /\ leaving \subseteq PoolThreads /\ joined \in SUBSET PoolThreads
    BY DEF Loop!Init
  <2>2. starts \in 1 .. MaxStarts
    BY Loop!EventLoopAssumption DEF Loop!Init
  <2>3. /\ submit \in [PoolTasks -> {"none", "checked", "done"}]
        /\ fut \in [PoolTasks -> {"none", "pending"} \cup Loop!Settled]
    BY DEF Loop!Init
  <2>4. work \in BOOLEAN /\ running \in BOOLEAN /\ held \in BOOLEAN /\ terminated \in BOOLEAN
    BY DEF Loop!Init
  <2> QED
    BY <2>1, <2>2, <2>3, <2>4 DEF Loop!Init, Loop!TypeOK
<1>2. JobInv
  <2>1. NoPoolTask \notin PoolTasks /\ NoPoolTask \notin {"ping", "stale"}
    BY Loop!EventLoopAssumption
  <2> QED
    BY <2>1 DEF Loop!Init, JobInv
<1>3. PlaceInv
  <2>1. \A t \in PoolTasks : Queued(t) = {} /\ RunBy(t) = {}
    BY Loop!EventLoopAssumption DEF Loop!Init, Queued, RunBy
  <2> QED
    BY <2>1 DEF Loop!Init, PlaceInv, PlaceAt
<1>4. PoolInv
  <2>1. Loop!ActiveThreads = Loop!FirstWorkers
    BY <1>0 DEF Loop!Init, Loop!ActiveThreads
  <2> QED
    BY <1>0, <2>1, PoolCount DEF Loop!Init, PoolInv, Loop!MaxKept
<1> QED
  BY <1>1, <1>2, <1>3, <1>4 DEF LInv

\* Every step keeps the types.
LEMMA LoopTypes == ASSUME Loop!EventLoopAssumption, LInv, Loop!Next PROVE Loop!TypeOK'
<1> USE DEF LInv, Loop!TypeOK
<1>0. /\ {"ping", "stale"} \subseteq Loop!Handlers /\ PoolTasks \subseteq Loop!Handlers /\ NoPoolTask \notin PoolTasks
      /\ Delayed \subseteq PoolTasks /\ MaxStarts \in Nat
  BY Loop!EventLoopAssumption DEF Loop!Handlers
<1>1. ASSUME NEW t \in PoolTasks, Loop!asyncCall(t) PROVE Loop!TypeOK'
  BY <1>1 DEF Loop!asyncCall, Loop!io, Loop!pool, Loop!pinging, Loop!life, Loop!Settled
<1>2. ASSUME NEW t \in PoolTasks, Loop!Post(t) PROVE Loop!TypeOK'
  BY <1>0, <1>2, QueueGrows DEF Loop!Post, Loop!pool, Loop!pinging, Loop!life
<1>3. ASSUME NEW t \in PoolTasks, Loop!TimerEnds(t) PROVE Loop!TypeOK'
  BY <1>0, <1>3, QueueGrows DEF Loop!TimerEnds, Loop!pool, Loop!pinging, Loop!life, Loop!users
<1>4. ASSUME NEW w \in PoolThreads, Loop!TakeHandler(w) PROVE Loop!TypeOK'
  BY <1>0, <1>4, QueueTaken DEF Loop!TakeHandler, Loop!pinging, Loop!life, Loop!users
<1>5. ASSUME NEW w \in PoolThreads, Loop!FinishTask(w) PROVE Loop!TypeOK'
  <2>1. PICK o \in Loop!Settled : fut' = [fut EXCEPT ![job[w]] = o]
    BY <1>5 DEF Loop!FinishTask, Loop!Settled
  <2>2. fut' \in [PoolTasks -> {"none", "pending"} \cup Loop!Settled]
    BY <2>1
  <2> QED
    BY <1>0, <1>5, <2>2 DEF Loop!FinishTask, Loop!io, Loop!pinging, Loop!life
<1>6. ASSUME NEW w \in PoolThreads, Loop!mustTerminate(w) \/ Loop!PingReturns(w) PROVE Loop!TypeOK'
  BY <1>0, <1>6 DEF Loop!mustTerminate, Loop!PingReturns, Loop!SetPing, Loop!io, Loop!life,
         Loop!users
<1>7. ASSUME NEW w \in PoolThreads, Loop!setInactive(w) \/ Loop!LogCount(w) \/ Loop!WorkerQuits(w) PROVE Loop!TypeOK'
  <2>1. terminated' \in BOOLEAN
    BY <1>7 DEF Loop!setInactive, Loop!LogCount, Loop!WorkerQuits
  <2>2. /\ slot' \in [PoolThreads -> {"none", "active", "inactive"}]
        /\ worker' \in [PoolThreads -> {"none", "idle", "task", "ping", "thrown", "logging", "exited"}]
    BY <1>7 DEF Loop!setInactive, Loop!LogCount, Loop!WorkerQuits
  <2>3. UNCHANGED <<Loop!io, job, leaving, Loop!pinging, Loop!life, Loop!users>>
    BY <1>7 DEF Loop!setInactive, Loop!LogCount, Loop!WorkerQuits
  <2> QED
    BY <2>1, <2>2, <2>3 DEF Loop!io, Loop!pinging, Loop!life, Loop!users
<1>8. ASSUME Loop!PingPost PROVE Loop!TypeOK'
  BY <1>0, <1>8, QueueGrows DEF Loop!PingPost, Loop!pool, Loop!life, Loop!users
<1>9. ASSUME Loop!PingTimeout PROVE Loop!TypeOK'
  <2>1. queue' \in Seq(Loop!Handlers) /\ job' \in [PoolThreads -> Loop!Handlers \cup {NoPoolTask}]
    BY <1>0, <1>9 DEF Loop!PingTimeout, Loop!Stale
  <2> QED
    BY <1>9, <2>1 DEF Loop!PingTimeout, Loop!pool, Loop!life, Loop!users
<1>10. ASSUME Loop!launch \/ Loop!launchJoins \/ Loop!launchJoined \/ Loop!PingAnswered PROVE Loop!TypeOK'
  <2>1. CASE Loop!launch
    <3>1. PICK w \in PoolThreads \cup {CHOOSE v \in PoolThreads : slot[v] = "none"} :
            slot' = [slot EXCEPT ![w] = "active"] /\ worker' = [worker EXCEPT ![w] = "idle"]
      BY <2>1 DEF Loop!launch
    <3> QED
      BY <2>1, <3>1 DEF Loop!launch, Loop!io, Loop!life, Loop!users
  <2>2. CASE Loop!launchJoins \/ Loop!launchJoined \/ Loop!PingAnswered
    BY <2>2 DEF Loop!launchJoins, Loop!launchJoined, Loop!PingAnswered, Loop!io, Loop!pool,
           Loop!life, Loop!users
  <2> QED
    BY <1>10, <2>1, <2>2
<1>11. ASSUME Loop!Release \/ Loop!StopWork \/ Loop!StopIo PROVE Loop!TypeOK'
  <2>1. CASE Loop!Release
    BY <2>1 DEF Loop!Release, Loop!io, Loop!pool, Loop!pinging, Loop!users
  <2>2. CASE Loop!StopWork
    BY <2>2 DEF Loop!StopWork, Loop!io, Loop!pool, Loop!pinging, Loop!users
  <2>3. CASE Loop!StopIo
    BY <2>3 DEF Loop!StopIo, Loop!io, Loop!pool, Loop!pinging, Loop!users
  <2> QED
    BY <1>11, <2>1, <2>2, <2>3
<1>12. ASSUME Loop!joinAll \/ Loop!JoinReturns PROVE Loop!TypeOK'
  BY <1>12 DEF Loop!joinAll, Loop!JoinReturns, Loop!io, Loop!pinging, Loop!users
<1>13. ASSUME Loop!start PROVE Loop!TypeOK'
  BY <1>0, <1>13 DEF Loop!start, Loop!Started, Loop!users
<1>14. ASSUME Loop!Destroy PROVE Loop!TypeOK'
  BY <1>0, <1>14 DEF Loop!Destroy, Loop!pool, Loop!pinging, Loop!Settled
<1> QED
  BY <1>1, <1>2, <1>3, <1>4, <1>5, <1>6, <1>7, <1>8, <1>9, <1>10, <1>11, <1>12, <1>13, <1>14
     DEF Loop!Next, Loop!Worker, Loop!Pinger, Loop!Stopping

\* There is a slot for the worker that the ping thread adds, and no thread in it.
LEMMA LaunchFinds ==
  ASSUME Loop!EventLoopAssumption, LInv, Loop!launch
  PROVE  \E w \in PoolThreads : /\ slot[w] = "none" /\ worker[w] = "none"
                                /\ slot' = [slot EXCEPT ![w] = "active"]
                                /\ worker' = [worker EXCEPT ![w] = "idle"]
<1>1. \E v \in PoolThreads : slot[v] = "none"
  <2> SUFFICES ASSUME \A v \in PoolThreads : slot[v] # "none" PROVE FALSE
    OBVIOUS
  <2>1. Loop!ActiveThreads = PoolThreads
    BY DEF LInv, Loop!TypeOK, Loop!launch, Loop!ActiveThreads
  <2>2. /\ Cardinality(PoolThreads) \in Nat /\ MaxThreads \in Nat
        /\ MaxThreads <= Cardinality(PoolThreads)
    BY PoolSizes
  <2> QED
    BY <2>1, <2>2, PoolCount DEF LInv, PoolInv, Loop!launch
<1> DEFINE w == CHOOSE v \in PoolThreads : slot[v] = "none"
<1>2. w \in PoolThreads /\ slot[w] = "none"
  BY <1>1
<1>3. /\ slot' = [slot EXCEPT ![w] = "active"]
      /\ worker' = [worker EXCEPT ![w] = "idle"]
  BY DEF Loop!launch
<1> HIDE DEF w
<1>4. leaving = {}
  BY DEF LInv, PoolInv, Loop!launch
<1>5. worker[w] = "none"
  BY <1>2, <1>4 DEF LInv, PoolInv
<1> QED
  BY <1>2, <1>3, <1>5

\* stop() returns, and a loop starts again, with every worker out of its loop.
LEMMA AllOut ==
  ASSUME LInv, Loop!JoinReturns \/ stopper = "done"
  PROVE  \A w \in PoolThreads : worker[w] \in {"none", "exited"}
  BY DEF LInv, PoolInv, Loop!JoinReturns

\* A worker takes a handler when it starts one, and drops it when it ends.
LEMMA JobsKept == ASSUME Loop!EventLoopAssumption, LInv, Loop!Next PROVE JobInv'
<1> USE DEF LInv, Loop!TypeOK, JobInv
<1>0. /\ {"ping", "stale"} \cap PoolTasks = {} /\ NoPoolTask \notin PoolTasks /\ NoPoolTask \notin {"ping", "stale"}
      /\ Loop!Handlers = PoolTasks \cup {"ping", "stale"}
  BY Loop!EventLoopAssumption DEF Loop!Handlers
<1>1. CASE UNCHANGED <<worker, job>>
  BY <1>1
<1>2. ASSUME NEW t \in PoolTasks, Loop!asyncCall(t) \/ Loop!Post(t) \/ Loop!TimerEnds(t) PROVE UNCHANGED <<worker, job>>
  BY <1>2 DEF Loop!asyncCall, Loop!Post, Loop!TimerEnds, Loop!pool
<1>3. ASSUME NEW w \in PoolThreads, Loop!TakeHandler(w) PROVE JobInv'
  <2>1. PICK h \in Loop!Handlers : h = Head(queue)
    BY <1>3, QueueTaken DEF Loop!TakeHandler
  <2>2. /\ job' = [job EXCEPT ![w] = h]
        /\ worker' = [worker EXCEPT ![w] = IF h \in PoolTasks THEN "task" ELSE "ping"]
    BY <1>3, <2>1 DEF Loop!TakeHandler
  <2> QED
    BY <1>0, <2>2
<1>4. ASSUME NEW w \in PoolThreads, Loop!FinishTask(w) \/ Loop!PingReturns(w) \/ Loop!mustTerminate(w) PROVE JobInv'
  <2>1. PICK p \in {"idle", "thrown"} :
          job' = [job EXCEPT ![w] = NoPoolTask] /\ worker' = [worker EXCEPT ![w] = p]
    BY <1>4 DEF Loop!FinishTask, Loop!PingReturns, Loop!mustTerminate
  <2> QED
    BY <1>0, <2>1
<1>5. ASSUME NEW w \in PoolThreads, Loop!setInactive(w) \/ Loop!LogCount(w) \/ Loop!WorkerQuits(w) PROVE JobInv'
  BY <1>5 DEF Loop!setInactive, Loop!LogCount, Loop!WorkerQuits
<1>6. ASSUME Loop!PingTimeout PROVE JobInv'
  <2>1. worker' = worker /\ job' = [w \in PoolThreads |-> Loop!Stale(job[w])]
    BY <1>6 DEF Loop!PingTimeout
  <2> QED
    BY <1>0, <2>1 DEF Loop!Stale
<1>7. ASSUME Loop!launch PROVE JobInv'
  <2>1. job' = job
    BY <1>7 DEF Loop!launch
  <2> QED
    BY <1>7, <2>1, LaunchFinds
<1>8. ASSUME Loop!launchJoined PROVE JobInv'
  BY <1>8 DEF Loop!launchJoined
<1>9. ASSUME Loop!PingPost \/ Loop!launchJoins \/ Loop!PingAnswered \/ Loop!Release \/ Loop!StopWork \/ Loop!StopIo \/ Loop!Destroy \/ Loop!joinAll
      PROVE  UNCHANGED <<worker, job>>
  BY <1>9 DEF Loop!PingPost, Loop!launchJoins, Loop!PingAnswered, Loop!Release, Loop!StopWork,
         Loop!StopIo, Loop!Destroy, Loop!joinAll, Loop!pool
<1>10. ASSUME Loop!JoinReturns \/ Loop!start PROVE JobInv'
  <2>1. \A w \in PoolThreads : worker[w] \in {"none", "exited"} /\ worker'[w] \in {"none", "idle"}
    BY <1>10, AllOut DEF Loop!JoinReturns, Loop!start, Loop!Started
  <2>2. job' = job
    BY <1>10 DEF Loop!JoinReturns, Loop!start
  <2> QED
    BY <2>1, <2>2
<1> QED
  BY <1>1, <1>2, <1>3, <1>4, <1>5, <1>6, <1>7, <1>8, <1>9, <1>10
     DEF Loop!Next, Loop!Worker, Loop!Pinger, Loop!Stopping

\* Every step moves a task from one place to the next, or settles its future.
LEMMA PlacesKept == ASSUME Loop!EventLoopAssumption, LInv, Loop!Next PROVE PlaceInv'
<1> USE DEF LInv, Loop!TypeOK
<1>0. /\ {"ping", "stale"} \cap PoolTasks = {} /\ NoPoolTask \notin PoolTasks
      /\ Loop!Handlers = PoolTasks \cup {"ping", "stale"}
  BY Loop!EventLoopAssumption DEF Loop!Handlers
<1>1. ASSUME UNCHANGED <<submit, fut, timers>>,
             \A t \in PoolTasks : Queued(t)' = Queued(t) /\ RunBy(t)' = RunBy(t)
      PROVE  PlaceInv'
  BY <1>1 DEF PlaceInv, PlaceAt
<1>2. ASSUME UNCHANGED <<submit, fut, timers, queue, job>> PROVE PlaceInv'
  BY <1>1, <1>2 DEF Queued, RunBy
<1>3. ASSUME NEW t \in PoolTasks, Loop!asyncCall(t) PROVE PlaceInv'
  <2>1. \A x \in PoolTasks : Queued(x)' = Queued(x) /\ RunBy(x)' = RunBy(x)
    BY <1>3 DEF Loop!asyncCall, Loop!io, Loop!pool, Queued, RunBy
  <2>2. timers' = timers
    BY <1>3 DEF Loop!asyncCall, Loop!io
  <2>3. /\ submit[t] = "none" /\ \A x \in PoolTasks : x # t => submit'[x] = submit[x] /\ fut'[x] = fut[x]
        /\ \/ submit'[t] = "checked" /\ fut'[t] = "pending"
           \/ submit'[t] = "done" /\ fut'[t] = "refused"
    BY <1>3 DEF Loop!asyncCall
  <2> QED
    BY <2>1, <2>2, <2>3 DEF PlaceInv, PlaceAt
<1>4. ASSUME NEW t \in PoolTasks, Loop!Post(t) PROVE PlaceInv'
  <2>1. /\ fut' = fut /\ submit[t] = "checked" /\ submit'[t] = "done"
        /\ \A x \in PoolTasks : x # t => submit'[x] = submit[x]
        /\ \A x \in PoolTasks : RunBy(x)' = RunBy(x)
    BY <1>4 DEF Loop!Post, Loop!pool, RunBy
  <2>2. CASE t \in Delayed
    <3>1. timers' = timers \cup {t} /\ \A x \in PoolTasks : Queued(x)' = Queued(x)
      BY <1>4, <2>2 DEF Loop!Post, Queued
    <3> QED
      BY <2>1, <3>1 DEF PlaceInv, PlaceAt
  <2>3. CASE t \notin Delayed
    <3>1. timers' = timers /\ queue' = Append(queue, t)
      BY <1>4, <2>3 DEF Loop!Post
    <3>2. Queued(t) = {}
      BY <2>1 DEF PlaceInv, PlaceAt
    <3>3. (\A x \in PoolTasks : x # t => Queued(x)' = Queued(x)) /\ \E i : Queued(t)' = {i}
      BY <1>0, <3>1, <3>2, QueueGrows
    <3> QED
      BY <2>1, <3>1, <3>3, SMTT(30) DEF PlaceInv, PlaceAt
  <2> QED
    BY <2>2, <2>3
<1>5. ASSUME NEW t \in PoolTasks, Loop!TimerEnds(t) PROVE PlaceInv'
  <2>1. /\ UNCHANGED <<submit, fut>> /\ t \in timers /\ timers' = timers \ {t}
        /\ queue' = Append(queue, t) /\ \A x \in PoolTasks : RunBy(x)' = RunBy(x)
    BY <1>5 DEF Loop!TimerEnds, Loop!pool, Loop!users, RunBy
  <2>2. Queued(t) = {}
    BY <2>1 DEF PlaceInv, PlaceAt
  <2>3. (\A x \in PoolTasks : x # t => Queued(x)' = Queued(x)) /\ \E i : Queued(t)' = {i}
    BY <1>0, <2>1, <2>2, QueueGrows
  <2>4. PlaceAt(t)'
    BY <2>1, <2>3 DEF PlaceInv, PlaceAt
  <2>5. ASSUME NEW x \in PoolTasks, x # t PROVE PlaceAt(x)'
    BY <2>1, <2>3, <2>5 DEF PlaceInv, PlaceAt
  <2> QED
    BY <2>4, <2>5 DEF PlaceInv
<1>6. ASSUME NEW w \in PoolThreads, Loop!TakeHandler(w) PROVE PlaceInv'
  <2>1. PICK h \in Loop!Handlers : h = Head(queue)
    BY <1>6, QueueTaken DEF Loop!TakeHandler
  <2>2. /\ UNCHANGED <<submit, fut, timers>> /\ job' = [job EXCEPT ![w] = h]
        /\ queue # <<>> /\ queue' = Tail(queue) /\ worker[w] = "idle"
    BY <1>6, <2>1 DEF Loop!TakeHandler, Loop!users
  <2>3. /\ 1 \in DOMAIN queue /\ h = queue[1]
        /\ \A t \in PoolTasks : /\ Queued(t)' = {} => Queued(t) \subseteq {1}
                                /\ Queued(t)' # {} => \E i \in Queued(t) : i # 1
                                /\ (\A i, j \in Queued(t) : i = j) => \A i, j \in Queued(t)' : i = j
    BY <2>1, <2>2, QueueTaken
  <2>4. job[w] \notin PoolTasks
    BY <2>2 DEF JobInv
  <2>5. ASSUME NEW t \in PoolTasks, t # h
        PROVE  RunBy(t)' = RunBy(t) /\ (Queued(t)' = {} <=> Queued(t) = {})
    <3>1. RunBy(t)' = RunBy(t)
      BY <2>2, <2>4, <2>5 DEF RunBy
    <3>2. 1 \notin Queued(t)
      BY <2>3, <2>5 DEF Queued
    <3> QED
      BY <2>3, <3>1, <3>2
  <2>6. ASSUME h \in PoolTasks PROVE Queued(h)' = {} /\ RunBy(h)' = {w} /\ Queued(h) # {}
    <3>1. 1 \in Queued(h)
      BY <2>3 DEF Queued
    <3>2. Queued(h) = {1} /\ RunBy(h) = {}
      BY <2>6, <3>1 DEF PlaceInv, PlaceAt
    <3>3. Queued(h)' = {}
      BY <2>3, <2>6, <3>2
    <3>4. RunBy(h)' = {w}
      BY <2>2, <3>2 DEF RunBy
    <3> QED
      BY <3>2, <3>3, <3>4
  <2>7. ASSUME NEW t \in PoolTasks, t # h PROVE PlaceAt(t)'
    BY <2>2, <2>3, <2>5, <2>7 DEF PlaceInv, PlaceAt
  <2>8. ASSUME h \in PoolTasks PROVE PlaceAt(h)'
    BY <2>2, <2>6, <2>8 DEF PlaceInv, PlaceAt
  <2> QED
    BY <2>7, <2>8 DEF PlaceInv
<1>7. ASSUME NEW w \in PoolThreads, Loop!FinishTask(w) PROVE PlaceInv'
  <2>1. PICK t \in PoolTasks, o \in Loop!Settled :
          /\ t = job[w] /\ fut' = [fut EXCEPT ![t] = o] /\ job' = [job EXCEPT ![w] = NoPoolTask]
          /\ UNCHANGED <<submit, timers, queue>>
    BY <1>7 DEF Loop!FinishTask, JobInv, Loop!Settled, Loop!io
  <2>2. \A x \in PoolTasks : Queued(x)' = Queued(x)
    BY <2>1 DEF Queued
  <2>3. RunBy(t) = {w}
    BY <2>1 DEF RunBy, PlaceInv, PlaceAt
  <2>4. RunBy(t)' = {} /\ \A x \in PoolTasks : x # t => RunBy(x)' = RunBy(x)
    BY <1>0, <2>1, <2>3 DEF RunBy
  <2>5. fut'[t] = o /\ o \notin {"none", "pending"} /\ \A x \in PoolTasks : x # t => fut'[x] = fut[x]
    BY <2>1 DEF Loop!Settled
  <2>6. submit[t] # "checked" /\ t \notin timers /\ Queued(t) = {} /\ submit[t] # "none"
    BY <2>3 DEF PlaceInv, PlaceAt
  <2> QED
    BY <2>1, <2>2, <2>4, <2>5, <2>6 DEF PlaceInv, PlaceAt
<1>8. ASSUME NEW w \in PoolThreads, Loop!PingReturns(w) \/ Loop!mustTerminate(w) PROVE PlaceInv'
  <2>1. /\ job' = [job EXCEPT ![w] = NoPoolTask] /\ UNCHANGED <<submit, fut, timers, queue>>
        /\ worker[w] = "ping"
    BY <1>8 DEF Loop!PingReturns, Loop!mustTerminate, Loop!io, Loop!users
  <2>2. job[w] \notin PoolTasks
    BY <1>0, <2>1 DEF JobInv
  <2>3. \A t \in PoolTasks : Queued(t)' = Queued(t) /\ RunBy(t)' = RunBy(t)
    BY <1>0, <2>1, <2>2 DEF Queued, RunBy
  <2> QED
    BY <1>1, <2>1, <2>3
<1>9. ASSUME Loop!PingPost PROVE PlaceInv'
  <2>1. /\ UNCHANGED <<submit, fut, timers, job>>
        /\ queue' = queue \/ queue' = Append(queue, "ping")
    BY <1>9 DEF Loop!PingPost, Loop!pool, Loop!users
  <2>2. \A t \in PoolTasks : Queued(t)' = Queued(t) /\ RunBy(t)' = RunBy(t)
    <3>1. CASE queue' = queue
      BY <2>1, <3>1 DEF Queued, RunBy
    <3>2. CASE queue' = Append(queue, "ping")
      <4>1. \A t \in PoolTasks : Queued(t)' = Queued(t)
        BY <1>0, <3>2, QueueGrows
      <4> QED
        BY <2>1, <4>1 DEF RunBy
    <3> QED
      BY <2>1, <3>1, <3>2
  <2> QED
    BY <1>1, <2>1, <2>2
<1>10. ASSUME Loop!PingTimeout PROVE PlaceInv'
  <2>1. /\ UNCHANGED <<submit, fut, timers>> /\ queue' = [i \in DOMAIN queue |-> Loop!Stale(queue[i])]
        /\ job' = [w \in PoolThreads |-> Loop!Stale(job[w])]
    BY <1>10 DEF Loop!PingTimeout, Loop!users
  <2>2. \A h, t : t \in PoolTasks => (Loop!Stale(h) = t <=> h = t)
    BY <1>0 DEF Loop!Stale
  <2>3. \A t \in PoolTasks : Queued(t)' = Queued(t) /\ RunBy(t)' = RunBy(t)
    BY <2>1, <2>2 DEF Queued, RunBy
  <2> QED
    BY <1>1, <2>1, <2>3
<1>11. ASSUME Loop!Destroy PROVE PlaceInv'
  <2>1. /\ submit' = submit /\ timers' = {} /\ queue' = <<>> /\ job' = job
        /\ fut' = [t \in PoolTasks |-> IF t \in timers \cup Range(queue) THEN "broken" ELSE fut[t]]
    BY <1>11, SameCount DEF Loop!Destroy, Loop!pool
  <2>2. \A t \in PoolTasks : /\ Queued(t)' = {} /\ RunBy(t)' = RunBy(t)
                             /\ Queued(t) # {} <=> t \in Range(queue)
    BY <2>1 DEF Queued, RunBy, Range
  <2> QED
    BY <2>1, <2>2 DEF PlaceInv, PlaceAt
<1>12. ASSUME NEW w \in PoolThreads, Loop!setInactive(w) \/ Loop!LogCount(w) \/ Loop!WorkerQuits(w)
       PROVE  UNCHANGED <<submit, fut, timers, queue, job>>
  BY <1>12 DEF Loop!setInactive, Loop!LogCount, Loop!WorkerQuits, Loop!io, Loop!users
<1>13. ASSUME Loop!launch \/ Loop!launchJoins \/ Loop!launchJoined \/ Loop!PingAnswered \/ Loop!Release \/ Loop!StopWork \/ Loop!StopIo
       PROVE  UNCHANGED <<submit, fut, timers, queue, job>>
  BY <1>13 DEF Loop!launch, Loop!launchJoins, Loop!launchJoined, Loop!PingAnswered,
         Loop!Release, Loop!StopWork, Loop!StopIo, Loop!io, Loop!pool, Loop!users
<1>14. ASSUME Loop!joinAll \/ Loop!JoinReturns \/ Loop!start PROVE UNCHANGED <<submit, fut, timers, queue, job>>
  BY <1>14 DEF Loop!joinAll, Loop!JoinReturns, Loop!start, Loop!io, Loop!users
<1> QED
  BY <1>2, <1>3, <1>4, <1>5, <1>6, <1>7, <1>8, <1>9, <1>10, <1>11, <1>12, <1>13, <1>14
     DEF Loop!Next, Loop!Worker, Loop!Pinger, Loop!Stopping

\* The pool grows by one worker at a time, and only where the ping thread found room.
LEMMA PoolKept == ASSUME Loop!EventLoopAssumption, LInv, Loop!Next PROVE PoolInv'
<1> USE DEF LInv, Loop!TypeOK
<1>0. /\ Loop!ActiveThreads \in SUBSET PoolThreads /\ Loop!ActiveThreads' \in SUBSET PoolThreads
      /\ Loop!activeWorkerCount = Cardinality(Loop!ActiveThreads)
      /\ Loop!activeWorkerCount' = Cardinality(Loop!ActiveThreads')
      /\ Loop!activeWorkerCount \in Nat /\ MaxThreads \in Nat /\ Cardinality({}) = 0
  <2>1. Loop!ActiveThreads \in SUBSET PoolThreads /\ Loop!ActiveThreads' \in SUBSET PoolThreads
    BY DEF Loop!ActiveThreads
  <2>2. /\ Loop!activeWorkerCount = Cardinality(Loop!ActiveThreads)
        /\ Loop!activeWorkerCount' = Cardinality(Loop!ActiveThreads')
    BY SameCount DEF Loop!activeWorkerCount
  <2> QED
    BY <2>1, <2>2, Count, PoolSizes
<1>1. ASSUME Loop!ActiveThreads' \subseteq Loop!ActiveThreads
      PROVE  Loop!activeWorkerCount' \in Nat /\ Loop!activeWorkerCount' <= Loop!activeWorkerCount
  BY <1>0, <1>1, Count
<1>2. ASSUME NEW w \in PoolThreads, Loop!ActiveThreads' = Loop!ActiveThreads \cup {w},
             Loop!activeWorkerCount < MaxThreads
      PROVE  Loop!MaxKept'
  <2>1. /\ Cardinality(Loop!ActiveThreads') \in Nat
        /\ Cardinality(Loop!ActiveThreads') <= Cardinality(Loop!ActiveThreads) + 1
    BY <1>0, <1>2, Count
  <2> QED
    BY <1>0, <1>2, <2>1 DEF Loop!MaxKept
<1>3. ASSUME UNCHANGED <<slot, leaving, joined, pinger, stopper>>,
             \A w \in PoolThreads : worker'[w] # "none" => worker[w] # "none"
      PROVE  PoolInv'
  BY <1>3 DEF PoolInv, Loop!MaxKept, Loop!activeWorkerCount, Loop!ActiveThreads
<1>4. ASSUME NEW t \in PoolTasks, Loop!asyncCall(t) \/ Loop!Post(t) \/ Loop!TimerEnds(t) PROVE PoolInv'
  BY <1>3, <1>4 DEF Loop!asyncCall, Loop!Post, Loop!TimerEnds, Loop!pool, Loop!pinging, Loop!life
<1>5. ASSUME NEW w \in PoolThreads, Loop!TakeHandler(w) \/ Loop!FinishTask(w) PROVE PoolInv'
  BY <1>3, <1>5 DEF Loop!TakeHandler, Loop!FinishTask, Loop!pinging, Loop!life
<1>6. ASSUME NEW w \in PoolThreads, Loop!mustTerminate(w) \/ Loop!PingReturns(w) \/ Loop!LogCount(w) \/ Loop!WorkerQuits(w) PROVE PoolInv'
  BY <1>3, <1>6 DEF Loop!mustTerminate, Loop!PingReturns, Loop!LogCount, Loop!WorkerQuits, Loop!pinging, Loop!life
<1>7. ASSUME NEW w \in PoolThreads, Loop!setInactive(w) PROVE PoolInv'
  <2>1. CASE slot[w] = "none"
    BY <1>3, <1>7, <2>1 DEF Loop!setInactive, Loop!pinging, Loop!life
  <2>2. CASE slot[w] # "none"
    <3>1. /\ joined = {} /\ UNCHANGED <<leaving, joined, pinger, stopper>>
          /\ slot' = [slot EXCEPT ![w] = "inactive"]
          /\ \E next \in {"logging", "exited"} : worker' = [worker EXCEPT ![w] = next]
      BY <1>7, <2>2 DEF Loop!setInactive, Loop!Unlocked, Loop!pinging, Loop!life
    <3>2. Loop!activeWorkerCount' \in Nat /\ Loop!activeWorkerCount' <= Loop!activeWorkerCount
      BY <1>1, <3>1 DEF Loop!ActiveThreads
    <3>3. pinger # "join" /\ stopper \notin {"join", "done", "destroyed"}
      BY <2>2, <3>1 DEF PoolInv
    <3>4. \A v \in PoolThreads : worker'[v] # "none" => slot'[v] # "none" \/ v \in leaving'
      BY <2>2, <3>1 DEF PoolInv
    <3> QED
      BY <1>0, <3>1, <3>2, <3>3, <3>4 DEF PoolInv, Loop!MaxKept
  <2> QED
    BY <2>1, <2>2
<1>8. ASSUME Loop!PingPost \/ Loop!PingAnswered PROVE PoolInv'
  <2>1. /\ UNCHANGED <<slot, worker, leaving, joined, stopper>> /\ pinger' \in {"wait", "loop", "end"}
        /\ pinger \in {"loop", "wait"}
    BY <1>8 DEF Loop!PingPost, Loop!PingAnswered, Loop!pool, Loop!life
  <2> QED
    BY <2>1 DEF PoolInv, Loop!MaxKept, Loop!activeWorkerCount, Loop!ActiveThreads
<1>9. ASSUME Loop!PingTimeout PROVE PoolInv'
  <2>1. /\ UNCHANGED <<slot, worker, leaving, joined, stopper>> /\ pinger = "wait"
        /\ pinger' = IF Loop!activeWorkerCount >= MaxThreads THEN "loop" ELSE "launch"
    BY <1>9 DEF Loop!PingTimeout, Loop!life
  <2>2. Loop!activeWorkerCount' = Loop!activeWorkerCount
    BY <2>1 DEF Loop!activeWorkerCount, Loop!ActiveThreads
  <2>3. pinger' \in {"loop", "launch"} /\ (pinger' = "launch" => Loop!activeWorkerCount < MaxThreads)
    BY <1>0, <2>1
  <2> QED
    BY <2>1, <2>2, <2>3 DEF PoolInv, Loop!MaxKept
<1>10. ASSUME Loop!launch PROVE PoolInv'
  <2>1. PICK w \in PoolThreads : /\ slot[w] = "none" /\ worker[w] = "none"
                                 /\ slot' = [slot EXCEPT ![w] = "active"]
                                 /\ worker' = [worker EXCEPT ![w] = "idle"]
    BY <1>10, LaunchFinds
  <2>2. pinger = "launch" /\ pinger' = "loop" /\ UNCHANGED <<leaving, joined, stopper>>
    BY <1>10 DEF Loop!launch, Loop!life
  <2>3. Loop!ActiveThreads' = Loop!ActiveThreads \cup {w}
    BY <2>1 DEF Loop!ActiveThreads
  <2>4. Loop!MaxKept'
    BY <1>2, <2>2, <2>3 DEF PoolInv
  <2>5. \A v \in PoolThreads : worker'[v] # "none" => slot'[v] # "none" \/ v \in leaving'
    BY <2>1, <2>2 DEF PoolInv
  <2> QED
    BY <2>2, <2>4, <2>5 DEF PoolInv
<1>11. ASSUME Loop!launchJoins PROVE PoolInv'
  <2>1. /\ \E w \in PoolThreads : slot[w] = "inactive" /\ joined' = {w}
        /\ pinger = "launch" /\ pinger' = "join" /\ UNCHANGED <<slot, worker, leaving, stopper>>
    BY <1>11 DEF Loop!launchJoins, Loop!pool, Loop!life
  <2>2. Loop!activeWorkerCount' = Loop!activeWorkerCount
    BY <2>1 DEF Loop!activeWorkerCount, Loop!ActiveThreads
  <2> QED
    BY <2>1, <2>2 DEF PoolInv, Loop!MaxKept
<1>12. ASSUME Loop!launchJoined PROVE PoolInv'
  <2>1. PICK w \in PoolThreads : joined = {w} /\ slot[w] = "inactive"
    BY <1>12 DEF Loop!launchJoined, PoolInv
  <2>2. /\ pinger = "join" /\ pinger' = "loop" /\ joined' = {} /\ UNCHANGED <<leaving, stopper>>
        /\ slot' = [v \in PoolThreads |-> IF v = w THEN "active" ELSE slot[v]]
        /\ worker' = [v \in PoolThreads |-> IF v = w THEN "idle" ELSE worker[v]]
    BY <1>12, <2>1 DEF Loop!launchJoined, Loop!life
  <2>3. Loop!ActiveThreads' = Loop!ActiveThreads \cup {w}
    BY <2>2 DEF Loop!ActiveThreads
  <2>4. Loop!MaxKept'
    BY <1>2, <2>2, <2>3 DEF PoolInv
  <2>5. \A v \in PoolThreads : worker'[v] # "none" => slot'[v] # "none" \/ v \in leaving'
    BY <2>1, <2>2 DEF PoolInv
  <2> QED
    BY <2>2, <2>4, <2>5 DEF PoolInv
<1>13. ASSUME Loop!Release \/ Loop!StopWork \/ Loop!StopIo PROVE PoolInv'
  <2>1. /\ UNCHANGED <<slot, worker, leaving, joined, pinger>>
        /\ stopper' = stopper \/ (stopper \in {"none", "work"} /\ stopper' \in {"work", "io"})
    BY <1>13 DEF Loop!Release, Loop!StopWork, Loop!StopIo, Loop!pool, Loop!pinging
  <2>2. Loop!activeWorkerCount' = Loop!activeWorkerCount
    BY <2>1 DEF Loop!activeWorkerCount, Loop!ActiveThreads
  <2> QED
    BY <2>1, <2>2 DEF PoolInv, Loop!MaxKept
<1>14. ASSUME Loop!joinAll PROVE PoolInv'
  <2>1. /\ stopper = "io" /\ pinger = "end" /\ UNCHANGED <<worker, joined, pinger>>
        /\ leaving' = {w \in PoolThreads : slot[w] # "none"} /\ stopper' = "join"
        /\ slot' = [w \in PoolThreads |-> "none"]
    BY <1>14 DEF Loop!joinAll, Loop!pinging
  <2>2. Loop!activeWorkerCount' = 0
    <3>1. Loop!ActiveThreads' = {}
      BY <2>1 DEF Loop!ActiveThreads
    <3> QED
      BY <1>0, <3>1
  <2>3. \A v \in PoolThreads : worker'[v] # "none" => slot'[v] # "none" \/ v \in leaving'
    BY <2>1 DEF PoolInv
  <2> QED
    BY <1>0, <2>1, <2>2, <2>3 DEF PoolInv, Loop!MaxKept
<1>15. ASSUME Loop!JoinReturns PROVE PoolInv'
  <2>1. /\ stopper = "join" /\ stopper' = "done" /\ UNCHANGED <<slot, joined, pinger>>
        /\ leaving' = {} /\ worker' = [w \in PoolThreads |-> "none"]
    BY <1>15 DEF Loop!JoinReturns, Loop!pinging
  <2>2. Loop!activeWorkerCount' = Loop!activeWorkerCount
    BY <2>1 DEF Loop!activeWorkerCount, Loop!ActiveThreads
  <2> QED
    BY <2>1, <2>2 DEF PoolInv, Loop!MaxKept
<1>16. ASSUME Loop!start PROVE PoolInv'
  <2>1. /\ stopper = "done" /\ stopper' = "none" /\ UNCHANGED <<leaving, joined>> /\ pinger' = "loop"
        /\ slot' = [w \in PoolThreads |-> IF w \in Loop!FirstWorkers THEN "active" ELSE "none"]
        /\ worker' = [w \in PoolThreads |-> IF w \in Loop!FirstWorkers THEN "idle" ELSE "none"]
    BY <1>16 DEF Loop!start, Loop!Started
  <2>2. Loop!ActiveThreads' = Loop!FirstWorkers
    BY <2>1, FirstWorkersFit DEF Loop!ActiveThreads
  <2>3. Loop!MaxKept'
    BY <1>0, <2>2, FirstWorkersFit DEF Loop!MaxKept
  <2> QED
    BY <2>1, <2>3 DEF PoolInv
<1>17. ASSUME Loop!Destroy PROVE PoolInv'
  <2>1. /\ stopper = "done" /\ stopper' = "destroyed"
        /\ UNCHANGED <<slot, worker, leaving, joined, pinger>>
    BY <1>17 DEF Loop!Destroy, Loop!pool, Loop!pinging
  <2>2. Loop!activeWorkerCount' = Loop!activeWorkerCount
    BY <2>1 DEF Loop!activeWorkerCount, Loop!ActiveThreads
  <2> QED
    BY <2>1, <2>2 DEF PoolInv, Loop!MaxKept
<1> QED
  BY <1>4, <1>5, <1>6, <1>7, <1>8, <1>9, <1>10, <1>11, <1>12, <1>13, <1>14, <1>15, <1>16, <1>17
     DEF Loop!Next, Loop!Worker, Loop!Pinger, Loop!Stopping

\* Every step preserves the invariant.
LEMMA LoopNext ==
  ASSUME Loop!EventLoopAssumption PROVE LInv /\ [Loop!Next]_Loop!vars => LInv'
<1>1. ASSUME LInv, Loop!Next PROVE LInv'
  BY <1>1, LoopTypes, JobsKept, PlacesKept, PoolKept DEF LInv
<1>2. ASSUME LInv, UNCHANGED Loop!vars PROVE LInv'
  <2>1. /\ UNCHANGED <<work, running, queue, timers, aborted, slot, worker, job, leaving>>
        /\ UNCHANGED <<pinger, ping, joined, stopper, starts, held, submit, fut, terminated>>
    BY <1>2 DEF Loop!vars, Loop!io, Loop!pool, Loop!pinging, Loop!life, Loop!users
  <2>2. Loop!TypeOK' /\ JobInv'
    BY <1>2, <2>1 DEF LInv, Loop!TypeOK, JobInv
  <2>3. PlaceInv'
    BY <1>2, <2>1 DEF LInv, PlaceInv, PlaceAt, Queued, RunBy
  <2>4. PoolInv'
    BY <1>2, <2>1 DEF LInv, PoolInv, Loop!MaxKept, Loop!activeWorkerCount, Loop!ActiveThreads
  <2> QED
    BY <2>2, <2>3, <2>4 DEF LInv
<1> QED
  BY <1>1, <1>2

\* The inductive invariant of the event loop.
THEOREM LoopInvariant == ASSUME Loop!EventLoopAssumption PROVE Loop!Spec => []LInv
<1>1. Loop!Init => LInv
  BY LoopInit
<1>2. LInv /\ [Loop!Next]_Loop!vars => LInv'
  BY LoopNext
<1> QED
  BY <1>1, <1>2, PTL DEF Loop!Spec

\* The pool never has more workers than its maximum: what the ping thread reads before it
\* launches one is still true when it does, since nobody else adds workers.
THEOREM LoopMax ==
  ASSUME Loop!EventLoopAssumption PROVE Loop!Spec => []Loop!MaxKept
<1>1. LInv => Loop!MaxKept
  BY DEF LInv, PoolInv
<1> QED
  BY <1>1, LoopInvariant, PTL

\* No task is lost between asyncCall(), its timer, the queue and the workers, through stop()
\* and start().
THEOREM LoopNoneLost ==
  ASSUME Loop!EventLoopAssumption PROVE Loop!Spec => []Loop!NoneLost
<1>1. LInv => Loop!NoneLost
  <2> SUFFICES ASSUME LInv, NEW t \in PoolTasks, fut[t] = "pending" PROVE Loop!Somewhere(t)
    BY DEF Loop!NoneLost
  <2>1. submit[t] = "checked" \/ t \in timers \/ Queued(t) # {} \/ RunBy(t) # {}
    BY DEF LInv, PlaceInv, PlaceAt
  <2>2. \A w \in RunBy(t) : worker[w] = "task"
    BY DEF LInv, JobInv, RunBy
  <2> QED
    BY <2>1, <2>2 DEF Loop!Somewhere, Queued, RunBy
<1> QED
  BY <1>1, LoopInvariant, PTL

\* No callback is called twice, and no future of the loop is settled twice, also when the
\* loop is destroyed with handlers in its queue.
THEOREM LoopSettledOnce ==
  ASSUME Loop!EventLoopAssumption PROVE Loop!Spec => Loop!SettledOnce
<1>1. LInv /\ [Loop!Next]_Loop!vars => [\A t \in PoolTasks : fut[t] \in Loop!Settled => fut'[t] = fut[t]]_Loop!vars
  <2> SUFFICES ASSUME LInv, Loop!Next, NEW t \in PoolTasks, fut[t] \in Loop!Settled PROVE fut'[t] = fut[t]
    OBVIOUS
  <2>0. fut \in [PoolTasks -> {"none", "pending"} \cup Loop!Settled]
    BY DEF LInv, Loop!TypeOK
  <2>1. fut[t] \notin {"none", "pending"}
    BY DEF Loop!Settled
  <2>2. t \notin timers /\ Queued(t) = {} /\ RunBy(t) = {} /\ submit[t] # "none"
    BY <2>1 DEF LInv, PlaceInv, PlaceAt, Loop!TypeOK
  <2>3. ASSUME NEW x \in PoolTasks, Loop!asyncCall(x) PROVE fut'[t] = fut[t]
    BY <2>0, <2>2, <2>3 DEF Loop!asyncCall
  <2>4. ASSUME NEW w \in PoolThreads, Loop!FinishTask(w) PROVE fut'[t] = fut[t]
    <3>1. job[w] # t
      BY <2>2 DEF RunBy
    <3> QED
      BY <2>0, <2>4, <3>1 DEF Loop!FinishTask
  <2>5. ASSUME Loop!Destroy PROVE fut'[t] = fut[t]
    <3>1. t \notin Range(queue)
      BY <2>2 DEF Queued, Range
    <3> QED
      BY <2>2, <2>5, <3>1, SameCount DEF Loop!Destroy
  <2>6. ASSUME NEW x \in PoolTasks, Loop!Post(x) \/ Loop!TimerEnds(x) PROVE fut' = fut
    BY <2>6 DEF Loop!Post, Loop!TimerEnds, Loop!users
  <2>7. ASSUME NEW w \in PoolThreads,
               \/ Loop!TakeHandler(w) \/ Loop!mustTerminate(w) \/ Loop!PingReturns(w)
               \/ Loop!setInactive(w) \/ Loop!LogCount(w) \/ Loop!WorkerQuits(w)
        PROVE  fut' = fut
    BY <2>7 DEF Loop!TakeHandler, Loop!mustTerminate, Loop!PingReturns, Loop!setInactive,
           Loop!LogCount, Loop!WorkerQuits, Loop!users
  <2>8. ASSUME Loop!Pinger PROVE fut' = fut
    BY <2>8 DEF Loop!Pinger, Loop!PingPost, Loop!PingTimeout, Loop!launch, Loop!launchJoins,
           Loop!launchJoined, Loop!PingAnswered, Loop!users
  <2>9. ASSUME Loop!Stopping \/ Loop!Release \/ Loop!StopWork \/ Loop!start PROVE fut' = fut
    BY <2>9 DEF Loop!Stopping, Loop!StopIo, Loop!joinAll, Loop!JoinReturns, Loop!Release,
           Loop!StopWork, Loop!start, Loop!users
  <2> QED
    BY <2>3, <2>4, <2>5, <2>6, <2>7, <2>8, <2>9 DEF Loop!Next, Loop!Worker
<1> QED
  BY <1>1, LoopInvariant, PTL DEF Loop!Spec, Loop!SettledOnce

\* When stop() returns no worker runs a handler: joinAll() had taken all of them out of the
\* container, and the ping thread, which was joined first, adds none.
THEOREM LoopStopJoinsAll ==
  ASSUME Loop!EventLoopAssumption PROVE Loop!Spec => Loop!StopJoinsAll
<1>1. LInv /\ [Loop!Next]_Loop!vars =>
        [stopper = "join" /\ stopper' = "done"
           => \A w \in PoolThreads : worker[w] \in {"none", "exited"}]_Loop!vars
  <2> SUFFICES ASSUME LInv, Loop!Next, stopper = "join", stopper' = "done"
               PROVE  \A w \in PoolThreads : worker[w] \in {"none", "exited"}
    OBVIOUS
  <2>1. ASSUME NEW t \in PoolTasks, Loop!asyncCall(t) \/ Loop!Post(t) \/ Loop!TimerEnds(t) PROVE stopper' = stopper
    BY <2>1 DEF Loop!asyncCall, Loop!Post, Loop!TimerEnds, Loop!life
  <2>2. ASSUME NEW w \in PoolThreads, Loop!Worker(w) PROVE stopper' = stopper
    BY <2>2 DEF Loop!Worker, Loop!TakeHandler, Loop!FinishTask, Loop!mustTerminate,
           Loop!PingReturns, Loop!setInactive,
           Loop!LogCount, Loop!WorkerQuits, Loop!life
  <2>3. ASSUME Loop!Pinger PROVE stopper' = stopper
    BY <2>3 DEF Loop!Pinger, Loop!PingPost, Loop!PingTimeout, Loop!launch, Loop!launchJoins,
           Loop!launchJoined, Loop!PingAnswered, Loop!life
  <2>4. ASSUME Loop!Release \/ Loop!StopWork \/ Loop!StopIo \/ Loop!joinAll \/ Loop!start \/ Loop!Destroy PROVE FALSE
    BY <2>4 DEF Loop!Release, Loop!StopWork, Loop!StopIo, Loop!joinAll, Loop!start, Loop!Destroy
  <2>5. Loop!JoinReturns
    BY <2>1, <2>2, <2>3, <2>4 DEF Loop!Next, Loop!Stopping
  <2> QED
    BY <2>5, AllOut
<1> QED
  BY <1>1, LoopInvariant, PTL DEF Loop!Spec, Loop!StopJoinsAll

=============================================================================
