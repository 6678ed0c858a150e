---------------------------- MODULE PeriodicTask ----------------------------
(***************************************************************************)
(* qi::PeriodicTask (src/periodictask.cpp) on the event loop: a task that  *)
(* reschedules itself, started, triggered and stopped by other threads or  *)
(* by its own callback.                                                    *)
(*                                                                         *)
(* One action is one critical section of PeriodicTaskPrivate::_mutex, or   *)
(* one access made outside it.  Each _reschedule() gives the event loop a  *)
(* new task: its timer expires or is canceled, then a worker handles it.   *)
(***************************************************************************)
EXTENDS Integers, FiniteSets

CONSTANTS
    Workers,     \* threads of the event loop
    Callers,     \* threads that call start(), stop(), trigger() from outside
    Outside,     \* the calls each caller makes
    Nested,      \* the calls the callback makes
    CanThrow,    \* whether the callback may throw
    Tasks,       \* identities of the tasks given to the event loop, reused
    NoThread,    \* invalidThreadId
    NoTask,      \* no task
    MaxCalls     \* bound: how many calls are made

Calls == {"start", "stop", "asyncStop", "trigger"}
Threads == Workers \cup Callers

ASSUME PeriodicAssumption ==
    /\ NoThread \notin Threads /\ NoTask \notin Tasks /\ IsFiniteSet(Tasks)
    /\ Outside \in [Callers -> SUBSET Calls] /\ Nested \subseteq Calls
    /\ CanThrow \in BOOLEAN /\ MaxCalls \in Nat

VARIABLES
    state,     \* _state
    task,      \* _task: the task whose future it is
    tid,       \* _tid
    synchro,   \* _taskSynchro is not null
    phase,     \* of each task: its timer, its handler, its future
    tracked,   \* of each task: what has become of the synchronizer it tracks
    wrap,      \* where each thread stands in _wrap()
    exec,      \* the task each thread executes
    call,      \* where each thread stands in a call of the interface
    asleep,    \* the threads asleep on _cond
    calls,     \* number of calls made
    silenced,  \* history: a stop() that joined the tasks, found them joined, or was
               \* called by the callback has returned, and no start() was effective since
    returned,  \* history: any stop() has returned, and no start() was effective since
    wanted     \* history: start() was called, and no stop or exception came after it

taskVars == <<phase, tracked>>
wrapVars == <<wrap, exec>>
stopped == <<silenced, returned>>
historyVars == <<stopped, wanted>>
vars == <<state, task, tid, synchro, taskVars, wrapVars, call, asleep, calls, historyVars>>

Init ==
    /\ state = "Stopped"
    /\ task = NoTask
    /\ tid = NoThread
    /\ synchro = FALSE
    /\ phase = [k \in Tasks |-> "finished"]
    /\ tracked = [k \in Tasks |-> "gone"]
    /\ wrap = [t \in Threads |-> "none"]
    /\ exec = [t \in Threads |-> NoTask]
    /\ call = [t \in Threads |-> "none"]
    /\ asleep = {}
    /\ calls = 0
    /\ silenced = FALSE
    /\ returned = FALSE
    /\ wanted = FALSE

isRunning == state \notin {"Stopped", "Stopping"}

\* The threads that hold the synchronizer: track() locks it around _wrap().
Holders == {t \in Threads : exec[t] # NoTask}

\* The identities a new task may take: the future of the old one is finished.
FreeTasks == {k \in Tasks \ {task} : phase[k] = "finished" /\ k \notin {exec[t] : t \in Threads}}

\* A thread may call the interface: a caller, or the thread in the callback.
MayCall(t, name) ==
    /\ call[t] = "none"
    /\ \/ wrap[t] = "cb" /\ name \in Nested
       \/ wrap[t] = "none" /\ t \in Callers /\ name \in Outside[t]
    /\ calls < MaxCalls
    /\ calls' = calls + 1

-----------------------------------------------------------------------------
(***************************************************************************)
(* Faulty variants of the actions below, one per fault the properties are  *)
(* meant to catch.  Nothing in the specification uses them.                *)
(***************************************************************************)
\* Mutant of start: a task that is being stopped is taken for a stopped one.
startUnchecked(t) ==
    /\ MayCall(t, "start")
    /\ \A u \in Threads : call[u] \notin {"stopWait", "stopTid", "stopDrain"}
    /\ IF tid = t \/ isRunning
       THEN UNCHANGED <<state, task, synchro, taskVars, stopped>>
       ELSE /\ Holders = {}
            /\ synchro' = TRUE
            /\ silenced' = FALSE /\ returned' = FALSE
            /\ state' = "Scheduled"
            /\ \E k \in FreeTasks, first \in {"timer", "ready"} :
                  /\ task' = k
                  /\ phase' = [phase EXCEPT ![k] = first]
                  /\ tracked' = [tracked EXCEPT ![k] = "alive"]
    /\ wanted' = IF wrap[t] = "cb" THEN wanted ELSE TRUE
    /\ UNCHANGED <<tid, wrapVars, call, asleep>>

\* Mutant of stopChecksTid: stop() does not join the tasks.
stopWithoutJoin(t) ==
    /\ call[t] = "stopTid"
    /\ call' = [call EXCEPT ![t] = "none"]
    /\ silenced' = TRUE /\ returned' = TRUE
    /\ UNCHANGED <<synchro, tracked, state, task, tid, phase, wrapVars, asleep, calls, wanted>>

\* Mutant of triggerWakes: the task is not rescheduled.
triggerForgets(t) ==
    /\ call[t] = "triggerWait" /\ t \notin asleep
    /\ IF state = "Triggering"
       THEN asleep' = asleep \cup {t} /\ UNCHANGED call
       ELSE call' = [call EXCEPT ![t] = "none"] /\ UNCHANGED asleep
    /\ UNCHANGED <<state, task, tid, synchro, taskVars, wrapVars, calls, historyVars>>

\* Mutant of WrapBegins: nobody is notified.
WrapBeginsSilently(w) ==
    /\ wrap[w] = "begin"
    /\ IF state = "Stopping"
       THEN state' = "Stopped" /\ wrap' = [wrap EXCEPT ![w] = "returning"]
       ELSE state' = "Running" /\ wrap' = [wrap EXCEPT ![w] = "running"]
    /\ UNCHANGED <<task, tid, synchro, taskVars, exec, call, asleep, calls, historyVars>>

-----------------------------------------------------------------------------
(***************************************************************************)
(* _reschedule(): a task with a delay waits for its timer and its future   *)
(* can be canceled; a task without is posted at once.                      *)
(***************************************************************************)
Reschedule(delays) ==
    /\ \E k \in FreeTasks, delay \in delays :
          /\ task' = k
          /\ phase' = [phase EXCEPT ![k] = IF delay THEN "timer" ELSE "ready"]
          /\ tracked' = [tracked EXCEPT ![k] = "alive"]
    /\ state' = "Scheduled"

\* _task.cancel(): the timer's handler will be called with an error code, if
\* the timer has not expired.
CancelTask ==
    phase' = [k \in Tasks |-> IF k = task /\ phase[k] = "timer" THEN "aborted" ELSE phase[k]]

\* start(): the old synchronizer, if there is one, is destroyed first, which
\* waits for the threads that hold it.
start(t) ==
    /\ MayCall(t, "start")
    /\ \A u \in Threads : call[u] \notin {"stopWait", "stopTid", "stopDrain"}
    /\ IF tid = t \/ state # "Stopped"
       THEN UNCHANGED <<state, task, synchro, taskVars, stopped>>
       ELSE /\ Holders = {}
            /\ synchro' = TRUE
            /\ silenced' = FALSE /\ returned' = FALSE
            /\ Reschedule(BOOLEAN)
    /\ wanted' = IF wrap[t] = "cb" THEN wanted ELSE TRUE
    /\ UNCHANGED <<tid, wrapVars, call, asleep>>

\* The loop of asyncStop(), which ends in `next` or sleeps on _cond.
StopOrSleep(t, waiting, next) ==
    \/ /\ state \in {"Scheduled", "Running", "Stopping"}
       /\ state' = "Stopping"
       /\ CancelTask
       /\ call' = [call EXCEPT ![t] = next]
       /\ UNCHANGED asleep
    \/ /\ state = "Stopped"
       /\ call' = [call EXCEPT ![t] = next]
       /\ UNCHANGED <<state, phase, asleep>>
    \/ /\ state \in {"Triggering", "TriggerReady"}
       /\ call' = [call EXCEPT ![t] = waiting]
       /\ asleep' = asleep \cup {t}
       /\ UNCHANGED <<state, phase>>

asyncStop(t) ==
    /\ MayCall(t, "asyncStop")
    /\ StopOrSleep(t, "asyncStopWait", "none")
    /\ wanted' = FALSE
    /\ UNCHANGED <<task, tid, synchro, tracked, wrapVars, stopped>>

asyncStopWakes(t) ==
    /\ call[t] = "asyncStopWait" /\ t \notin asleep
    /\ StopOrSleep(t, "asyncStopWait", "none")
    /\ UNCHANGED <<task, tid, synchro, tracked, wrapVars, calls, historyVars>>

stop(t) ==
    /\ MayCall(t, "stop")
    /\ StopOrSleep(t, "stopWait", "stopTid")
    /\ wanted' = FALSE
    /\ UNCHANGED <<task, tid, synchro, tracked, wrapVars, stopped>>

stopWakes(t) ==
    /\ call[t] = "stopWait" /\ t \notin asleep
    /\ StopOrSleep(t, "stopWait", "stopTid")
    /\ UNCHANGED <<task, tid, synchro, tracked, wrapVars, calls, historyVars>>

\* stop() goes on: the callback's own thread returns, another joins the tasks.
\* It takes itself for the callback's thread if a callback that threw has left
\* _tid behind, and joins nothing if another stop() has taken the synchronizer.
stopChecksTid(t) ==
    /\ call[t] = "stopTid"
    /\ IF tid = t
       THEN /\ call' = [call EXCEPT ![t] = "none"]
            /\ silenced' = (silenced \/ wrap[t] = "cb")
            /\ returned' = TRUE
            /\ UNCHANGED <<synchro, tracked>>
       ELSE /\ call' = [call EXCEPT ![t] = IF synchro THEN "stopDrain" ELSE "none"]
            /\ synchro' = FALSE
            /\ tracked' = [k \in Tasks |-> IF tracked[k] = "alive" THEN "dying" ELSE tracked[k]]
            /\ silenced' = (silenced \/ (~synchro /\ \A u \in Threads : call[u] # "stopDrain"))
            /\ returned' = (returned \/ ~synchro)
    /\ UNCHANGED <<state, task, tid, phase, wrapVars, asleep, calls, wanted>>

\* ~TaskSynchronizer: destroy() returns when nobody holds it.
stopDrains(t) ==
    /\ call[t] = "stopDrain" /\ Holders = {}
    /\ call' = [call EXCEPT ![t] = "none"]
    /\ tracked' = [k \in Tasks |-> IF tracked[k] = "dying" THEN "gone" ELSE tracked[k]]
    /\ silenced' = TRUE /\ returned' = TRUE
    /\ UNCHANGED <<state, task, tid, synchro, phase, wrapVars, asleep, calls, wanted>>

trigger(t) ==
    /\ MayCall(t, "trigger")
    /\ IF state = "Scheduled"
       THEN /\ state' = "Triggering"
            /\ CancelTask
            /\ call' = [call EXCEPT ![t] = "triggerWait"]
            /\ asleep' = asleep \cup {t}
       ELSE UNCHANGED <<state, phase, call, asleep>>
    /\ UNCHANGED <<task, tid, synchro, tracked, wrapVars, historyVars>>

triggerWakes(t) ==
    /\ call[t] = "triggerWait" /\ t \notin asleep
    /\ IF state = "Triggering"
       THEN asleep' = asleep \cup {t} /\ UNCHANGED <<call, state, task, taskVars>>
       ELSE /\ call' = [call EXCEPT ![t] = "none"]
            /\ IF state = "TriggerReady" THEN Reschedule({FALSE})
                                         ELSE UNCHANGED <<state, task, taskVars>>
            /\ UNCHANGED asleep
    /\ UNCHANGED <<tid, synchro, wrapVars, calls, historyVars>>

-----------------------------------------------------------------------------
(***************************************************************************)
(* The event loop: timers, and the handlers invoke_maybe() calls.          *)
(***************************************************************************)
TimerExpires(k) ==
    /\ phase[k] = "timer"
    /\ phase' = [phase EXCEPT ![k] = "ready"]
    /\ UNCHANGED <<state, task, tid, synchro, tracked, wrapVars, call, asleep, calls, historyVars>>

IdleWorker(w) == wrap[w] = "none" /\ call[w] = "none"

\* track(): _wrap() is called if the synchronizer can be locked, which it can
\* while it exists or while somebody holds it.
Lock(w, k) ==
    /\ IdleWorker(w) /\ phase[k] = "ready"
    /\ tracked[k] = "alive" \/ (tracked[k] = "dying" /\ Holders # {})
    /\ phase' = [phase EXCEPT ![k] = "executing"]
    /\ exec' = [exec EXCEPT ![w] = k]
    /\ wrap' = [wrap EXCEPT ![w] = "begin"]
    /\ UNCHANGED <<state, task, tid, synchro, tracked, call, asleep, calls, historyVars>>

\* Otherwise the future is set in error, which _onTaskFinished() only logs.
LockFails(k) ==
    /\ phase[k] = "ready"
    /\ tracked[k] = "gone" \/ (tracked[k] = "dying" /\ Holders = {})
    /\ phase' = [phase EXCEPT ![k] = "finished"]
    /\ UNCHANGED <<state, task, tid, synchro, tracked, wrapVars, call, asleep, calls, historyVars>>

\* _onTaskFinished() of a canceled future.
onTaskFinished(k) ==
    /\ phase[k] = "aborted"
    /\ phase' = [phase EXCEPT ![k] = "finished"]
    /\ state' = CASE state = "Stopping" -> "Stopped"
                  [] state = "Triggering" -> "TriggerReady"
                  [] OTHER -> state
    /\ asleep' = {}
    /\ UNCHANGED <<task, tid, synchro, tracked, wrapVars, call, calls, historyVars>>

-----------------------------------------------------------------------------
(***************************************************************************)
(* _wrap().                                                                *)
(***************************************************************************)
WrapBegins(w) ==
    /\ wrap[w] = "begin"
    /\ IF state = "Stopping"
       THEN state' = "Stopped" /\ wrap' = [wrap EXCEPT ![w] = "returning"]
       ELSE state' = "Running" /\ wrap' = [wrap EXCEPT ![w] = "running"]
    /\ asleep' = {}
    /\ UNCHANGED <<task, tid, synchro, taskVars, exec, call, calls, historyVars>>

CallbackBegins(w) ==
    /\ wrap[w] = "running"
    /\ tid' = w
    /\ wrap' = [wrap EXCEPT ![w] = "cb"]
    /\ UNCHANGED <<state, task, synchro, taskVars, exec, call, asleep, calls, historyVars>>

CallbackReturns(w) ==
    /\ wrap[w] = "cb" /\ call[w] = "none"
    /\ tid' = NoThread
    /\ wrap' = [wrap EXCEPT ![w] = "called"]
    /\ UNCHANGED <<state, task, synchro, taskVars, exec, call, asleep, calls, historyVars>>

\* An exception skips the reset of _tid.
CallbackThrows(w) ==
    /\ CanThrow
    /\ wrap[w] = "cb" /\ call[w] = "none"
    /\ wrap' = [wrap EXCEPT ![w] = "thrown"]
    /\ UNCHANGED <<state, task, tid, synchro, taskVars, exec, call, asleep, calls, historyVars>>

WrapAborts(w) ==
    /\ wrap[w] = "thrown"
    /\ state' = "Stopped"
    /\ asleep' = {}
    /\ wrap' = [wrap EXCEPT ![w] = "returning"]
    /\ wanted' = FALSE
    /\ UNCHANGED <<task, tid, synchro, taskVars, exec, call, calls, stopped>>

WrapContinues(w) ==
    /\ wrap[w] = "called"
    /\ IF state # "Running"
       THEN state' = "Stopped" /\ asleep' = {} /\ UNCHANGED <<task, taskVars>>
       ELSE Reschedule(BOOLEAN) /\ UNCHANGED asleep
    /\ wrap' = [wrap EXCEPT ![w] = "returning"]
    /\ UNCHANGED <<tid, synchro, exec, call, calls, historyVars>>

\* The lock on the synchronizer is released and the future gets its value.
WrapReturns(w) ==
    /\ wrap[w] = "returning"
    /\ phase' = [phase EXCEPT ![exec[w]] = "finished"]
    /\ exec' = [exec EXCEPT ![w] = NoTask]
    /\ wrap' = [wrap EXCEPT ![w] = "none"]
    /\ UNCHANGED <<state, task, tid, synchro, tracked, call, asleep, calls, historyVars>>

-----------------------------------------------------------------------------
Wrap(w) ==
    \/ WrapBegins(w) \/ CallbackBegins(w) \/ CallbackReturns(w) \/ CallbackThrows(w)
    \/ WrapAborts(w) \/ WrapContinues(w) \/ WrapReturns(w)

Handle(k) == (\E w \in Workers : Lock(w, k)) \/ LockFails(k) \/ onTaskFinished(k)

GoOn(t) ==
    asyncStopWakes(t) \/ stopWakes(t) \/ stopChecksTid(t) \/ stopDrains(t) \/ triggerWakes(t)

Next ==
    \/ \E t \in Threads : start(t) \/ stop(t) \/ asyncStop(t) \/ trigger(t) \/ GoOn(t)
    \/ \E w \in Workers : Wrap(w)
    \/ \E k \in Tasks : TimerExpires(k) \/ Handle(k)

Spec == Init /\ [][Next]_vars

(***************************************************************************)
(* Threads that are not asleep go on, timers expire, the event loop calls  *)
(* the handlers it has, and the callback ends.                             *)
(***************************************************************************)
Fairness ==
    /\ \A t \in Threads : WF_vars(GoOn(t))
    /\ \A w \in Workers : WF_vars(Wrap(w))
    /\ \A k \in Tasks : WF_vars(TimerExpires(k)) /\ WF_vars(Handle(k))

FairSpec == Spec /\ Fairness
-----------------------------------------------------------------------------
(***************************************************************************)
(* Properties.                                                             *)
(***************************************************************************)
InWrap(t) == wrap[t] \notin {"none", "returning"}

\* The fields of PeriodicTaskPrivate, of its tasks and of the threads; a thread
\* holds the synchronizer exactly while it is in _wrap().
TypeOK ==
    /\ state \in {"Stopped", "Scheduled", "Running", "Stopping", "Triggering", "TriggerReady"}
    /\ task \in Tasks \cup {NoTask}
    /\ tid \in Workers \cup {NoThread}
    /\ synchro \in BOOLEAN /\ silenced \in BOOLEAN /\ returned \in BOOLEAN /\ wanted \in BOOLEAN
    /\ phase \in [Tasks -> {"timer", "ready", "aborted", "executing", "finished"}]
    /\ tracked \in [Tasks -> {"alive", "dying", "gone"}]
    /\ wrap \in [Threads -> {"none", "begin", "running", "cb", "called", "thrown", "returning"}]
    /\ exec \in [Threads -> Tasks \cup {NoTask}]
    /\ \A t \in Threads : exec[t] = NoTask <=> wrap[t] = "none"
    /\ call \in [Threads -> {"none", "asyncStopWait", "stopWait", "stopTid", "stopDrain",
                             "triggerWait"}]
    /\ asleep \subseteq Threads
    /\ calls \in Nat

\* The assertions of _onTaskFinished() and _wrap(): a task is canceled only by
\* stop() or trigger(), starts only when it is scheduled, triggered or being
\* stopped, and finds itself running or being stopped after the callback.
AssertionsHold ==
    /\ \A k \in Tasks : phase[k] = "aborted" => state \in {"Stopping", "Triggering"}
    /\ \A t \in Threads :
          /\ wrap[t] = "begin" => state \in {"Scheduled", "Triggering", "Stopping"}
          /\ wrap[t] = "called" => state \in {"Running", "Stopping"}

\* Whoever finds the task stopped finds nobody in _wrap() any more, so that
\* start() may wait for the old synchronizer while it holds _mutex.
StoppedIsQuiet == state = "Stopped" => \A t \in Threads : ~InWrap(t)

\* The callback is not called by two threads at once, although each call is a
\* task of its own on a pool of threads.
OneCallback == \A t, u \in Threads : (InWrap(t) /\ InWrap(u)) => t = u

\* stop(): "When this function returns, the callback will not be called
\* anymore" (until the next start()), whoever else stops the task meanwhile: so
\* it is when stop() has joined the tasks, when it found nothing to join and
\* nobody joining, and when the callback itself called it.
StopSilences ==
    [][silenced => \A t \in Threads : wrap'[t] = "cb" => wrap[t] = "cb"]_vars

\* The same of every stop(), which does not hold: see stopChecksTid.
StopAlwaysSilences ==
    [][returned => \A t \in Threads : wrap'[t] = "cb" => wrap[t] = "cb"]_vars

\* Every call of the interface returns.
CallsReturn == \A t \in Threads : call[t] # "none" ~> call[t] = "none"

\* A task that isRunning() calls its callback, and again after that, or is
\* stopped; neither a trigger() nor a canceled timer loses it.
RunningRuns == isRunning ~> (~isRunning \/ \E t \in Threads : wrap[t] = "cb")

\* start(): "Start the periodic task".  It then calls the callback, unless it
\* is stopped or the callback throws.
StartedRuns == wanted ~> (~wanted \/ \E t \in Threads : wrap[t] = "cb")
=============================================================================
