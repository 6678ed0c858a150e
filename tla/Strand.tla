------------------------------- MODULE Strand -------------------------------
(***************************************************************************)
(* qi::Strand and StrandPrivate (src/strand.cpp): tasks are queued under   *)
(* the strand's mutex and executed one after the other by process(), which *)
(* the strand posts to a multithreaded executor.                           *)
(*                                                                         *)
(* One action is one critical section of StrandPrivate::_mutex, or one     *)
(* access made outside it.  The threads are the executor's workers and the *)
(* user threads, which are anonymous: all they do is one critical section. *)
(***************************************************************************)
EXTENDS Integers, Sequences, FiniteSets, Functions, Queues

CONSTANTS
    Tasks,         \* tasks given to the strand, each at most once
    Delayed,       \* those given with a delay
    Posted,        \* those given to post(), which returns no future
    NeverSkip,     \* those with CancelOption::NeverSkipExecution
    Cancelable,    \* those whose future somebody may cancel
    Workers,       \* threads of the executor
    NoWorker,      \* 0, no thread's id
    NoTask         \* what a worker executes when it executes nothing

ASSUME TasksAssumption ==
    /\ IsFiniteSet(Tasks) /\ NoTask \notin Tasks
    /\ Delayed \subseteq Tasks /\ Posted \subseteq Tasks \ Delayed
    /\ NeverSkip \subseteq Tasks /\ Cancelable \subseteq Tasks \ Posted
ASSUME WorkersAssumption == IsFiniteSet(Workers) /\ NoWorker \notin Workers

VARIABLES
    queue,             \* _queue
    taskState,         \* Callback::state, "New" before createCallback
    result,            \* state of Callback::promise
    processing,        \* _processing
    processingThread,  \* _processingThread
    dying,             \* _dying
    joined,            \* joined
    aliveCount,        \* _aliveCount
    group,             \* promises in _deferredTasksFutures
    timers,            \* delayed tasks that are in the executor
    posted,            \* number of process() calls that are in the executor
    pc,                \* where each worker stands in process()
    job,               \* the task each worker executes
    cancels,           \* cancel callbacks taken by Future::cancel, not called yet
    cancelTaken,       \* tasks whose cancel callback has been taken
    held,              \* Strand::_p is not null
    alive,             \* the StrandPrivate object has not been destroyed
    joiner,            \* where the thread that called join() stands
    runs               \* history: how often each task has been executed

taskVars   == <<taskState, result, runs>>
cancelVars == <<cancels, cancelTaken>>
lifeVars   == <<dying, joined, held, alive, joiner>>
procVars   == <<pc, job, processingThread>>
vars == <<queue, taskVars, processing, procVars, aliveCount, group, timers,
          posted, cancelVars, lifeVars>>

Init ==
    /\ queue = <<>>
    /\ taskState = [c \in Tasks |-> "New"]
    /\ result = [c \in Tasks |-> "none"]
    /\ processing = FALSE
    /\ processingThread = NoWorker
    /\ dying = FALSE
    /\ joined = FALSE
    /\ aliveCount = 0
    /\ group = {}
    /\ timers = {}
    /\ posted = 0
    /\ pc = [w \in Workers |-> "idle"]
    /\ job = [w \in Workers |-> NoTask]
    /\ cancels = {}
    /\ cancelTaken = {}
    /\ held = TRUE
    /\ alive = TRUE
    /\ joiner = "none"
    /\ runs = [c \in Tasks |-> 0]

isInThisContext(w) == processingThread = w
Active == {w \in Workers : pc[w] # "idle"}

\* A setter of a promise that may be finished already: it changes nothing then.
SetIfPending(c, outcome) ==
    [result EXCEPT ![c] = IF @ = "pending" THEN outcome ELSE @]

-----------------------------------------------------------------------------
(***************************************************************************)
(* Faulty variants of the actions below, one per fault the properties are  *)
(* meant to catch.  Nothing in the specification uses them.                *)
(***************************************************************************)
\* Mutant of Schedule: process() is posted although somebody processes.
ScheduleAlwaysPosts(c) ==
    /\ queue' = Append(queue, c)
    /\ taskState' = [taskState EXCEPT ![c] = "Scheduled"]
    /\ processing' = TRUE
    /\ posted' = posted + 1
    /\ group' = group \ {c}

\* Mutant of stopProcess: process() is not posted again when the quantum has
\* expired.
stopProcessForgetsWork(w) ==
    /\ pc[w] = "stop"
    /\ pc' = [pc EXCEPT ![w] = "idle"]
    /\ processing' = FALSE
    /\ UNCHANGED <<queue, taskVars, processingThread, job, aliveCount, group,
                   timers, posted, cancelVars, lifeVars>>

\* Mutant of CancelScheduled: the task stays in the queue.
CancelScheduledKeepsQueued(c) ==
    /\ taskState[c] = "Scheduled"
    /\ IF c \in NeverSkip
       THEN /\ taskState' = [taskState EXCEPT ![c] = "Canceled"]
            /\ UNCHANGED <<result, aliveCount>>
       ELSE /\ result' = SetIfPending(c, "canceled")
            /\ aliveCount' = aliveCount - 1
            /\ UNCHANGED taskState
    /\ UNCHANGED queue

\* Mutant of DropTasks: the deferred tasks are forgotten, not set in error.
DropTasksForgetsDeferred(dropped) ==
    /\ result' = [c \in Tasks |->
                    IF c \in Range(queue) /\ result[c] = "pending" THEN "error" ELSE result[c]]
    /\ queue' = <<>>
    /\ group' = {}

\* Mutant of JoinReturn: join() does not wait.
JoinReturnAtOnce ==
    /\ joiner = "waiting"
    /\ joined' = TRUE
    /\ joiner' = "done"
    /\ UNCHANGED <<queue, taskVars, processing, procVars, aliveCount, group,
                   timers, posted, cancelVars, dying, held, alive>>

-----------------------------------------------------------------------------
(***************************************************************************)
(* enqueue(): push the task, and post process() if nobody processes.       *)
(***************************************************************************)
Schedule(c) ==
    /\ queue' = Append(queue, c)
    /\ taskState' = [taskState EXCEPT ![c] = "Scheduled"]
    /\ processing' = TRUE
    /\ IF processing
       THEN UNCHANGED <<posted, group>>
       ELSE /\ posted' = posted + 1
            /\ group' = group \ {c}

\* defer() without a delay, or async() outside the strand's context.
Defer(c) ==
    /\ c \notin Delayed \cup Posted
    /\ result[c] = "none"
    /\ IF ~held \/ dying
       THEN /\ result' = [result EXCEPT ![c] = "error"]
            /\ UNCHANGED <<queue, taskState, processing, posted, group, aliveCount>>
       ELSE /\ result' = [result EXCEPT ![c] = "pending"]
            /\ aliveCount' = aliveCount + 1
            /\ Schedule(c)
    /\ UNCHANGED <<runs, procVars, timers, cancelVars, lifeVars>>

\* defer() and async() with a delay: a timer of the executor will enqueue.
DeferDelayed(c) ==
    /\ c \in Delayed
    /\ result[c] = "none"
    /\ IF ~held \/ dying
       THEN /\ result' = [result EXCEPT ![c] = "error"]
            /\ UNCHANGED <<taskState, timers, group, aliveCount>>
       ELSE /\ result' = [result EXCEPT ![c] = "pending"]
            /\ taskState' = [taskState EXCEPT ![c] = "None"]
            /\ aliveCount' = aliveCount + 1
            /\ timers' = timers \cup {c}
            /\ group' = group \cup {c}
    /\ UNCHANGED <<queue, runs, processing, procVars, posted, cancelVars, lifeVars>>

(***************************************************************************)
(* Strand::postImpl: no future.  createCallback() counts the task without  *)
(* the mutex; only then does enqueue() take it, and drop the task if the   *)
(* strand is dying by now.  The caller may have loaded Strand::_p before a *)
(* join() swapped it out, and keeps the StrandPrivate alive until the end. *)
(***************************************************************************)
Post(c) ==
    /\ c \in Posted
    /\ result[c] = "none"
    /\ alive
    /\ aliveCount' = aliveCount + 1
    /\ result' = [result EXCEPT ![c] = "pending"]
    /\ taskState' = [taskState EXCEPT ![c] = "None"]
    /\ UNCHANGED <<queue, processing, posted, group, runs, procVars, timers,
                   cancelVars, lifeVars>>

Created(c) == c \in Posted /\ taskState[c] = "None" /\ result[c] = "pending"

Enqueue(c) ==
    /\ Created(c)
    /\ IF dying
       THEN /\ result' = [result EXCEPT ![c] = "error"]
            /\ UNCHANGED <<queue, taskState, processing, posted, group>>
       ELSE Schedule(c) /\ UNCHANGED result
    /\ UNCHANGED <<runs, procVars, aliveCount, timers, cancelVars, lifeVars>>

\* async() without a delay in the strand's context: executed at once, inside
\* the task that calls it.
ExecNow(w, c) ==
    /\ pc[w] = "run" /\ isInThisContext(w) /\ held
    /\ c \notin Delayed \cup Posted
    /\ result[c] = "none"
    /\ result' = [result EXCEPT ![c] = "done"]
    /\ runs' = [runs EXCEPT ![c] = @ + 1]
    /\ UNCHANGED <<queue, taskState, processing, procVars, aliveCount, group,
                   timers, posted, cancelVars, lifeVars>>

\* The timer of a delayed task calls enqueue(); a strand that is gone is not
\* called (track()).
TimerFires(c) ==
    /\ c \in timers
    /\ timers' = timers \ {c}
    /\ IF alive /\ ~dying /\ (taskState[c] = "None" \/ c \in NeverSkip)
       THEN Schedule(c) /\ UNCHANGED result
       ELSE /\ result' = IF alive /\ dying THEN SetIfPending(c, "error") ELSE result
            /\ UNCHANGED <<queue, taskState, processing, posted, group>>
    /\ UNCHANGED <<runs, procVars, aliveCount, cancelVars, lifeVars>>

\* cancel() has reached the timer before it fired.
TimerCanceled(c) ==
    /\ c \in timers /\ c \notin NeverSkip
    /\ taskState[c] = "Canceled"
    /\ timers' = timers \ {c}
    /\ UNCHANGED <<queue, taskVars, processing, procVars, aliveCount, group,
                   posted, cancelVars, lifeVars>>

-----------------------------------------------------------------------------
(***************************************************************************)
(* process().                                                              *)
(***************************************************************************)
StartProcess(w) ==
    /\ posted > 0 /\ pc[w] = "idle" /\ alive
    /\ posted' = posted - 1
    /\ processingThread' = w
    /\ pc' = [pc EXCEPT ![w] = "loop"]
    /\ UNCHANGED <<queue, taskVars, processing, job, aliveCount, group, timers,
                   cancelVars, lifeVars>>

\* The top of the loop, under the mutex.  `continue` and the end of the loop
\* body leave the loop if the quantum has expired.
PopDying(w) ==
    /\ pc[w] = "loop" /\ dying
    /\ pc' = [pc EXCEPT ![w] = "ended"]
    /\ UNCHANGED <<queue, taskVars, processing, processingThread, job, aliveCount,
                   group, timers, posted, cancelVars, lifeVars>>

PopEmpty(w) ==
    /\ pc[w] = "loop" /\ ~dying /\ queue = <<>>
    /\ processing' = FALSE
    /\ processingThread' = NoWorker
    /\ pc' = [pc EXCEPT ![w] = "idle"]
    /\ UNCHANGED <<queue, taskVars, job, aliveCount, group, timers, posted,
                   cancelVars, lifeVars>>

PopTask(w) ==
    /\ pc[w] = "loop" /\ ~dying /\ queue # <<>>
    /\ LET c == Head(queue)
       IN  IF taskState[c] = "Scheduled" \/ (taskState[c] = "Canceled" /\ c \in NeverSkip)
           THEN /\ aliveCount' = aliveCount - 1
                /\ taskState' = [taskState EXCEPT ![c] = "Running"]
                /\ runs' = [runs EXCEPT ![c] = @ + 1]
                /\ job' = [job EXCEPT ![w] = c]
                /\ pc' = [pc EXCEPT ![w] = "run"]
           ELSE /\ \E next \in {"loop", "ended"} : pc' = [pc EXCEPT ![w] = next]
                /\ UNCHANGED <<aliveCount, taskState, runs, job>>
    /\ queue' = Tail(queue)
    /\ UNCHANGED <<result, processing, processingThread, group, timers, posted,
                   cancelVars, lifeVars>>

\* The task returns or throws, and its promise is set.
FinishTask(w) ==
    /\ pc[w] = "run" /\ result[job[w]] = "pending"
    /\ result' = [result EXCEPT ![job[w]] = "done"]
    /\ \E next \in {"loop", "ended"} : pc' = [pc EXCEPT ![w] = next]
    /\ job' = [job EXCEPT ![w] = NoTask]
    /\ UNCHANGED <<queue, taskState, runs, processing, processingThread,
                   aliveCount, group, timers, posted, cancelVars, lifeVars>>

\* The promise is finished already: setValue throws, the handler's setError
\* throws again, and the exception leaves process() there and then.
EscapeTask(w) ==
    /\ pc[w] = "run" /\ result[job[w]] # "pending"
    /\ pc' = [pc EXCEPT ![w] = "idle"]
    /\ job' = [job EXCEPT ![w] = NoTask]
    /\ UNCHANGED <<queue, taskVars, processing, processingThread, aliveCount,
                   group, timers, posted, cancelVars, lifeVars>>

\* `_processingThread = 0;` after the loop, without the mutex.
EndProcess(w) ==
    /\ pc[w] = "ended"
    /\ processingThread' = NoWorker
    /\ pc' = [pc EXCEPT ![w] = "stop"]
    /\ UNCHANGED <<queue, taskVars, processing, job, aliveCount, group, timers,
                   posted, cancelVars, lifeVars>>

stopProcess(w) ==
    /\ pc[w] = "stop"
    /\ pc' = [pc EXCEPT ![w] = IF dying THEN "idle" ELSE "repost"]
    /\ processing' = ~dying
    /\ UNCHANGED <<queue, taskVars, processingThread, job, aliveCount, group,
                   timers, posted, cancelVars, lifeVars>>

\* `lock.unlock(); _executor.async(track(process));`
Repost(w) ==
    /\ pc[w] = "repost"
    /\ posted' = posted + 1
    /\ pc' = [pc EXCEPT ![w] = "idle"]
    /\ UNCHANGED <<queue, taskVars, processing, processingThread, job, aliveCount,
                   group, timers, cancelVars, lifeVars>>

-----------------------------------------------------------------------------
(***************************************************************************)
(* Future::cancel takes the cancel callback if the future is unfinished,   *)
(* then calls StrandPrivate::cancel (unless the strand is gone).           *)
(***************************************************************************)
FutureCancel(c) ==
    /\ c \in Cancelable \ cancelTaken
    /\ taskState[c] # "New" /\ result[c] = "pending"
    /\ cancels' = cancels \cup {c}
    /\ cancelTaken' = cancelTaken \cup {c}
    /\ UNCHANGED <<queue, taskVars, processing, procVars, aliveCount, group,
                   timers, posted, lifeVars>>

CancelDying(c) ==
    /\ result' = SetIfPending(c, "error")
    /\ UNCHANGED <<queue, taskState, aliveCount>>

CancelNone(c) ==
    /\ taskState[c] = "None"
    /\ taskState' = [taskState EXCEPT ![c] = "Canceled"]
    /\ IF c \in NeverSkip
       THEN UNCHANGED <<result, aliveCount>>
       ELSE result' = SetIfPending(c, "canceled") /\ aliveCount' = aliveCount - 1
    /\ UNCHANGED queue

CancelScheduled(c) ==
    /\ taskState[c] = "Scheduled"
    /\ IF c \in NeverSkip
       THEN /\ taskState' = [taskState EXCEPT ![c] = "Canceled"]
            /\ UNCHANGED <<queue, result, aliveCount>>
       ELSE /\ queue' = Erase(queue, c)
            /\ result' = SetIfPending(c, "canceled")
            /\ aliveCount' = aliveCount - 1
            /\ UNCHANGED taskState

CancelTooLate(c) ==
    /\ taskState[c] \notin {"None", "Scheduled"}
    /\ UNCHANGED <<queue, taskState, result, aliveCount>>

cancel(c) ==
    /\ c \in cancels
    /\ cancels' = cancels \ {c}
    /\ \/ ~alive /\ UNCHANGED <<queue, taskState, result, aliveCount>>
       \/ alive /\ dying /\ CancelDying(c)
       \/ alive /\ ~dying /\ (CancelNone(c) \/ CancelScheduled(c) \/ CancelTooLate(c))
    /\ UNCHANGED <<runs, processing, procVars, group, timers, posted, cancelTaken,
                   lifeVars>>

-----------------------------------------------------------------------------
(***************************************************************************)
(* join(): from inside a task it only marks the strand as dying; from any  *)
(* other thread it drops every task and waits for process() to stop.  The  *)
(* promises of the queued and of the deferred tasks are set in error; that *)
(* of a queued NeverSkip task which is canceled is broken by the clearing  *)
(* of the queue, to the same effect.                                       *)
(***************************************************************************)
DropTasks(dropped) ==
    /\ result' = [c \in Tasks |->
                    IF c \in dropped /\ result[c] = "pending" THEN "error" ELSE result[c]]
    /\ queue' = <<>>
    /\ group' = {}

JoinInTask(w) ==
    /\ pc[w] = "run" /\ isInThisContext(w) /\ held
    /\ held' = FALSE
    /\ dying' = TRUE
    /\ UNCHANGED <<queue, taskVars, processing, procVars, aliveCount, group,
                   timers, posted, cancelVars, joined, alive, joiner>>

Join ==
    /\ held
    /\ held' = FALSE
    /\ dying' = TRUE
    /\ DropTasks(group \cup Range(queue))
    /\ joiner' = "waiting"
    /\ UNCHANGED <<taskState, runs, processing, procVars, aliveCount, timers,
                   posted, cancelVars, joined, alive>>

JoinReturn ==
    /\ joiner = "waiting" /\ ~processing
    /\ joined' = TRUE
    /\ joiner' = "done"
    /\ UNCHANGED <<queue, taskVars, processing, procVars, aliveCount, group,
                   timers, posted, cancelVars, dying, held, alive>>

\* The last reference goes: ~StrandPrivate joins a strand that was not joined.
\* An exception may have left a thread marked as processing although it has left
\* process(): if the reference goes on that thread, the join returns at once.
Destroy ==
    /\ alive /\ ~held /\ joiner # "waiting" /\ Active = {}
    /\ \A c \in Tasks : ~Created(c)
    /\ alive' = FALSE
    /\ IF joined
       THEN UNCHANGED <<queue, result, group, dying, joiner>>
       ELSE /\ dying' = TRUE
            /\ \/ DropTasks(group \cup Range(queue)) /\ joiner' = "waiting"
               \/ processingThread # NoWorker /\ DropTasks(group) /\ UNCHANGED joiner
    /\ UNCHANGED <<taskState, runs, processing, procVars, aliveCount, timers,
                   posted, cancelVars, joined, held>>

-----------------------------------------------------------------------------
Process(w) ==
    \/ StartProcess(w) \/ PopDying(w) \/ PopEmpty(w) \/ PopTask(w)
    \/ FinishTask(w) \/ EscapeTask(w) \/ EndProcess(w) \/ stopProcess(w) \/ Repost(w)

Submit(c) == Defer(c) \/ DeferDelayed(c) \/ Post(c)

Next ==
    \/ \E w \in Workers : Process(w) \/ JoinInTask(w) \/ (\E c \in Tasks : ExecNow(w, c))
    \/ \E c \in Tasks : \/ Submit(c) \/ Enqueue(c) \/ TimerFires(c) \/ TimerCanceled(c)
                        \/ FutureCancel(c) \/ cancel(c)
    \/ Join \/ JoinReturn \/ Destroy

Spec == Init /\ [][Next]_vars

(***************************************************************************)
(* The executor runs what it is given, tasks return, a thread in post() or *)
(* in cancel() goes on, join() returns once it may, the last reference is  *)
(* dropped.  Nothing forces a user to submit, cancel or join.              *)
(***************************************************************************)
Fairness ==
    /\ \A w \in Workers : WF_vars(Process(w))
    /\ \A c \in Tasks : WF_vars(Enqueue(c)) /\ WF_vars(TimerFires(c)) /\ WF_vars(cancel(c))
    /\ WF_vars(JoinReturn)
    /\ WF_vars(Destroy)

FairSpec == Spec /\ Fairness
-----------------------------------------------------------------------------
(***************************************************************************)
(* Properties.                                                             *)
(***************************************************************************)

\* The fields of StrandPrivate, of its callbacks and of its worker threads.
TypeOK ==
    /\ queue \in Seq(Tasks)
    /\ taskState \in [Tasks -> {"New", "None", "Scheduled", "Running", "Canceled"}]
    /\ result \in [Tasks -> {"none", "pending", "done", "error", "canceled"}]
    /\ processing \in BOOLEAN
    /\ processingThread \in Workers \cup {NoWorker}
    /\ dying \in BOOLEAN /\ joined \in BOOLEAN /\ held \in BOOLEAN /\ alive \in BOOLEAN
    /\ aliveCount \in Int
    /\ group \subseteq Delayed
    /\ timers \subseteq Delayed
    /\ posted \in Nat
    /\ pc \in [Workers -> {"idle", "loop", "run", "ended", "stop", "repost"}]
    /\ job \in [Workers -> Tasks \cup {NoTask}]
    /\ cancels \subseteq Tasks
    /\ cancelTaken \subseteq Tasks
    /\ joiner \in {"none", "waiting", "done"}
    /\ runs \in [Tasks -> Nat]

\* "two callback will never be called concurrently" (qi/strand.hpp), whatever
\* worker process() is posted to: _processing guards the executions.
Serial ==
    \A v, w \in Workers : (pc[v] = "run" /\ pc[w] = "run") => v = w

\* When a join() that waited has returned, no task is being executed, and none
\* is executed from then on.
JoinSilences ==
    [][joined => /\ \A w \in Workers : pc[w] # "run"
                 /\ UNCHANGED runs]_vars

\* A canceled task is neither executed before the cancel nor after it, and no
\* task is executed twice, a canceled NeverSkip task that its timer enqueues
\* again included.
CanceledNotRun ==
    \A c \in Tasks : runs[c] <= 1 /\ (result[c] = "canceled" => runs[c] = 0)

\* What join() and cancel() assert about the queue: a queued task is scheduled
\* or was canceled without being skipped, and a scheduled task whose future is
\* unfinished is in the queue, once.
QueueStates ==
    /\ IsInjective(queue)
    /\ \A c \in Range(queue) :
          taskState[c] = "Scheduled" \/ (taskState[c] = "Canceled" /\ c \in NeverSkip)
    /\ \A c \in Tasks : (taskState[c] = "Scheduled" /\ result[c] = "pending" /\ alive)
                            => c \in Range(queue)

\* _aliveCount counts the tasks that createCallback() made, a posted one that
\* enqueue() has not queued yet included, and that were neither started nor
\* canceled, until the strand dies ("cancel() already has done --_aliveCount").
AliveCountExact ==
    ~dying => aliveCount = Cardinality({c \in Tasks :
        result[c] = "pending" /\ taskState[c] \in {"None", "Scheduled", "Canceled"}})

\* Every task that was accepted is settled, or the strand is dying.
TasksServed == \A c \in Tasks : (result[c] = "pending") ~> (result[c] # "pending" \/ dying)

\* NeverSkipExecution: "the execution context must still execute the task"
\* (qi/detail/executioncontext.hpp), although its future is canceled.
NeverSkipRuns ==
    \A c \in NeverSkip : (result[c] = "pending") ~> (runs[c] = 1 \/ dying)

\* join(): "This will wait for currently running tasks to finish", and return.
JoinReturns == (joiner = "waiting") ~> (joiner = "done")

\* join() from outside: "All the returned futures will be set to error", or are
\* set by then, those of the delayed tasks whose timers still run included.
JoinSettles == \A c \in Tasks : (joiner = "waiting") ~> (result[c] # "pending")
=============================================================================
