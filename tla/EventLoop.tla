----------------------------- MODULE EventLoop -----------------------------
(***************************************************************************)
(* qi::EventLoop on boost::asio (src/eventloop.cpp): a queue of handlers,  *)
(* a pool of worker threads that run them, and the ping thread, which adds *)
(* a worker when a handler waits for too long and has idle ones terminated.*)
(*                                                                         *)
(* One action is one critical section of WorkerThreadPool::_workers, or    *)
(* one access made outside it.  Time is abstract: any wait may be too long.*)
(***************************************************************************)
EXTENDS Integers, Sequences, FiniteSets, Functions

CONSTANTS
  Threads,     \* identities of worker threads, reused once joined
  Tasks,       \* callbacks given to async() or post(), each at most once
  Delayed,     \* those given with a delay
  WaitsFor,    \* the task whose future a task waits for, or NoTask
  NoTask,      \* no task
  InitialThreads, MinThreads, MaxThreads,
  MaxPings,    \* bound: pings in the queue, beyond which one is not added
  MaxStarts    \* bound: how often the event loop is started

ASSUME EventLoopAssumption ==
  /\ IsFiniteSet(Threads) /\ IsFiniteSet(Tasks)
  /\ NoTask \notin Tasks /\ Delayed \subseteq Tasks
  /\ WaitsFor \in [Tasks -> Tasks \cup {NoTask}]
  /\ {"ping", "stale"} \cap (Tasks \cup {NoTask}) = {}
  /\ InitialThreads \in Nat /\ MinThreads \in Nat /\ MaxThreads \in Nat
  /\ MinThreads <= InitialThreads /\ InitialThreads <= MaxThreads
  /\ MaxThreads <= Cardinality(Threads)
  /\ MaxPings \in Nat /\ MaxStarts \in Nat \ {0}

VARIABLES
  work,       \* _work is not null
  running,    \* the io_service is not stopped
  queue,      \* its handlers that are ready, in order
  timers,     \* delayed tasks whose timer is armed
  aborted,    \* delayed tasks whose timer was canceled
  slot,       \* thread -> its ThreadData: "none", "active" or "inactive"
  worker,     \* thread -> where it is in runWorkerLoop
  job,        \* thread -> the handler it runs
  leaving,    \* the threads joinAll() took out of the container
  pinger,     \* where the ping thread is in runPingLoop
  ping,       \* the future of the last ping
  joined,     \* the thread launchN() joins, with the container locked
  stopper,    \* where stop() is
  starts,     \* how often start() was called
  held,       \* EventLoop::_p is not null
  submit,     \* task -> where its caller is in asyncCall()
  fut,        \* task -> its future
  terminated  \* an exception has left a thread: std::terminate

pool == <<slot, worker, job, leaving>>
pinging == <<pinger, ping, joined>>
io == <<work, running, queue, timers, aborted>>
life == <<stopper, starts, held>>
users == <<submit, fut>>
vars == <<io, pool, pinging, life, users, terminated>>

Handlers == Tasks \cup {"ping", "stale"}
Settled == {"value", "error", "canceled", "broken", "refused"}

\* The mutex of the container is free: launchN() joins a thread while it has it.
Unlocked == joined = {}

ActiveThreads == {w \in Threads : slot[w] = "active"}
activeWorkerCount == Cardinality(ActiveThreads)

Pings == {i \in DOMAIN queue : queue[i] \notin Tasks}

\* A task that waits for the future of another one.
Blocked(w) ==
  /\ worker[w] = "task" /\ WaitsFor[job[w]] # NoTask
  /\ fut[WaitsFor[job[w]]] \notin Settled

TypeOK ==
  /\ work \in BOOLEAN /\ running \in BOOLEAN /\ held \in BOOLEAN
  /\ queue \in Seq(Handlers)
  /\ timers \subseteq Delayed /\ aborted \subseteq Delayed
  /\ slot \in [Threads -> {"none", "active", "inactive"}]
  /\ worker \in [Threads -> {"none", "idle", "task", "ping", "thrown", "logging", "exited"}]
  /\ job \in [Threads -> Handlers \cup {NoTask}]
  /\ leaving \subseteq Threads
  /\ pinger \in {"loop", "wait", "launch", "join", "end"}
  /\ ping \in {"none", "running", "ok", "terminated"}
  /\ joined \in SUBSET Threads
  /\ stopper \in {"none", "work", "io", "join", "done", "destroyed"}
  /\ starts \in 1 .. MaxStarts
  /\ submit \in [Tasks -> {"none", "checked", "done"}]
  /\ fut \in [Tasks -> {"none", "pending"} \cup Settled]
  /\ terminated \in BOOLEAN

\* start() launches the first workers, and the ping thread.
Started(S) ==
  /\ work' = TRUE /\ running' = TRUE
  /\ slot' = [w \in Threads |-> IF w \in S THEN "active" ELSE "none"]
  /\ worker' = [w \in Threads |-> IF w \in S THEN "idle" ELSE "none"]
  /\ pinger' = "loop" /\ ping' = "none"

FirstWorkers == CHOOSE S \in SUBSET Threads : Cardinality(S) = InitialThreads

Init ==
  /\ work = TRUE /\ running = TRUE
  /\ queue = <<>> /\ timers = {} /\ aborted = {}
  /\ slot = [w \in Threads |-> IF w \in FirstWorkers THEN "active" ELSE "none"]
  /\ worker = [w \in Threads |-> IF w \in FirstWorkers THEN "idle" ELSE "none"]
  /\ job = [w \in Threads |-> NoTask] /\ leaving = {}
  /\ pinger = "loop" /\ ping = "none" /\ joined = {}
  /\ stopper = "none" /\ starts = 1 /\ held = TRUE
  /\ submit = [t \in Tasks |-> "none"] /\ fut = [t \in Tasks |-> "none"]
  /\ terminated = FALSE

-----------------------------------------------------------------------------
(* Faulty variants of operations below, each of which breaks a property.   *)

\* A worker goes back into io_service::run() after it was stopped.
WorkerRunsAgain(w) ==
  /\ worker[w] = "idle" /\ ~work /\ queue = <<>> /\ timers = {}
  /\ \A v \in Threads : worker[v] \notin {"task", "ping"}
  /\ worker' = [worker EXCEPT ![w] = "exited"]
  /\ UNCHANGED <<io, slot, job, leaving, pinging, life, users, terminated>>

\* The pool grows up to the minimum only.
PingTimeoutAtMin ==
  /\ pinger = "wait" /\ ping = "running" /\ Unlocked
  /\ pinger' = IF activeWorkerCount >= MinThreads THEN "loop" ELSE "launch"
  /\ ping' = "none"
  /\ UNCHANGED <<io, pool, joined, life, users, terminated>>

\* An armed timer and its promise keep each other alive.
DestroyLeaksTimers ==
  /\ stopper = "done" /\ ~held /\ \A t \in Tasks : submit[t] # "checked"
  /\ fut' = [t \in Tasks |-> IF t \in Range(queue) THEN "broken" ELSE fut[t]]
  /\ queue' = <<>> /\ timers' = {} /\ stopper' = "destroyed"
  /\ UNCHANGED <<work, running, aborted, pool, pinging, starts, held, submit, terminated>>

-----------------------------------------------------------------------------
(* asyncCall(), post() and their timers.                                   *)

\* EventLoop::asyncDelayImpl takes a reference, asyncCallInternal looks at _work.
asyncCall(t) ==
  /\ submit[t] = "none" /\ held
  /\ submit' = [submit EXCEPT ![t] = IF work THEN "checked" ELSE "done"]
  /\ fut' = [fut EXCEPT ![t] = IF work THEN "pending" ELSE "refused"]
  /\ UNCHANGED <<io, pool, pinging, life, terminated>>

\* It posts the handler, or arms its timer, on an io_service that may have been
\* stopped meanwhile.
Post(t) ==
  /\ submit[t] = "checked"
  /\ submit' = [submit EXCEPT ![t] = "done"]
  /\ IF t \in Delayed
     THEN timers' = timers \cup {t} /\ UNCHANGED queue
     ELSE queue' = Append(queue, t) /\ UNCHANGED timers
  /\ UNCHANGED <<work, running, aborted, fut, pool, pinging, life, terminated>>

\* A timer expires, or the future of its task is canceled: the handler is ready.
TimerEnds(t) ==
  /\ t \in timers
  /\ timers' = timers \ {t}
  /\ queue' = Append(queue, t)
  /\ \/ UNCHANGED aborted
     \/ submit[t] = "done" /\ aborted' = aborted \cup {t}
  /\ UNCHANGED <<work, running, pool, pinging, life, users, terminated>>

-----------------------------------------------------------------------------
(* The workers: runWorkerLoop() and invoke_maybe().                        *)

TakeHandler(w) ==
  /\ worker[w] = "idle" /\ running /\ queue # <<>>
  /\ queue' = Tail(queue)
  /\ job' = [job EXCEPT ![w] = Head(queue)]
  /\ worker' = [worker EXCEPT ![w] = IF Head(queue) \in Tasks THEN "task" ELSE "ping"]
  /\ UNCHANGED <<work, running, timers, aborted, slot, leaving, pinging, life, users, terminated>>

\* The callback returns or throws, or is not called as its timer was canceled.
FinishTask(w) ==
  /\ worker[w] = "task" /\ (~Blocked(w) \/ job[w] \in aborted)
  /\ \E o \in (IF job[w] \in aborted THEN {"canceled"} ELSE {"value", "error"}) :
       fut' = [fut EXCEPT ![job[w]] = o]
  /\ worker' = [worker EXCEPT ![w] = "idle"]
  /\ job' = [job EXCEPT ![w] = NoTask]
  /\ UNCHANGED <<io, slot, leaving, pinging, life, submit, terminated>>

SetPing(w, o) == ping' = IF job[w] = "ping" THEN o ELSE ping

\* mustTerminate() for a thread that has been idle for too long.
mustTerminate(w) ==
  /\ worker[w] = "ping" /\ Unlocked
  /\ slot[w] # "none" /\ activeWorkerCount > MinThreads
  /\ SetPing(w, "terminated")
  /\ worker' = [worker EXCEPT ![w] = "thrown"]
  /\ job' = [job EXCEPT ![w] = NoTask]
  /\ UNCHANGED <<io, slot, leaving, pinger, joined, life, users, terminated>>

\* Or not for long enough, or one of the last; in a thread that joinAll() has taken
\* it throws "thread id not found", which is only logged.
PingReturns(w) ==
  /\ worker[w] = "ping" /\ Unlocked
  /\ SetPing(w, "ok")
  /\ worker' = [worker EXCEPT ![w] = "idle"]
  /\ job' = [job EXCEPT ![w] = NoTask]
  /\ UNCHANGED <<io, slot, leaving, pinger, joined, life, users, terminated>>

\* The handler of TerminateThread.  setInactive() throws when joinAll() has taken
\* the thread, and the exception leaves the thread.  The verbose log, if it is on,
\* counts the workers after that,
setInactive(w) ==
  /\ worker[w] = "thrown" /\ Unlocked
  /\ IF slot[w] = "none"
     THEN terminated' = TRUE /\ UNCHANGED <<slot, worker>>
     ELSE /\ slot' = [slot EXCEPT ![w] = "inactive"]
          /\ \E next \in {"logging", "exited"} : worker' = [worker EXCEPT ![w] = next]
          /\ UNCHANGED terminated
  /\ UNCHANGED <<io, job, leaving, pinging, life, users>>

\* for which it locks the container again.
LogCount(w) ==
  /\ worker[w] = "logging" /\ Unlocked
  /\ worker' = [worker EXCEPT ![w] = "exited"]
  /\ UNCHANGED <<io, slot, job, leaving, pinging, life, users, terminated>>

\* io_service::run() returns: stopped, or without work.
WorkerQuits(w) ==
  /\ worker[w] = "idle"
  /\ \/ ~running
     \/ /\ ~work /\ queue = <<>> /\ timers = {}
        /\ \A v \in Threads : worker[v] \notin {"task", "ping"}
  /\ worker' = [worker EXCEPT ![w] = "exited"]
  /\ UNCHANGED <<io, slot, job, leaving, pinging, life, users, terminated>>

-----------------------------------------------------------------------------
(* The ping thread: runPingLoop().                                         *)

Stale(h) == IF h = "ping" THEN "stale" ELSE h

PingPost ==
  /\ pinger = "loop"
  /\ IF work
     THEN /\ queue' = IF Cardinality(Pings) < MaxPings THEN Append(queue, "ping") ELSE queue
          /\ ping' = "running" /\ pinger' = "wait"
     ELSE pinger' = "end" /\ UNCHANGED <<queue, ping>>
  /\ UNCHANGED <<work, running, timers, aborted, pool, joined, life, users, terminated>>

\* waitFor() times out.  With the pool at its limit the timeouts are counted, for the
\* emergency callback; otherwise a worker is launched.
PingTimeout ==
  /\ pinger = "wait" /\ ping = "running" /\ Unlocked
  /\ queue' = [i \in DOMAIN queue |-> Stale(queue[i])]
  /\ job' = [w \in Threads |-> Stale(job[w])]
  /\ ping' = "none"
  /\ pinger' = IF activeWorkerCount >= MaxThreads THEN "loop" ELSE "launch"
  /\ UNCHANGED <<work, running, timers, aborted, slot, worker, leaving, joined, life, users, terminated>>

\* launchN() puts the new thread in a new slot,
launch ==
  /\ pinger = "launch"
  /\ \A w \in Threads : slot[w] # "inactive"
  /\ LET w == CHOOSE v \in Threads : slot[v] = "none" IN
       /\ slot' = [slot EXCEPT ![w] = "active"]
       /\ worker' = [worker EXCEPT ![w] = "idle"]
  /\ pinger' = "loop"
  /\ UNCHANGED <<io, job, leaving, ping, joined, life, users, terminated>>

\* or in that of an inactive one, which it joins without unlocking the container.
launchJoins ==
  /\ pinger = "launch"
  /\ \E w \in Threads : slot[w] = "inactive" /\ joined' = {w}
  /\ pinger' = "join"
  /\ UNCHANGED <<io, pool, ping, life, users, terminated>>

launchJoined ==
  /\ pinger = "join"
  /\ \A w \in joined : worker[w] = "exited"
  /\ slot' = [w \in Threads |-> IF w \in joined THEN "active" ELSE slot[w]]
  /\ worker' = [w \in Threads |-> IF w \in joined THEN "idle" ELSE worker[w]]
  /\ joined' = {} /\ pinger' = "loop"
  /\ UNCHANGED <<io, job, leaving, ping, life, users, terminated>>

\* The ping is answered in time, by a worker that goes on or that terminates.
PingAnswered ==
  /\ pinger = "wait" /\ ping # "running"
  /\ pinger' = IF work THEN "loop" ELSE "end"
  /\ ping' = "none"
  /\ UNCHANGED <<io, pool, joined, life, users, terminated>>

-----------------------------------------------------------------------------
(* stop(), start() and destruction.                                        *)

\* The destructor of EventLoop gives up its reference, and waits for the callers'.
Release ==
  /\ held /\ stopper \in {"none", "done"}
  /\ held' = FALSE
  /\ UNCHANGED <<io, pool, pinging, stopper, starts, users, terminated>>

NoCaller == \A t \in Tasks : submit[t] # "checked"

StopWork ==
  /\ stopper = "none" /\ (held \/ NoCaller)
  /\ work' = FALSE /\ stopper' = "work"
  /\ UNCHANGED <<running, queue, timers, aborted, pool, pinging, starts, held, users, terminated>>

StopIo ==
  /\ stopper = "work"
  /\ running' = FALSE /\ stopper' = "io"
  /\ UNCHANGED <<work, queue, timers, aborted, pool, pinging, starts, held, users, terminated>>

\* join() waits for the ping thread, takes the workers out of the container,
joinAll ==
  /\ stopper = "io" /\ pinger = "end"
  /\ leaving' = {w \in Threads : slot[w] # "none"}
  /\ slot' = [w \in Threads |-> "none"]
  /\ stopper' = "join"
  /\ UNCHANGED <<io, worker, job, pinging, starts, held, users, terminated>>

\* and joins them.
JoinReturns ==
  /\ stopper = "join"
  /\ \A w \in leaving : worker[w] = "exited"
  /\ leaving' = {}
  /\ worker' = [w \in Threads |-> "none"]
  /\ stopper' = "done"
  /\ UNCHANGED <<io, slot, job, pinging, starts, held, users, terminated>>

\* start() after stop(): what is left in the io_service will run.
start ==
  /\ stopper = "done" /\ held /\ starts < MaxStarts
  /\ Started(FirstWorkers)
  /\ starts' = starts + 1 /\ stopper' = "none"
  /\ UNCHANGED <<queue, timers, aborted, job, leaving, joined, held, users, terminated>>

\* The io_service is destroyed with its handlers, and their promises are broken.
Destroy ==
  /\ stopper = "done" /\ ~held /\ NoCaller
  /\ fut' = [t \in Tasks |-> IF t \in timers \cup Range(queue) THEN "broken" ELSE fut[t]]
  /\ queue' = <<>> /\ timers' = {} /\ stopper' = "destroyed"
  /\ UNCHANGED <<work, running, aborted, pool, pinging, starts, held, submit, terminated>>

-----------------------------------------------------------------------------

Worker(w) ==
  \/ TakeHandler(w) \/ FinishTask(w) \/ mustTerminate(w) \/ PingReturns(w)
  \/ setInactive(w) \/ LogCount(w) \/ WorkerQuits(w)

Pinger ==
  \/ PingPost \/ PingTimeout \/ launch \/ launchJoins \/ launchJoined \/ PingAnswered

Stopping == StopIo \/ joinAll \/ JoinReturns

\* Once the process is terminated, what its other threads did at that moment does not
\* matter: every property excepts it.
Next ==
  \/ \E t \in Tasks : asyncCall(t) \/ Post(t) \/ TimerEnds(t)
  \/ \E w \in Threads : Worker(w)
  \/ Pinger \/ Stopping \/ Release \/ StopWork \/ start \/ Destroy

Spec == Init /\ [][Next]_vars

\* Threads go on, timers expire, callbacks that do not wait return, and a loop that
\* nobody refers to is stopped and destroyed.  Nobody has to submit, stop or start.
Fairness ==
  /\ \A t \in Tasks : WF_vars(Post(t)) /\ WF_vars(TimerEnds(t))
  /\ \A w \in Threads : WF_vars(Worker(w))
  /\ WF_vars(Pinger) /\ WF_vars(Stopping)
  /\ WF_vars(Destroy) /\ WF_vars(~held /\ StopWork)

FairSpec == Spec /\ Fairness

-----------------------------------------------------------------------------
(* Properties.                                                             *)

\* "A thread must terminate if it has been idle for too long, provided the minimum
\* number of threads has not been reached": while the loop works it keeps the minimum.
\* It does not hold, and no run checks it: mustTerminate() and setInactive() are two
\* critical sections, so that two workers may both find one too many.
MinKept == (work /\ ~terminated) => activeWorkerCount >= MinThreads

\* The pool does not grow beyond its maximum, although the ping thread compares the
\* count in one critical section and adds the worker in another (runPingLoop, launchN).
MaxKept == activeWorkerCount <= MaxThreads

\* A task that was accepted is with its caller, in a timer, in the queue or with a
\* worker until its future is settled: stop() and start() lose none.
Somewhere(t) ==
  \/ submit[t] = "checked" \/ t \in timers \/ \E i \in DOMAIN queue : queue[i] = t
  \/ \E w \in Threads : worker[w] = "task" /\ job[w] = t

NoneLost == \A t \in Tasks : fut[t] = "pending" => Somewhere(t)

\* A callback is called once at most, and its future keeps its outcome.
SettledOnce == [][\A t \in Tasks : fut[t] \in Settled => fut'[t] = fut[t]]_vars

\* When stop() returns, every worker has left runWorkerLoop: joinAll() missed none.
StopJoinsAll ==
  [][stopper = "join" /\ stopper' = "done"
       => \A w \in Threads : worker[w] \in {"none", "exited"}]_vars

\* launchN() joins, with the container locked, a thread that waits for that lock to
\* write its verbose log: neither goes on.
Deadlocked == \E w \in joined : worker[w] = "logging"

\* That this never happens does not hold, and no run checks it.
NeverDeadlocked == ~Deadlocked

\* What ends the event loop for good.
Broken == terminated \/ Deadlocked

\* A posted handler is called, even when every worker waits for it, as long as the
\* pool may grow: the promise of the ping thread.  Unless the loop is stopped.
TasksStart ==
  \A t \in Tasks :
    (t \in Range(queue)) ~> (t \notin Range(queue) \/ ~work \/ Broken)

\* stop() returns, unless a task waits for one that will not be called any more.
StopReturns ==
  (stopper = "work") ~> (stopper = "done" \/ Broken \/ \E w \in Threads : Blocked(w))

\* Once the loop is being destroyed every future it gave finishes, also that of a call
\* that saw it working and posted its handler after it was stopped.
FuturesSettle ==
  \A t \in Tasks :
    (~held /\ submit[t] # "none")
      ~> (fut[t] \in Settled \/ Broken \/ \E w \in Threads : Blocked(w))

=============================================================================
