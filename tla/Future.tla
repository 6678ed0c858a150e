------------------------------- MODULE Future -------------------------------
(***************************************************************************)
(* The shared state of one qi::Promise / qi::Future pair                    *)
(* (qi/detail/future_fwd.hpp, qi/detail/future.hxx, src/future.cpp).        *)
(*                                                                         *)
(* A set of threads share the state.  Every thread holds a Future; some    *)
(* hold Promise objects, which are counted.  One action is one critical    *)
(* section of FutureBasePrivate::_mutex, or one atomic access made outside *)
(* it, so every window in which the code has released the mutex and is     *)
(* about to act on what it read is a state of this specification.          *)
(***************************************************************************)
EXTENDS Integers, Sequences, FiniteSets, Functions

CONSTANTS
    Threads,        \* threads that use the promise or the future
    Creator,        \* the thread that constructs the first Promise
    Callbacks,      \* callbacks given to Future::connect, each at most once
    CallType,       \* FutureCallbackType each callback is connected with
    PromiseAsync,   \* FutureCallbackType the promise is constructed with
    CancelCbs,      \* callbacks given to Promise::setOnCancel, each at most once
    NoCancelCb,     \* an empty CancelCallback
    Promises,       \* Promise objects that may be alive at the same time
    NoThread        \* owner of a Promise object that is not alive

CallTypes == {"Sync", "Async", "Auto"}

ASSUME CreatorAssumption == Creator \in Threads
ASSUME CallTypeAssumption ==
    CallType \in [Callbacks -> CallTypes] /\ PromiseAsync \in CallTypes
ASSUME NoCancelCbAssumption == NoCancelCb \notin CancelCbs
ASSUME PromisesAssumption == IsFiniteSet(Promises) /\ Promises # {}
ASSUME ThreadsAssumption == IsFiniteSet(Threads) /\ NoThread \notin Threads

VARIABLES
    state,            \* FutureBasePrivate::_state
    cancelRequested,  \* FutureBasePrivate::_cancelRequested
    onResult,         \* FutureBaseTyped::_onResult
    onCancel,         \* FutureBaseTyped::_onCancel
    promiseCount,     \* FutureBaseTyped::_promiseCount
    owner,            \* the thread each live Promise object belongs to
    pc,               \* where each thread stands in the operation it runs
    todo,             \* callbacks a thread took out of onResult, not yet called
    cancelCb,         \* cancel callback a thread took out of onCancel
    inCancelCb,       \* threads inside a cancel callback, owning cancel()'s `prom`
    waiters,          \* threads blocked on _cond
    posted,           \* callbacks posted to the event loop
    connected,        \* history: callbacks accepted by connect
    runs,             \* history: how often each callback has been called
    cancelRuns,       \* history: how often each cancel callback has been called
    registered,       \* history: cancel callbacks given to setOnCancel
    terminated        \* an exception has left a destructor: std::terminate

resultVars  == <<onResult, todo, posted, connected, runs>>
cancelVars  == <<cancelRequested, onCancel, cancelCb, cancelRuns, registered>>
promiseVars == <<promiseCount, owner, inCancelCb>>
vars == <<state, resultVars, cancelVars, promiseVars, pc, waiters, terminated>>

Outcomes == {"FinishedWithValue", "FinishedWithError", "Canceled"}

PCs == {"idle", "execute", "taken", "recancel", "last", "broken", "wait"}

isFinished == state \in Outcomes
isRunning  == state = "Running"

\* A thread at the top level of user code, or in the body of a cancel callback.
Free(t) == pc[t] = "idle" /\ ~terminated

\* The thread has a Promise through which it can set the state.
HoldsPromise(t) == t \in inCancelCb \/ \E p \in Promises : owner[p] = t

\* executeCallbacks and connect: whether the callback is posted or called here.
IsAsync(c) == IF CallType[c] # "Auto" THEN CallType[c] # "Sync"
                                      ELSE PromiseAsync # "Sync"

(***************************************************************************)
(* Promise(FutureCallbackType): reportStart, then the promise is counted.  *)
(***************************************************************************)
Init ==
    /\ state = "Running"
    /\ cancelRequested = FALSE
    /\ onResult = <<>>
    /\ onCancel = NoCancelCb
    /\ promiseCount = 1
    /\ \E p \in Promises : owner = [q \in Promises |-> IF q = p THEN Creator ELSE NoThread]
    /\ pc = [t \in Threads |-> "idle"]
    /\ todo = [t \in Threads |-> <<>>]
    /\ cancelCb = [t \in Threads |-> NoCancelCb]
    /\ inCancelCb = {}
    /\ waiters = {}
    /\ posted = {}
    /\ connected = {}
    /\ runs = [c \in Callbacks |-> 0]
    /\ cancelRuns = [k \in CancelCbs |-> 0]
    /\ registered = {}
    /\ terminated = FALSE

-----------------------------------------------------------------------------
(***************************************************************************)
(* Faulty variants of the actions below, one per fault the properties are  *)
(* meant to catch.  Nothing in the specification uses them.                *)
(***************************************************************************)
\* Mutant of finish: the state is not checked.
finishUnchecked(t, outcome) ==
    /\ state' = outcome
    /\ todo' = [todo EXCEPT ![t] = onResult]
    /\ onResult' = <<>> /\ onCancel' = NoCancelCb /\ waiters' = {}
    /\ pc' = [pc EXCEPT ![t] = "execute"]

\* Mutant of ExecuteCallback: an asynchronous callback is not posted.
ExecuteCallbackWithoutPost(t) ==
    /\ pc[t] = "execute" /\ ~terminated /\ todo[t] # <<>>
    /\ todo' = [todo EXCEPT ![t] = Tail(@)]
    /\ UNCHANGED <<state, onResult, posted, connected, runs, cancelVars,
                   promiseVars, pc, waiters, terminated>>

\* Mutant of setOnCancel: an earlier cancel request is not looked at.
setOnCancelIgnoresRequest(t, k) ==
    /\ Free(t) /\ HoldsPromise(t) /\ t \notin inCancelCb
    /\ k \notin registered
    /\ registered' = registered \cup {k}
    /\ onCancel' = k
    /\ UNCHANGED <<state, resultVars, cancelRequested, cancelCb, cancelRuns,
                   promiseVars, pc, waiters, terminated>>

\* Mutant of CheckRunning: the last Promise goes without calling setBroken().
CheckRunningNeverBroken(t) ==
    /\ pc[t] = "last" /\ ~terminated
    /\ pc' = [pc EXCEPT ![t] = "idle"]
    /\ UNCHANGED <<state, resultVars, cancelVars, promiseVars, waiters,
                   terminated>>

-----------------------------------------------------------------------------
(***************************************************************************)
(* finish(): the critical section every setter goes through.  It applies   *)
(* only in the running state; what the setter does otherwise (throw) is    *)
(* the caller's business.                                                  *)
(***************************************************************************)
finish(t, outcome) ==
    /\ isRunning
    /\ state' = outcome
    /\ todo' = [todo EXCEPT ![t] = onResult]
    /\ onResult' = <<>>
    /\ onCancel' = NoCancelCb
    /\ waiters' = {}
    /\ pc' = [pc EXCEPT ![t] = "execute"]

\* setValue, set (trigger), setError, setCanceled on a Promise of the thread.
\* On a finished future they throw PromiseAlreadySet and change nothing.
Set(t, outcome) ==
    /\ Free(t)
    /\ HoldsPromise(t)
    /\ finish(t, outcome)
    /\ UNCHANGED <<posted, connected, runs, cancelRequested, cancelCb,
                   cancelRuns, registered, promiseVars, terminated>>

\* One iteration of executeCallbacks, or the tail of connect, without the mutex.
ExecuteCallback(t) ==
    /\ pc[t] = "execute" /\ ~terminated /\ todo[t] # <<>>
    /\ LET c == Head(todo[t])
       IN  IF IsAsync(c)
           THEN posted' = posted \cup {c} /\ UNCHANGED runs
           ELSE runs' = [runs EXCEPT ![c] = @ + 1] /\ UNCHANGED posted
    /\ todo' = [todo EXCEPT ![t] = Tail(@)]
    /\ UNCHANGED <<state, onResult, connected, cancelVars, promiseVars, pc,
                   waiters, terminated>>

ExecuteDone(t) ==
    /\ pc[t] = "execute" /\ ~terminated /\ todo[t] = <<>>
    /\ pc' = [pc EXCEPT ![t] = "idle"]
    /\ UNCHANGED <<state, resultVars, cancelVars, promiseVars, waiters,
                   terminated>>

\* The event loop runs a posted callback.
RunPosted(c) ==
    /\ c \in posted /\ ~terminated
    /\ posted' = posted \ {c}
    /\ runs' = [runs EXCEPT ![c] = @ + 1]
    /\ UNCHANGED <<state, onResult, todo, connected, cancelVars, promiseVars,
                   pc, waiters, terminated>>

\* connect(): queue the callback, or call it once the mutex is released.
connect(t, c) ==
    /\ Free(t)
    /\ c \notin connected
    /\ connected' = connected \cup {c}
    /\ IF isFinished
       THEN /\ todo' = [todo EXCEPT ![t] = <<c>>]
            /\ pc' = [pc EXCEPT ![t] = "execute"]
            /\ UNCHANGED onResult
       ELSE /\ onResult' = Append(onResult, c)
            /\ UNCHANGED <<todo, pc>>
    /\ UNCHANGED <<state, posted, runs, cancelVars, promiseVars, waiters,
                   terminated>>

(***************************************************************************)
(* cancel(): take the cancel callback out under the mutex, then call it    *)
(* without the mutex, on a Promise made from the Future.                   *)
(***************************************************************************)
TakeOnCancel(t) ==
    IF isFinished
    THEN /\ pc' = [pc EXCEPT ![t] = "idle"]
         /\ UNCHANGED <<cancelRequested, onCancel, cancelCb>>
    ELSE /\ cancelRequested' = TRUE
         /\ cancelCb' = [cancelCb EXCEPT ![t] = onCancel]
         /\ onCancel' = NoCancelCb
         /\ pc' = [pc EXCEPT ![t] = IF onCancel = NoCancelCb THEN "idle" ELSE "taken"]

cancel(t) ==
    /\ Free(t)
    /\ t \notin inCancelCb
    /\ TakeOnCancel(t)
    /\ UNCHANGED <<state, resultVars, cancelRuns, registered, promiseVars,
                   waiters, terminated>>

\* `qi::Promise<T> prom(future); onCancel(prom);`
EnterCancelCb(t) ==
    /\ pc[t] = "taken" /\ ~terminated
    /\ promiseCount' = promiseCount + 1
    /\ inCancelCb' = inCancelCb \cup {t}
    /\ cancelRuns' = [cancelRuns EXCEPT ![cancelCb[t]] = @ + 1]
    /\ cancelCb' = [cancelCb EXCEPT ![t] = NoCancelCb]
    /\ pc' = [pc EXCEPT ![t] = "idle"]
    /\ UNCHANGED <<state, resultVars, cancelRequested, onCancel, registered,
                   owner, waiters, terminated>>

\* setOnCancel(): store the callback; cancel again if a cancel came before it.
setOnCancel(t, k) ==
    /\ Free(t)
    /\ HoldsPromise(t)
    /\ t \notin inCancelCb
    /\ k \notin registered
    /\ registered' = registered \cup {k}
    /\ onCancel' = k
    /\ pc' = [pc EXCEPT ![t] = IF cancelRequested THEN "recancel" ELSE "idle"]
    /\ UNCHANGED <<state, resultVars, cancelRequested, cancelCb, cancelRuns,
                   promiseVars, waiters, terminated>>

Recancel(t) ==
    /\ pc[t] = "recancel" /\ ~terminated
    /\ TakeOnCancel(t)
    /\ UNCHANGED <<state, resultVars, cancelRuns, registered, promiseVars,
                   waiters, terminated>>

(***************************************************************************)
(* Promise copies and destruction.  decRefcnt() decrements, then reads the *)
(* state, then calls setBroken(): three steps, the mutex held in the last. *)
(***************************************************************************)
CopyPromise(t, q, u) ==
    /\ Free(t)
    /\ HoldsPromise(t)
    /\ owner[q] = NoThread
    /\ owner' = [owner EXCEPT ![q] = u]
    /\ promiseCount' = promiseCount + 1
    /\ UNCHANGED <<state, resultVars, cancelVars, inCancelCb, pc, waiters,
                   terminated>>

decRefcnt(t) ==
    /\ promiseCount' = promiseCount - 1
    /\ pc' = [pc EXCEPT ![t] = IF promiseCount = 1 THEN "last" ELSE "idle"]

DestroyPromise(t, p) ==
    /\ Free(t)
    /\ owner[p] = t
    /\ owner' = [owner EXCEPT ![p] = NoThread]
    /\ decRefcnt(t)
    /\ UNCHANGED <<state, resultVars, cancelVars, inCancelCb, waiters,
                   terminated>>

\* The cancel callback returns; cancel()'s `prom` goes out of scope.
LeaveCancelCb(t) ==
    /\ Free(t)
    /\ t \in inCancelCb
    /\ inCancelCb' = inCancelCb \ {t}
    /\ decRefcnt(t)
    /\ UNCHANGED <<state, resultVars, cancelVars, owner, waiters, terminated>>

\* `... && _f.isRunning()`, an atomic load without the mutex.
CheckRunning(t) ==
    /\ pc[t] = "last" /\ ~terminated
    /\ pc' = [pc EXCEPT ![t] = IF isRunning THEN "broken" ELSE "idle"]
    /\ UNCHANGED <<state, resultVars, cancelVars, promiseVars, waiters,
                   terminated>>

\* setBroken() runs in a destructor: if finish() throws, the process ends.
setBroken(t) ==
    /\ pc[t] = "broken" /\ ~terminated
    /\ \/ /\ finish(t, "FinishedWithError")
          /\ UNCHANGED terminated
       \/ /\ ~isRunning
          /\ terminated' = TRUE
          /\ UNCHANGED <<state, onResult, todo, onCancel, pc, waiters>>
    /\ UNCHANGED <<posted, connected, runs, cancelRequested, cancelCb,
                   cancelRuns, registered, promiseVars>>

(***************************************************************************)
(* wait(): returns at once unless running, else blocks on the condition,   *)
(* until notifyFinish() or the timeout.                                    *)
(***************************************************************************)
wait(t) ==
    /\ Free(t)
    /\ isRunning
    /\ waiters' = waiters \cup {t}
    /\ pc' = [pc EXCEPT ![t] = "wait"]
    /\ UNCHANGED <<state, resultVars, cancelVars, promiseVars, terminated>>

WaitTimeout(t) ==
    /\ t \in waiters /\ ~terminated
    /\ waiters' = waiters \ {t}
    /\ UNCHANGED <<state, resultVars, cancelVars, promiseVars, pc, terminated>>

WaitReturn(t) ==
    /\ pc[t] = "wait" /\ ~terminated
    /\ t \notin waiters
    /\ pc' = [pc EXCEPT ![t] = "idle"]
    /\ UNCHANGED <<state, resultVars, cancelVars, promiseVars, waiters,
                   terminated>>

-----------------------------------------------------------------------------
\* What a thread does on its way out of an operation it has begun.
Continue(t) ==
    \/ ExecuteCallback(t) \/ ExecuteDone(t)
    \/ EnterCancelCb(t) \/ LeaveCancelCb(t) \/ Recancel(t)
    \/ CheckRunning(t) \/ setBroken(t)
    \/ WaitReturn(t)

Call(t) ==
    \/ \E o \in Outcomes : Set(t, o)
    \/ \E c \in Callbacks : connect(t, c)
    \/ \E k \in CancelCbs : setOnCancel(t, k)
    \/ cancel(t)
    \/ \E q \in Promises, u \in Threads : CopyPromise(t, q, u)
    \/ \E p \in Promises : DestroyPromise(t, p)
    \/ wait(t) \/ WaitTimeout(t)

Next ==
    \/ \E t \in Threads : Continue(t) \/ Call(t)
    \/ \E c \in Callbacks : RunPosted(c)

Spec == Init /\ [][Next]_vars

(***************************************************************************)
(* Threads run on, the event loop serves its queue, a cancel callback      *)
(* returns, and a Promise object that nobody sets is destroyed in the end  *)
(* (it is a C++ object with a lifetime).  Nothing forces a thread to       *)
(* connect, cancel, copy, set or wait, and no timeout has to fire.         *)
(***************************************************************************)
Fairness ==
    /\ \A t \in Threads : WF_vars(Continue(t))
    /\ \A t \in Threads, p \in Promises : WF_vars(DestroyPromise(t, p))
    /\ \A c \in Callbacks : WF_vars(RunPosted(c))

FairSpec == Spec /\ Fairness
-----------------------------------------------------------------------------
(***************************************************************************)
(* Properties.                                                             *)
(***************************************************************************)

\* The states of FutureBaseTyped and of the threads in its operations.
TypeOK ==
    /\ state \in Outcomes \cup {"Running"}
    /\ cancelRequested \in BOOLEAN
    /\ onResult \in Seq(Callbacks)
    /\ onCancel \in CancelCbs \cup {NoCancelCb}
    /\ promiseCount \in Nat
    /\ owner \in [Promises -> Threads \cup {NoThread}]
    /\ pc \in [Threads -> PCs]
    /\ todo \in [Threads -> Seq(Callbacks)]
    /\ cancelCb \in [Threads -> CancelCbs \cup {NoCancelCb}]
    /\ inCancelCb \subseteq Threads
    /\ waiters \subseteq Threads
    /\ posted \subseteq Callbacks
    /\ connected \subseteq Callbacks
    /\ runs \in [Callbacks -> Nat]
    /\ cancelRuns \in [CancelCbs -> Nat]
    /\ registered \subseteq CancelCbs
    /\ terminated \in BOOLEAN

Taken(c) == \E t \in Threads : c \in Range(todo[t])

\* A callback that connect() accepted is queued until the future is finished,
\* and from then on on its way to be called or called: no order of connect()
\* and finish() loses it ("missing callbacks", the comment in finish()).
NoCallbackLost ==
    \A c \in connected :
        IF isFinished THEN Taken(c) \/ c \in posted \/ runs[c] = 1
                      ELSE c \in Range(onResult)

\* Once the future is finished nobody is left blocked in wait(): finish()
\* notifies in the same critical section that changes the state.
NoLostWakeup == isFinished => waiters = {}

\* A cancel callback stored while a cancel is already requested is not left
\* behind on a running future: the thread in setOnCancel() is about to cancel
\* again, whatever cancel() calls happened in between.
CancelDelivered ==
    (isRunning /\ cancelRequested /\ onCancel # NoCancelCb)
        => \E t \in Threads : pc[t] = "recancel"

\* No cancel callback is called twice, or both called and kept: cancel() and
\* the second cancel of setOnCancel() take it out under the mutex.
CancelOnce ==
    \A k \in CancelCbs :
        /\ cancelRuns[k] <= 1
        /\ \A t \in Threads : cancelCb[t] = k => (onCancel # k /\ cancelRuns[k] = 0)
        /\ \A t, u \in Threads : (cancelCb[t] = k /\ cancelCb[u] = k) => t = u
        /\ onCancel = k => cancelRuns[k] = 0

\* _promiseCount is the number of Promise objects alive, the temporary one of
\* each cancel() included, so that its reaching 0 means what decRefcnt() says.
PromiseCountExact ==
    promiseCount = Cardinality({p \in Promises : owner[p] # NoThread})
                     + Cardinality(inCancelCb)

\* A future whose last Promise is gone does not stay running: the thread that
\* dropped the count to 0 is on its way to setBroken().
NoOrphan ==
    (isRunning /\ promiseCount = 0)
        => \E t \in Threads : pc[t] \in {"last", "broken"}

\* decRefcnt(): "this is race-free ... no one could be changing the promise
\* state (from running to finished or whatever) while destroying it", so
\* setBroken() finds the future running and the destructor does not throw.
DestructorNeverThrows == ~terminated

\* The promise and its future implement the one-shot specification.
OneShotOf == INSTANCE OneShot WITH
    Running <- "Running", Listeners <- Callbacks, result <- state, calls <- runs
OneShotSpec == OneShotOf!Spec

\* Every accepted callback of a finished future is called in the end.
CallbacksCalled ==
    \A c \in Callbacks :
        (isFinished /\ c \in connected) ~> (runs[c] = 1 \/ terminated)

\* A future all of whose promises are destroyed finishes: nobody can wait for
\* it for ever.
BrokenPromiseFinishes == (promiseCount = 0) ~> (isFinished \/ terminated)
=============================================================================
