---------------------------- MODULE FutureProofs ----------------------------
(***************************************************************************)
(* Proofs about module Future, for any number of threads, callbacks,       *)
(* cancel callbacks and promises.                                          *)
(***************************************************************************)
EXTENDS Future, SequenceTheorems, FiniteSetTheorems, TLAPS

-----------------------------------------------------------------------------
(***************************************************************************)
(* The vector of callbacks: what appending a callback and taking the first*)
(* one do to the elements of a sequence.                                 *)
(***************************************************************************)

\* Appending an element not yet in a queue.
LEMMA AppendRange ==
    ASSUME NEW S, NEW s \in Seq(S), NEW x \in S
    PROVE  /\ Append(s, x) \in Seq(S)
           /\ Range(Append(s, x)) = Range(s) \cup {x}
           /\ (IsInjective(s) /\ x \notin Range(s)) => IsInjective(Append(s, x))
<1>1. /\ Append(s, x) \in Seq(S)
      /\ DOMAIN s = 1..Len(s)
      /\ DOMAIN Append(s, x) = 1..(Len(s) + 1)
      /\ \A i \in 1..Len(s) : Append(s, x)[i] = s[i]
      /\ Append(s, x)[Len(s) + 1] = x
      /\ Len(s) \in Nat
  OBVIOUS
<1>2. Range(Append(s, x)) = Range(s) \cup {x}
  BY <1>1 DEF Range
<1>3. ASSUME IsInjective(s), x \notin Range(s)
      PROVE  IsInjective(Append(s, x))
  BY <1>1, <1>3 DEF IsInjective, Range
<1> QED BY <1>1, <1>2, <1>3

\* Taking the head of a queue leaves it out of the rest.
LEMMA TailRange ==
    ASSUME NEW S, NEW s \in Seq(S), s # <<>>
    PROVE  /\ Head(s) \in S
           /\ Tail(s) \in Seq(S)
           /\ Range(s) = {Head(s)} \cup Range(Tail(s))
           /\ IsInjective(s) => /\ IsInjective(Tail(s))
                                /\ Head(s) \notin Range(Tail(s))
<1>1. /\ Head(s) \in S /\ Head(s) = s[1]
      /\ Tail(s) \in Seq(S)
      /\ Len(s) \in Nat /\ Len(s) >= 1
      /\ DOMAIN s = 1..Len(s)
      /\ DOMAIN Tail(s) = 1..(Len(s) - 1)
      /\ \A i \in 1..(Len(s) - 1) : Tail(s)[i] = s[i + 1]
  OBVIOUS
<1>2. Range(s) = {Head(s)} \cup Range(Tail(s))
  <2>1. ASSUME NEW e \in Range(s) PROVE e \in {Head(s)} \cup Range(Tail(s))
    <3>1. PICK i \in 1..Len(s) : e = s[i]
      BY <1>1, <2>1 DEF Range
    <3>2. CASE i = 1
      BY <3>1, <3>2, <1>1
    <3>3. CASE i # 1
      <4>1. i - 1 \in 1..(Len(s) - 1) /\ Tail(s)[i - 1] = s[i]
        BY <3>3, <1>1
      <4> QED BY <4>1, <3>1, <1>1 DEF Range
    <3> QED BY <3>2, <3>3
  <2>2. ASSUME NEW e \in {Head(s)} \cup Range(Tail(s)) PROVE e \in Range(s)
    BY <1>1, <2>2 DEF Range
  <2> QED BY <2>1, <2>2
<1>3. ASSUME IsInjective(s)
      PROVE  IsInjective(Tail(s)) /\ Head(s) \notin Range(Tail(s))
  <2>1. \A i, j \in 1..Len(s) : s[i] = s[j] => i = j
    BY <1>1, <1>3 DEF IsInjective
  <2>2. \A i, j \in 1..(Len(s) - 1) : Tail(s)[i] = Tail(s)[j] => i = j
    <3>1. ASSUME NEW i \in 1..(Len(s) - 1), NEW j \in 1..(Len(s) - 1),
                 Tail(s)[i] = Tail(s)[j]
          PROVE  i = j
      <4>1. i + 1 \in 1..Len(s) /\ j + 1 \in 1..Len(s) /\ s[i + 1] = s[j + 1]
        BY <1>1, <3>1
      <4> QED BY <4>1, <2>1
    <3> QED BY <3>1
  <2>3. \A i \in 1..(Len(s) - 1) : Tail(s)[i] # Head(s)
    <3>1. ASSUME NEW i \in 1..(Len(s) - 1), Tail(s)[i] = Head(s) PROVE FALSE
      <4>1. i + 1 \in 1..Len(s) /\ 1 \in 1..Len(s) /\ s[i + 1] = s[1] /\ i + 1 # 1
        BY <1>1, <3>1
      <4> QED BY <4>1, <2>1
    <3> QED BY <3>1
  <2> QED BY <2>2, <2>3, <1>1 DEF IsInjective, Range
<1> QED BY <1>1, <1>2, <1>3

\* The empty queue.
LEMMA EmptyRange ==
    Range(<<>>) = {} /\ IsInjective(<<>>) /\ \A S : <<>> \in Seq(S)
BY DEF Range, IsInjective

-----------------------------------------------------------------------------
(***************************************************************************)
(* Type correctness, together with the count of live promises: decRefcnt() *)
(* subtracts, and the count stays a natural number only because it is      *)
(* exact.                                                                  *)
(***************************************************************************)
Live == {p \in Promises : owner[p] # NoThread}

TypeInv ==
    /\ TypeOK
    /\ PromiseCountExact
    /\ \A t \in inCancelCb : pc[t] \notin {"taken", "recancel"}
    /\ \A t \in Threads : pc[t] = "taken" => cancelCb[t] # NoCancelCb

\* The promise that runs the first operation is counted.
LEMMA TypeInit == Init => TypeInv
<1> SUFFICES ASSUME Init PROVE TypeInv
  OBVIOUS
<1> USE CreatorAssumption, ThreadsAssumption, NoCancelCbAssumption, EmptyRange
<1>1. TypeOK
  BY DEF Init, TypeOK, PCs, Outcomes
<1>2. PICK p \in Promises : owner = [q \in Promises |-> IF q = p THEN Creator ELSE NoThread]
  BY DEF Init
<1>3. {q \in Promises : owner[q] # NoThread} = {p}
  BY <1>2
<1>4. Cardinality({p}) = 1 /\ Cardinality({}) = 0
  BY FS_Singleton, FS_EmptySet
<1>5. PromiseCountExact
  <2>1. promiseCount = 1 /\ inCancelCb = {}
    BY DEF Init
  <2> QED BY <2>1, <1>3, <1>4 DEF PromiseCountExact
<1> QED BY <1>1, <1>5 DEF TypeInv, Init

\* Every step keeps the types and the count.
LEMMA TypeNext == TypeInv /\ [Next]_vars => TypeInv'
<1> SUFFICES ASSUME TypeInv, [Next]_vars PROVE TypeInv'
  OBVIOUS
<1> USE ThreadsAssumption, NoCancelCbAssumption DEF TypeInv
<1>1. IsFiniteSet(Live) /\ IsFiniteSet(inCancelCb)
  BY PromisesAssumption, FS_Subset DEF TypeOK, Live
<1>2. /\ Cardinality(Live) \in Nat /\ Cardinality(inCancelCb) \in Nat
      /\ promiseCount = Cardinality(Live) + Cardinality(inCancelCb)
  BY <1>1, FS_CardinalityType DEF PromiseCountExact, Live
<1>3. (owner' = owner /\ inCancelCb' = inCancelCb /\ promiseCount' = promiseCount)
        => PromiseCountExact'
  BY DEF PromiseCountExact
<1>4. QED
  <2>1. ASSUME NEW t \in Threads, NEW o \in Outcomes, Set(t, o) PROVE TypeInv'
    BY <2>1, <1>3, EmptyRange DEF Set, finish, TypeOK, PCs, Outcomes, resultVars, cancelVars, promiseVars
  <2>2. ASSUME NEW t \in Threads, ExecuteCallback(t) PROVE TypeInv'
    <3>1. Head(todo[t]) \in Callbacks /\ Tail(todo[t]) \in Seq(Callbacks)
      BY <2>2, TailRange DEF ExecuteCallback, TypeOK
    <3> QED
      <4>1. CASE IsAsync(Head(todo[t]))
        BY <2>2, <3>1, <1>3, <4>1 DEF ExecuteCallback, TypeOK, cancelVars, promiseVars
      <4>2. CASE ~IsAsync(Head(todo[t]))
        <5>1. runs' \in [Callbacks -> Nat] /\ todo' \in [Threads -> Seq(Callbacks)]
          BY <2>2, <3>1, <4>2 DEF ExecuteCallback, TypeOK
        <5>2. posted' = posted
          BY <2>2, <4>2 DEF ExecuteCallback
        <5> HIDE <4>2
        <5> QED BY <2>2, <5>1, <5>2, <1>3 DEF ExecuteCallback, TypeOK, cancelVars, promiseVars
      <4> QED BY <4>1, <4>2
  <2>3. ASSUME NEW t \in Threads, ExecuteDone(t) PROVE TypeInv'
    BY <2>3, <1>3 DEF ExecuteDone, TypeOK, PCs, Outcomes, resultVars, cancelVars, promiseVars
  <2>4. ASSUME NEW c \in Callbacks, RunPosted(c) PROVE TypeInv'
    BY <2>4, <1>3 DEF RunPosted, TypeOK, PCs, Outcomes, resultVars, cancelVars, promiseVars
  <2>5. ASSUME NEW t \in Threads, NEW c \in Callbacks, connect(t, c) PROVE TypeInv'
    <3>1. Append(onResult, c) \in Seq(Callbacks) /\ <<c>> \in Seq(Callbacks)
      BY AppendRange DEF TypeOK
    <3> QED
      <4>1. CASE isFinished
        <5>1. /\ todo' = [todo EXCEPT ![t] = <<c>>]
              /\ pc' = [pc EXCEPT ![t] = "execute"]
              /\ onResult' = onResult
              /\ connected' = connected \cup {c}
          BY <2>5, <4>1 DEF connect
        <5>2. todo' \in [Threads -> Seq(Callbacks)] /\ pc' \in [Threads -> PCs]
          BY <5>1, <3>1 DEF TypeOK, PCs
        <5> QED
          BY <2>5, <5>1, <5>2, <1>3 DEF connect, TypeOK, cancelVars, promiseVars
      <4>2. CASE ~isFinished
        BY <2>5, <3>1, <1>3, <4>2 DEF connect, TypeOK, PCs, cancelVars, promiseVars
      <4> QED BY <4>1, <4>2
  <2>6. ASSUME NEW t \in Threads, cancel(t) PROVE TypeInv'
    <3>1. CASE isFinished
      BY <2>6, <1>3, <3>1 DEF cancel, TakeOnCancel, TypeOK, PCs, resultVars, promiseVars
    <3>2. CASE ~isFinished
      <4>1. /\ cancelRequested' = TRUE
            /\ cancelCb' = [cancelCb EXCEPT ![t] = onCancel]
            /\ onCancel' = NoCancelCb
            /\ pc' = [pc EXCEPT ![t] = IF onCancel = NoCancelCb THEN "idle" ELSE "taken"]
        BY <2>6, <3>2 DEF cancel, TakeOnCancel
      <4>2. /\ cancelCb' \in [Threads -> CancelCbs \cup {NoCancelCb}]
            /\ pc' \in [Threads -> PCs]
        BY <4>1 DEF TypeOK, PCs
      <4>3. t \notin inCancelCb
        BY <2>6 DEF cancel
      <4>4. TypeOK'
        BY <2>6, <4>1, <4>2 DEF cancel, TypeOK, resultVars, promiseVars
      <4> QED BY <2>6, <4>1, <4>3, <4>4, <1>3 DEF cancel, TypeOK, promiseVars
    <3> QED BY <3>1, <3>2
  <2>7. ASSUME NEW t \in Threads, EnterCancelCb(t) PROVE TypeInv'
    <3>1. TypeOK'
      <4>1. cancelCb[t] \in CancelCbs
        BY <2>7 DEF EnterCancelCb, TypeOK
      <4>2. cancelRuns' \in [CancelCbs -> Nat]
        BY <2>7, <4>1 DEF EnterCancelCb, TypeOK
      <4>3. /\ cancelCb' \in [Threads -> CancelCbs \cup {NoCancelCb}]
            /\ pc' \in [Threads -> PCs]
            /\ promiseCount' \in Nat
            /\ inCancelCb' \subseteq Threads
        BY <2>7 DEF EnterCancelCb, TypeOK, PCs
      <4> QED BY <2>7, <4>2, <4>3 DEF EnterCancelCb, TypeOK, resultVars
    <3>2. t \notin inCancelCb
      BY <2>7 DEF EnterCancelCb, TypeOK
    <3>3. Cardinality(inCancelCb') = Cardinality(inCancelCb) + 1
      BY <2>7, <3>2, <1>1, FS_AddElement DEF EnterCancelCb
    <3>4. PromiseCountExact'
      BY <2>7, <3>3, <1>2 DEF EnterCancelCb, PromiseCountExact, Live
    <3> QED BY <2>7, <3>1, <3>4 DEF EnterCancelCb, TypeOK
  <2>8. ASSUME NEW t \in Threads, NEW k \in CancelCbs, setOnCancel(t, k) PROVE TypeInv'
    BY <2>8, <1>3 DEF setOnCancel, TypeOK, PCs, Outcomes, resultVars, cancelVars, promiseVars
  <2>9. ASSUME NEW t \in Threads, Recancel(t) PROVE TypeInv'
    <3>1. CASE isFinished
      BY <2>9, <1>3, <3>1 DEF Recancel, TakeOnCancel, TypeOK, PCs, resultVars, promiseVars
    <3>2. CASE ~isFinished
      <4>1. /\ cancelRequested' = TRUE
            /\ cancelCb' = [cancelCb EXCEPT ![t] = onCancel]
            /\ onCancel' = NoCancelCb
            /\ pc' = [pc EXCEPT ![t] = IF onCancel = NoCancelCb THEN "idle" ELSE "taken"]
        BY <2>9, <3>2 DEF Recancel, TakeOnCancel
      <4>2. /\ cancelCb' \in [Threads -> CancelCbs \cup {NoCancelCb}]
            /\ pc' \in [Threads -> PCs]
        BY <4>1 DEF TypeOK, PCs
      <4>3. t \notin inCancelCb
        BY <2>9 DEF Recancel
      <4>4. TypeOK'
        BY <2>9, <4>1, <4>2 DEF Recancel, TypeOK, resultVars, promiseVars
      <4> QED BY <2>9, <4>1, <4>3, <4>4, <1>3 DEF Recancel, TypeOK, promiseVars
    <3> QED BY <3>1, <3>2
  <2>10. ASSUME NEW t \in Threads, NEW q \in Promises, NEW u \in Threads,
                 CopyPromise(t, q, u) PROVE TypeInv'
    <3>1. Live' = Live \cup {q} /\ q \notin Live
      BY <2>10 DEF CopyPromise, TypeOK, Live
    <3>2. Cardinality(Live') = Cardinality(Live) + 1
      BY <3>1, <1>1, FS_AddElement
    <3>3. PromiseCountExact'
      BY <2>10, <3>2, <1>2 DEF CopyPromise, PromiseCountExact, Live
    <3>4. TypeOK'
      BY <2>10 DEF CopyPromise, TypeOK, resultVars, cancelVars
    <3> QED BY <2>10, <3>3, <3>4 DEF CopyPromise, cancelVars
  <2>11. ASSUME NEW t \in Threads, NEW p \in Promises, DestroyPromise(t, p) PROVE TypeInv'
    <3>1. Live' = Live \ {p} /\ p \in Live
      BY <2>11 DEF DestroyPromise, TypeOK, Live
    <3>2. Cardinality(Live') = Cardinality(Live) - 1
      BY <3>1, <1>1, FS_RemoveElement
    <3>3. Cardinality(Live') \in Nat
      BY <3>1, <1>1, FS_Subset, FS_CardinalityType
    <3>4. PromiseCountExact' /\ promiseCount' \in Nat
      BY <2>11, <3>2, <3>3, <1>2 DEF DestroyPromise, decRefcnt, PromiseCountExact, Live
    <3>5. TypeOK'
      BY <2>11, <3>4 DEF DestroyPromise, decRefcnt, TypeOK, PCs, resultVars, cancelVars
    <3> QED BY <2>11, <3>4, <3>5 DEF DestroyPromise, decRefcnt, TypeOK, cancelVars
  <2>12. ASSUME NEW t \in Threads, LeaveCancelCb(t) PROVE TypeInv'
    <3>1. inCancelCb' = inCancelCb \ {t} /\ t \in inCancelCb
      BY <2>12 DEF LeaveCancelCb
    <3>2. Cardinality(inCancelCb') = Cardinality(inCancelCb) - 1
      BY <3>1, <1>1, FS_RemoveElement
    <3>3. Cardinality(inCancelCb') \in Nat
      BY <3>1, <1>1, FS_Subset, FS_CardinalityType
    <3>4. PromiseCountExact' /\ promiseCount' \in Nat
      BY <2>12, <3>2, <3>3, <1>2 DEF LeaveCancelCb, decRefcnt, PromiseCountExact, Live
    <3>5. TypeOK'
      BY <2>12, <3>4 DEF LeaveCancelCb, decRefcnt, TypeOK, PCs, resultVars, cancelVars
    <3> QED BY <2>12, <3>4, <3>5 DEF LeaveCancelCb, decRefcnt, TypeOK, cancelVars
  <2>13. ASSUME NEW t \in Threads, CheckRunning(t) PROVE TypeInv'
    BY <2>13, <1>3 DEF CheckRunning, TypeOK, PCs, Outcomes, resultVars, cancelVars, promiseVars
  <2>14. ASSUME NEW t \in Threads, setBroken(t) PROVE TypeInv'
    <3>1. CASE isRunning
      <4>1. finish(t, "FinishedWithError") /\ terminated' = terminated
        BY <2>14, <3>1 DEF setBroken
      <4>2. todo' \in [Threads -> Seq(Callbacks)] /\ pc' \in [Threads -> PCs]
        BY <4>1 DEF finish, TypeOK, PCs
      <4> QED BY <2>14, <4>1, <4>2, <1>3, EmptyRange
              DEF setBroken, finish, TypeOK, Outcomes, promiseVars
    <3>2. CASE ~isRunning
      BY <2>14, <1>3, <3>2 DEF setBroken, finish, TypeOK, promiseVars
    <3> QED BY <3>1, <3>2
  <2>15. ASSUME NEW t \in Threads, wait(t) PROVE TypeInv'
    BY <2>15, <1>3 DEF wait, TypeOK, PCs, Outcomes, resultVars, cancelVars, promiseVars
  <2>16. ASSUME NEW t \in Threads, WaitTimeout(t) PROVE TypeInv'
    BY <2>16, <1>3 DEF WaitTimeout, TypeOK, PCs, Outcomes, resultVars, cancelVars, promiseVars
  <2>17. ASSUME NEW t \in Threads, WaitReturn(t) PROVE TypeInv'
    BY <2>17, <1>3 DEF WaitReturn, TypeOK, PCs, Outcomes, resultVars, cancelVars, promiseVars
  <2>18. ASSUME UNCHANGED vars PROVE TypeInv'
    BY <2>18, <1>3 DEF vars, TypeOK, resultVars, cancelVars, promiseVars
  <2> QED BY <2>1, <2>2, <2>3, <2>4, <2>5, <2>6, <2>7, <2>8, <2>9, <2>10, <2>11, <2>12, <2>13, <2>14, <2>15, <2>16, <2>17, <2>18 DEF Next, Call, Continue

-----------------------------------------------------------------------------
(***************************************************************************)
(* The steps of Next, sorted by what they do to the result and to the      *)
(* callbacks: finish the future, call or post a callback, connect one, or  *)
(* leave all of it alone.                                                  *)
(***************************************************************************)
FinishStep(t, o) ==
    /\ pc[t] # "execute"
    /\ finish(t, o)
    /\ UNCHANGED <<posted, connected, runs, cancelRequested, cancelCb,
                   cancelRuns, registered, promiseVars>>

ResultFrame ==
    /\ UNCHANGED <<state, resultVars>>
    /\ \A u \in Threads : (pc[u] = "execute" /\ todo[u] # <<>>) => pc'[u] = "execute"

\* Every step is one of these.
LEMMA ResultSteps ==
    ASSUME TypeInv, [Next]_vars
    PROVE  \/ \E t \in Threads, o \in Outcomes : FinishStep(t, o)
           \/ \E t \in Threads : ExecuteCallback(t)
           \/ \E c \in Callbacks : RunPosted(c)
           \/ \E t \in Threads, c \in Callbacks : connect(t, c)
           \/ ResultFrame
<1> DEFINE Goal ==
           \/ \E t \in Threads, o \in Outcomes : FinishStep(t, o)
           \/ \E t \in Threads : ExecuteCallback(t)
           \/ \E c \in Callbacks : RunPosted(c)
           \/ \E t \in Threads, c \in Callbacks : connect(t, c)
           \/ ResultFrame
<1>1. ASSUME NEW t \in Threads, NEW o \in Outcomes, Set(t, o) PROVE Goal
  <2>1. FinishStep(t, o)
    BY <1>1 DEF Set, FinishStep, Free
  <2> QED BY <2>1
<1>2. ASSUME NEW t \in Threads, setBroken(t) PROVE Goal
  <2>1. FinishStep(t, "FinishedWithError") \/ ResultFrame
    BY <1>2 DEF setBroken, FinishStep, ResultFrame, resultVars
  <2> QED BY <2>1 DEF Outcomes
<1>3. ASSUME NEW t \in Threads, ExecuteDone(t) PROVE ResultFrame
  BY <1>3 DEF ExecuteDone, ResultFrame, TypeInv, TypeOK
<1>4. ASSUME NEW t \in Threads,
             \/ cancel(t) \/ Recancel(t) \/ EnterCancelCb(t) \/ LeaveCancelCb(t)
             \/ CheckRunning(t) \/ wait(t) \/ WaitTimeout(t) \/ WaitReturn(t)
      PROVE  ResultFrame
  BY <1>4 DEF ResultFrame, Free, TypeInv, TypeOK, cancel, Recancel, TakeOnCancel,
              EnterCancelCb, LeaveCancelCb, decRefcnt, CheckRunning, wait,
              WaitTimeout, WaitReturn
<1>5. ASSUME NEW t \in Threads,
             \/ \E k \in CancelCbs : setOnCancel(t, k)
             \/ \E q \in Promises, u \in Threads : CopyPromise(t, q, u)
             \/ \E p \in Promises : DestroyPromise(t, p)
      PROVE  ResultFrame
  BY <1>5 DEF ResultFrame, Free, TypeInv, TypeOK, setOnCancel, CopyPromise,
              DestroyPromise, decRefcnt
<1>6. ASSUME UNCHANGED vars PROVE ResultFrame
  BY <1>6 DEF vars, ResultFrame
<1> QED BY <1>1, <1>2, <1>3, <1>4, <1>5, <1>6 DEF Next, Call, Continue
-----------------------------------------------------------------------------
(***************************************************************************)
(* The callbacks.  NoCallbackLost alone is not inductive: that a callback  *)
(* is called once needs that it is in one place only, and that finish()    *)
(* does not overwrite a list its thread has yet to call.                   *)
(***************************************************************************)
InOnePlace(c) ==
    /\ c \in posted => runs[c] = 0
    /\ Taken(c) => (runs[c] = 0 /\ c \notin posted)
    /\ \A t, u \in Threads : (c \in Range(todo[t]) /\ c \in Range(todo[u])) => t = u

CallbackInv ==
    /\ IsInjective(onResult) /\ Range(onResult) \subseteq connected
    /\ isFinished => onResult = <<>>
    /\ \A t \in Threads : IsInjective(todo[t]) /\ Range(todo[t]) \subseteq connected
    /\ \A t \in Threads : todo[t] # <<>> => (pc[t] = "execute" /\ isFinished)
    /\ posted \subseteq connected
    /\ posted # {} => isFinished
    /\ \A c \in Callbacks : runs[c] # 0 => (runs[c] = 1 /\ c \in connected /\ isFinished)
    /\ \A c \in Callbacks : InOnePlace(c)
    /\ NoCallbackLost

\* Nothing is connected to a fresh promise.
LEMMA CallbackInit == Init => CallbackInv
BY EmptyRange DEF Init, CallbackInv, InOnePlace, NoCallbackLost, Taken, isFinished, Outcomes

\* Every step keeps each callback in its place, or moves it on to the next.
LEMMA CallbackNext == TypeInv /\ CallbackInv /\ [Next]_vars => CallbackInv'
<1> SUFFICES ASSUME TypeInv, CallbackInv, [Next]_vars PROVE CallbackInv'
  OBVIOUS
<1> USE DEF TypeInv
<1>1. ASSUME NEW t \in Threads, NEW o \in Outcomes, FinishStep(t, o) PROVE CallbackInv'
  <2>1. ~isFinished /\ isFinished'
    BY <1>1 DEF FinishStep, finish, isRunning, isFinished, Outcomes
  <2>2. /\ onResult' = <<>> /\ todo' = [todo EXCEPT ![t] = onResult]
        /\ posted' = posted /\ connected' = connected /\ runs' = runs
        /\ pc' = [pc EXCEPT ![t] = "execute"]
    BY <1>1 DEF FinishStep, finish
  <2>3. \A u \in Threads : todo[u] = <<>> /\ Range(todo[u]) = {}
    BY <2>1, EmptyRange DEF CallbackInv
  <2>4. todo'[t] = onResult /\ \A u \in Threads : u # t => todo'[u] = <<>>
    BY <2>2, <2>3 DEF TypeOK
  <2>5. posted = {} /\ \A c \in Callbacks : runs[c] = 0
    BY <2>1 DEF CallbackInv
  <2>6. \A c \in Callbacks : InOnePlace(c)'
    BY <2>2, <2>4, <2>5, EmptyRange DEF InOnePlace, Taken
  <2>7. NoCallbackLost'
    BY <2>1, <2>2, <2>4 DEF CallbackInv, NoCallbackLost, Taken
  <2>8. pc'[t] = "execute"
    BY <2>2 DEF TypeOK
  <2> QED BY <2>1, <2>2, <2>4, <2>5, <2>6, <2>7, <2>8, EmptyRange DEF CallbackInv
<1>2. ASSUME NEW t \in Threads, ExecuteCallback(t) PROVE CallbackInv'
  <2>1. /\ todo[t] # <<>> /\ todo' = [todo EXCEPT ![t] = Tail(@)]
        /\ onResult' = onResult /\ connected' = connected /\ pc' = pc
        /\ state' = state
    BY <1>2 DEF ExecuteCallback
  <2>2. isFinished /\ isFinished'
    BY <2>1 DEF CallbackInv, isFinished
  <2>3. PICK c \in Callbacks :
        /\ c = Head(todo[t]) /\ Tail(todo[t]) \in Seq(Callbacks)
        /\ Range(todo[t]) = {c} \cup Range(Tail(todo[t]))
        /\ IsInjective(Tail(todo[t])) /\ c \notin Range(Tail(todo[t]))
    BY <2>1, TailRange DEF TypeOK, CallbackInv
  <2>4. todo'[t] = Tail(todo[t]) /\ \A u \in Threads : u # t => todo'[u] = todo[u]
    BY <2>1 DEF TypeOK
  <2>5. c \in connected /\ runs[c] = 0 /\ c \notin posted
    BY <2>3 DEF CallbackInv, InOnePlace, Taken
  <2>6. \A u \in Threads : c \notin Range(todo'[u])
    BY <2>3, <2>4 DEF CallbackInv, InOnePlace
  <2>7. \A u \in Threads : Range(todo'[u]) \subseteq Range(todo[u])
    BY <2>3, <2>4
  <2>8. \A d \in Callbacks : d # c => (Taken(d)' <=> Taken(d))
    BY <2>3, <2>4 DEF Taken
  <2>9. \/ posted' = posted \cup {c} /\ runs' = runs
        \/ posted' = posted /\ runs' = [runs EXCEPT ![c] = 1]
    <3>1. \/ posted' = posted \cup {c} /\ runs' = runs
          \/ posted' = posted /\ runs' = [runs EXCEPT ![c] = @ + 1]
      BY <1>2, <2>3 DEF ExecuteCallback
    <3> QED BY <3>1, <2>3, <2>5 DEF TypeOK
  <2>10. \A d \in Callbacks : d # c => (runs'[d] = runs[d] /\ (d \in posted' <=> d \in posted))
    BY <2>9, <2>3 DEF TypeOK
  <2>11. \/ runs'[c] = 0 /\ c \in posted'
         \/ runs'[c] = 1 /\ c \notin posted'
    BY <2>9, <2>3, <2>5 DEF TypeOK
  <2>12. ~Taken(c)'
    BY <2>6 DEF Taken
  <2>13. \A d \in Callbacks : InOnePlace(d)'
    <3> SUFFICES ASSUME NEW d \in Callbacks PROVE InOnePlace(d)'
      OBVIOUS
    <3>1. CASE d = c
      BY <3>1, <2>6, <2>11, <2>12 DEF InOnePlace
    <3>2. CASE d # c
      BY <3>2, <2>7, <2>8, <2>10 DEF InOnePlace, CallbackInv
    <3> QED BY <3>1, <3>2
  <2>14. NoCallbackLost'
    <3> SUFFICES ASSUME NEW d \in connected
                 PROVE  Taken(d)' \/ d \in posted' \/ runs'[d] = 1
      BY <2>1, <2>2 DEF NoCallbackLost
    <3>1. CASE d = c
      BY <3>1, <2>11
    <3>2. CASE d # c
      BY <3>2, <2>2, <2>8, <2>10 DEF CallbackInv, NoCallbackLost, TypeOK
    <3> QED BY <3>1, <3>2
  <2>15. \A u \in Threads : IsInjective(todo'[u]) /\ Range(todo'[u]) \subseteq connected'
    BY <2>1, <2>3, <2>4, <2>7 DEF CallbackInv
  <2>16. \A u \in Threads : todo'[u] # <<>> => (pc'[u] = "execute" /\ isFinished')
    BY <2>1, <2>2, <2>4 DEF CallbackInv
  <2>17. \A d \in Callbacks :
            runs'[d] # 0 => (runs'[d] = 1 /\ d \in connected' /\ isFinished')
    BY <2>1, <2>2, <2>5, <2>10, <2>11 DEF CallbackInv
  <2>18. posted' \subseteq connected'
    BY <2>1, <2>5, <2>9 DEF CallbackInv
  <2> QED BY <2>1, <2>2, <2>13, <2>14, <2>15, <2>16, <2>17, <2>18 DEF CallbackInv
<1>3. ASSUME NEW c \in Callbacks, RunPosted(c) PROVE CallbackInv'
  <2>1. /\ c \in posted /\ posted' = posted \ {c}
        /\ onResult' = onResult /\ connected' = connected /\ pc' = pc
        /\ state' = state /\ todo' = todo
    BY <1>3 DEF RunPosted
  <2>2. isFinished /\ isFinished' /\ runs[c] = 0 /\ ~Taken(c)
    BY <2>1 DEF CallbackInv, isFinished, InOnePlace
  <2>3. runs'[c] = 1 /\ \A d \in Callbacks : d # c => runs'[d] = runs[d]
    BY <1>3, <2>2 DEF RunPosted, TypeOK
  <2>4. \A d \in Callbacks : Taken(d)' <=> Taken(d)
    BY <2>1 DEF Taken
  <2>5. \A d \in Callbacks : InOnePlace(d)'
    BY <2>1, <2>2, <2>3, <2>4 DEF CallbackInv, InOnePlace
  <2>6. NoCallbackLost'
    BY <2>1, <2>2, <2>3, <2>4 DEF CallbackInv, NoCallbackLost, TypeOK
  <2>7. c \in connected
    BY <2>1 DEF CallbackInv
  <2> QED BY <2>1, <2>2, <2>3, <2>5, <2>6, <2>7 DEF CallbackInv
<1>4. ASSUME NEW t \in Threads, NEW c \in Callbacks, connect(t, c) PROVE CallbackInv'
  <2>1. /\ c \notin connected /\ connected' = connected \cup {c} /\ pc[t] = "idle"
        /\ state' = state /\ posted' = posted /\ runs' = runs
    BY <1>4 DEF connect, Free
  <2>2. /\ todo[t] = <<>>
        /\ \A u \in Threads : c \notin Range(todo[u])
        /\ c \notin posted /\ runs[c] = 0 /\ c \notin Range(onResult)
    BY <2>1 DEF CallbackInv
  <2>3. CASE isFinished
    <3>1. /\ todo' = [todo EXCEPT ![t] = <<c>>] /\ onResult' = onResult
          /\ pc' = [pc EXCEPT ![t] = "execute"] /\ isFinished'
      BY <1>4, <2>3, <2>1 DEF connect, isFinished
    <3>2. /\ todo'[t] = <<c>> /\ pc'[t] = "execute"
          /\ \A u \in Threads : u # t => (todo'[u] = todo[u] /\ pc'[u] = pc[u])
      BY <3>1 DEF TypeOK
    <3>3. Range(<<c>>) = {c} /\ IsInjective(<<c>>)
      BY DEF Range, IsInjective
    <3>4. \A d \in Callbacks : d # c => (Taken(d)' <=> Taken(d))
      BY <2>2, <3>2, <3>3, EmptyRange DEF Taken
    <3>5. \A d \in Callbacks : InOnePlace(d)'
      BY <2>1, <2>2, <3>2, <3>3, <3>4, EmptyRange DEF CallbackInv, InOnePlace
    <3>6. Taken(c)'
      BY <3>2, <3>3 DEF Taken
    <3>7. NoCallbackLost'
      BY <2>1, <2>3, <3>1, <3>4, <3>6 DEF CallbackInv, NoCallbackLost, TypeOK
    <3>8. \A u \in Threads : IsInjective(todo'[u]) /\ Range(todo'[u]) \subseteq connected'
      BY <2>1, <3>2, <3>3 DEF CallbackInv
    <3> QED BY <2>1, <2>3, <3>1, <3>2, <3>5, <3>7, <3>8 DEF CallbackInv
  <2>4. CASE ~isFinished
    <3>1. onResult' = Append(onResult, c) /\ todo' = todo /\ pc' = pc /\ ~isFinished'
      BY <1>4, <2>4, <2>1 DEF connect, isFinished
    <3>2. IsInjective(onResult') /\ Range(onResult') = Range(onResult) \cup {c}
      BY <3>1, <2>2, AppendRange DEF CallbackInv, TypeOK
    <3>3. \A d \in Callbacks : InOnePlace(d)'
      BY <2>1, <3>1 DEF CallbackInv, InOnePlace, Taken
    <3>4. NoCallbackLost'
      BY <2>1, <2>4, <3>1, <3>2 DEF CallbackInv, NoCallbackLost
    <3>5. Range(onResult') \subseteq connected'
      BY <2>1, <3>2 DEF CallbackInv
    <3> QED BY <2>1, <2>4, <3>1, <3>2, <3>3, <3>4, <3>5 DEF CallbackInv
  <2> QED BY <2>3, <2>4
<1>5. ASSUME ResultFrame PROVE CallbackInv'
  <2>1. /\ onResult' = onResult /\ todo' = todo /\ posted' = posted
        /\ connected' = connected /\ runs' = runs /\ state' = state
        /\ \A u \in Threads : (pc[u] = "execute" /\ todo[u] # <<>>) => pc'[u] = "execute"
    BY <1>5 DEF ResultFrame, resultVars
  <2> QED BY <2>1 DEF CallbackInv, InOnePlace, NoCallbackLost, Taken, isFinished
<1> QED BY <1>1, <1>2, <1>3, <1>4, <1>5, ResultSteps
-----------------------------------------------------------------------------
(***************************************************************************)
(* Cancellation.  A cancel callback is given once, is in one place, and    *)
(* the thread that took it out is the one that calls it.                   *)
(***************************************************************************)
CancelInv ==
    /\ \A t \in Threads : cancelCb[t] # NoCancelCb => pc[t] = "taken"
    /\ onCancel # NoCancelCb => onCancel \in registered
    /\ \A t \in Threads : cancelCb[t] # NoCancelCb => cancelCb[t] \in registered
    /\ \A k \in CancelCbs : cancelRuns[k] # 0 => k \in registered
    /\ CancelOnce
    /\ CancelDelivered

CancelFrame ==
    /\ UNCHANGED <<state, cancelVars>>
    /\ \A u \in Threads : pc[u] \in {"taken", "recancel"} => pc'[u] = pc[u]

\* The steps of Next, sorted by what they do to the cancel callback.
LEMMA CancelSteps ==
    ASSUME TypeInv, [Next]_vars
    PROVE  \/ \E t \in Threads, o \in Outcomes :
                 FinishStep(t, o) /\ pc[t] \notin {"taken", "recancel"}
           \/ \E t \in Threads : cancel(t) \/ Recancel(t)
           \/ \E t \in Threads : EnterCancelCb(t)
           \/ \E t \in Threads, k \in CancelCbs : setOnCancel(t, k)
           \/ CancelFrame
<1> DEFINE Goal ==
           \/ \E t \in Threads, o \in Outcomes :
                 FinishStep(t, o) /\ pc[t] \notin {"taken", "recancel"}
           \/ \E t \in Threads : cancel(t) \/ Recancel(t)
           \/ \E t \in Threads : EnterCancelCb(t)
           \/ \E t \in Threads, k \in CancelCbs : setOnCancel(t, k)
           \/ CancelFrame
<1>1. ASSUME NEW t \in Threads, NEW o \in Outcomes, Set(t, o) PROVE Goal
  <2>1. FinishStep(t, o) /\ pc[t] \notin {"taken", "recancel"}
    BY <1>1 DEF Set, FinishStep, Free
  <2> QED BY <2>1
<1>2. ASSUME NEW t \in Threads, setBroken(t) PROVE Goal
  <2>1. \/ FinishStep(t, "FinishedWithError") /\ pc[t] \notin {"taken", "recancel"}
        \/ CancelFrame
    BY <1>2 DEF setBroken, FinishStep, CancelFrame, cancelVars
  <2> QED BY <2>1 DEF Outcomes
<1>3. ASSUME NEW t \in Threads,
             \/ ExecuteCallback(t) \/ ExecuteDone(t) \/ LeaveCancelCb(t)
             \/ CheckRunning(t) \/ wait(t) \/ WaitTimeout(t) \/ WaitReturn(t)
      PROVE  CancelFrame
  BY <1>3 DEF CancelFrame, Free, TypeInv, TypeOK, ExecuteCallback, ExecuteDone,
              LeaveCancelCb, decRefcnt, CheckRunning, wait, WaitTimeout, WaitReturn
<1>4. ASSUME NEW t \in Threads,
             \/ \E c \in Callbacks : connect(t, c)
             \/ \E q \in Promises, u \in Threads : CopyPromise(t, q, u)
             \/ \E p \in Promises : DestroyPromise(t, p)
      PROVE  CancelFrame
  BY <1>4 DEF CancelFrame, Free, TypeInv, TypeOK, connect, CopyPromise,
              DestroyPromise, decRefcnt
<1>5. ASSUME NEW c \in Callbacks, RunPosted(c) PROVE CancelFrame
  BY <1>5 DEF CancelFrame, RunPosted
<1>6. ASSUME UNCHANGED vars PROVE CancelFrame
  BY <1>6 DEF vars, CancelFrame
<1> QED BY <1>1, <1>2, <1>3, <1>4, <1>5, <1>6 DEF Next, Call, Continue

\* No cancel callback is stored in a fresh promise.
LEMMA CancelInit == Init => CancelInv
BY NoCancelCbAssumption DEF Init, CancelInv, CancelOnce, CancelDelivered

\* Every step keeps each cancel callback in its place, or moves it on.
LEMMA CancelNext == TypeInv /\ CancelInv /\ [Next]_vars => CancelInv'
<1> SUFFICES ASSUME TypeInv, CancelInv, [Next]_vars PROVE CancelInv'
  OBVIOUS
<1> USE NoCancelCbAssumption DEF TypeInv
<1>1. ASSUME NEW t \in Threads, NEW o \in Outcomes, FinishStep(t, o),
             pc[t] \notin {"taken", "recancel"}
      PROVE  CancelInv'
  <2>1. /\ onCancel' = NoCancelCb /\ cancelCb' = cancelCb
        /\ cancelRuns' = cancelRuns /\ registered' = registered
        /\ \A u \in Threads : pc[u] = "taken" => pc'[u] = "taken"
    BY <1>1 DEF FinishStep, finish, TypeOK
  <2>2. CancelOnce'
    BY <2>1 DEF CancelInv, CancelOnce
  <2> QED BY <2>1, <2>2 DEF CancelInv, CancelDelivered
<1>2. ASSUME NEW t \in Threads, cancel(t) \/ Recancel(t) PROVE CancelInv'
  <2>1. /\ TakeOnCancel(t) /\ cancelRuns' = cancelRuns
        /\ registered' = registered /\ state' = state
        /\ pc[t] # "taken"
    BY <1>2 DEF cancel, Recancel, Free
  <2>2. CASE isFinished
    <3>1. /\ onCancel' = onCancel /\ cancelCb' = cancelCb
          /\ \A u \in Threads : pc[u] = "taken" => pc'[u] = "taken"
      BY <2>1, <2>2 DEF TakeOnCancel, TypeOK
    <3>2. CancelOnce'
      BY <2>1, <3>1 DEF CancelInv, CancelOnce
    <3>3. ~isRunning'
      BY <2>1, <2>2 DEF isFinished, isRunning, Outcomes
    <3> QED BY <2>1, <3>1, <3>2, <3>3 DEF CancelInv, CancelDelivered
  <2>3. CASE ~isFinished
    <3>1. /\ onCancel' = NoCancelCb /\ cancelCb'[t] = onCancel
          /\ \A u \in Threads : u # t => (cancelCb'[u] = cancelCb[u] /\ pc'[u] = pc[u])
          /\ onCancel # NoCancelCb => pc'[t] = "taken"
      BY <2>1, <2>3 DEF TakeOnCancel, TypeOK
    <3>2. CancelOnce'
      BY <2>1, <3>1 DEF CancelInv, CancelOnce
    <3> QED BY <2>1, <3>1, <3>2 DEF CancelInv, CancelDelivered
  <2> QED BY <2>2, <2>3
<1>3. ASSUME NEW t \in Threads, EnterCancelCb(t) PROVE CancelInv'
  <2>1. cancelCb[t] \in CancelCbs
    BY <1>3 DEF EnterCancelCb, TypeOK
  <2>2. PICK k \in CancelCbs : k = cancelCb[t]
    BY <2>1
  <2>3. /\ onCancel' = onCancel /\ registered' = registered /\ state' = state
        /\ cancelRequested' = cancelRequested /\ pc[t] = "taken"
        /\ cancelCb'[t] = NoCancelCb
        /\ \A u \in Threads : u # t => (cancelCb'[u] = cancelCb[u] /\ pc'[u] = pc[u])
        /\ pc'[t] = "idle"
    BY <1>3 DEF EnterCancelCb, TypeOK
  <2>4. cancelRuns[k] = 0 /\ onCancel # k
    BY <2>2 DEF CancelInv, CancelOnce
  <2>5. cancelRuns'[k] = 1 /\ \A j \in CancelCbs : j # k => cancelRuns'[j] = cancelRuns[j]
    BY <1>3, <2>2, <2>4 DEF EnterCancelCb, TypeOK
  <2>6. CancelOnce'
    BY <2>2, <2>3, <2>4, <2>5 DEF CancelInv, CancelOnce
  <2>7. CancelDelivered'
    BY <2>3 DEF CancelInv, CancelDelivered, isRunning
  <2> QED BY <2>2, <2>3, <2>5, <2>6, <2>7 DEF CancelInv
<1>4. ASSUME NEW t \in Threads, NEW k \in CancelCbs, setOnCancel(t, k) PROVE CancelInv'
  <2>1. /\ k \notin registered /\ registered' = registered \cup {k} /\ onCancel' = k
        /\ cancelCb' = cancelCb /\ cancelRuns' = cancelRuns
        /\ cancelRequested' = cancelRequested /\ state' = state
        /\ pc[t] = "idle"
        /\ cancelRequested => pc'[t] = "recancel"
        /\ \A u \in Threads : u # t => pc'[u] = pc[u]
    BY <1>4 DEF setOnCancel, Free, TypeOK
  <2>2. cancelRuns[k] = 0 /\ \A u \in Threads : cancelCb[u] # k
    BY <2>1 DEF CancelInv
  <2>3. CancelOnce'
    BY <2>1, <2>2 DEF CancelInv, CancelOnce
  <2>4. CancelDelivered'
    BY <2>1 DEF CancelDelivered
  <2> QED BY <2>1, <2>3, <2>4 DEF CancelInv
<1>5. ASSUME CancelFrame PROVE CancelInv'
  <2>1. /\ state' = state /\ cancelRequested' = cancelRequested
        /\ onCancel' = onCancel /\ cancelCb' = cancelCb
        /\ cancelRuns' = cancelRuns /\ registered' = registered
        /\ \A u \in Threads : pc[u] \in {"taken", "recancel"} => pc'[u] = pc[u]
    BY <1>5 DEF CancelFrame, cancelVars
  <2>2. CancelOnce'
    BY <2>1 DEF CancelInv, CancelOnce
  <2>3. CancelDelivered'
    BY <2>1 DEF CancelInv, CancelDelivered, isRunning
  <2> QED BY <2>1, <2>2, <2>3 DEF CancelInv
<1> QED BY <1>1, <1>2, <1>3, <1>4, <1>5, CancelSteps
-----------------------------------------------------------------------------
(***************************************************************************)
(* Waiting threads and dropped promises.                                   *)
(***************************************************************************)

\* A thread starts to wait only while the future runs, and finish() wakes all.
LEMMA WakeupNext == NoLostWakeup /\ [Next]_vars => NoLostWakeup'
<1> SUFFICES ASSUME NoLostWakeup, [Next]_vars PROVE NoLostWakeup'
  OBVIOUS
<1> USE DEF NoLostWakeup, isFinished, isRunning, Outcomes
<1>1. ASSUME NEW t \in Threads, Continue(t) PROVE NoLostWakeup'
  BY <1>1 DEF Continue, ExecuteCallback, ExecuteDone, EnterCancelCb, LeaveCancelCb,
              Recancel, CheckRunning, setBroken, finish, WaitReturn
<1>2. ASSUME NEW t \in Threads, Call(t) PROVE NoLostWakeup'
  BY <1>2 DEF Call, Set, finish, connect, setOnCancel, cancel, CopyPromise,
              DestroyPromise, wait, WaitTimeout
<1>3. ASSUME NEW c \in Callbacks, RunPosted(c) PROVE NoLostWakeup'
  BY <1>3 DEF RunPosted
<1>4. ASSUME UNCHANGED vars PROVE NoLostWakeup'
  BY <1>4 DEF vars
<1> QED BY <1>1, <1>2, <1>3, <1>4 DEF Next

\* Only decRefcnt() brings the count to 0, and it leaves the thread that did so
\* between there and setBroken() until the future is finished.
LEMMA OrphanNext == TypeInv /\ NoOrphan /\ [Next]_vars => NoOrphan'
<1> DEFINE Doomed(u) == pc[u] \in {"last", "broken"}
<1> SUFFICES ASSUME TypeInv, NoOrphan, [Next]_vars, isRunning', promiseCount' = 0
             PROVE  \E t \in Threads : Doomed(t)'
  BY DEF NoOrphan
<1>1. ASSUME NEW t \in Threads, decRefcnt(t) PROVE Doomed(t)'
  BY <1>1 DEF decRefcnt, TypeInv, TypeOK
<1>2. ASSUME state' = state, promiseCount' = promiseCount,
             \A u \in Threads : Doomed(u) => Doomed(u)'
      PROVE  \E t \in Threads : Doomed(t)'
  BY <1>2 DEF NoOrphan, isRunning
<1>3. ASSUME NEW t \in Threads,
             \/ ExecuteCallback(t) \/ ExecuteDone(t) \/ Recancel(t) \/ CheckRunning(t)
             \/ cancel(t) \/ wait(t) \/ WaitTimeout(t) \/ WaitReturn(t)
      PROVE  \E u \in Threads : Doomed(u)'
  <2>1. state' = state /\ promiseCount' = promiseCount
    BY <1>3 DEF ExecuteCallback, ExecuteDone, Recancel, CheckRunning, cancel, wait,
                WaitTimeout, WaitReturn, promiseVars
  <2>2. ASSUME NEW u \in Threads, Doomed(u) PROVE Doomed(u)'
    BY <1>3, <2>1, <2>2 DEF ExecuteCallback, ExecuteDone, Recancel, CheckRunning,
       cancel, wait, WaitTimeout, WaitReturn, Free, TakeOnCancel, TypeInv, TypeOK, isRunning
  <2> QED BY <2>1, <2>2, <1>2
<1>4. ASSUME NEW t \in Threads,
             \/ \E c \in Callbacks : connect(t, c)
             \/ \E k \in CancelCbs : setOnCancel(t, k)
      PROVE  \E u \in Threads : Doomed(u)'
  <2>1. state' = state /\ promiseCount' = promiseCount
    BY <1>4 DEF connect, setOnCancel, promiseVars
  <2>2. ASSUME NEW u \in Threads, Doomed(u) PROVE Doomed(u)'
    BY <1>4, <2>2 DEF connect, setOnCancel, Free, TypeInv, TypeOK
  <2> QED BY <2>1, <2>2, <1>2
<1>5. ASSUME NEW t \in Threads, setBroken(t) \/ \E o \in Outcomes : Set(t, o) PROVE FALSE
  BY <1>5 DEF setBroken, Set, finish, isRunning, Outcomes
<1>6. ASSUME NEW t \in Threads,
             \/ EnterCancelCb(t)
             \/ \E q \in Promises, u \in Threads : CopyPromise(t, q, u)
      PROVE  FALSE
  BY <1>6 DEF EnterCancelCb, CopyPromise, TypeInv, TypeOK
<1>7. ASSUME NEW c \in Callbacks, RunPosted(c) PROVE \E u \in Threads : Doomed(u)'
  BY <1>7, <1>2 DEF RunPosted, promiseVars
<1>8. ASSUME UNCHANGED vars PROVE \E u \in Threads : Doomed(u)'
  BY <1>8, <1>2 DEF vars, promiseVars
<1>9. ASSUME NEW t \in Threads, LeaveCancelCb(t) \/ \E p \in Promises : DestroyPromise(t, p)
      PROVE  Doomed(t)'
  BY <1>9, <1>1 DEF LeaveCancelCb, DestroyPromise
<1> HIDE DEF Doomed
<1> QED BY <1>3, <1>4, <1>5, <1>6, <1>7, <1>8, <1>9 DEF Next, Call, Continue
-----------------------------------------------------------------------------
(***************************************************************************)
(* The theorems.                                                           *)
(***************************************************************************)
FutureInv ==
    /\ TypeInv
    /\ CallbackInv
    /\ CancelInv
    /\ NoLostWakeup
    /\ NoOrphan

\* The inductive invariant of a promise and its future.
THEOREM InductiveInvariant == Spec => []FutureInv
<1>1. Init => NoLostWakeup /\ NoOrphan
  BY DEF Init, NoLostWakeup, NoOrphan
<1>2. Init => FutureInv
  BY <1>1, TypeInit, CallbackInit, CancelInit DEF FutureInv
<1>3. FutureInv /\ [Next]_vars => FutureInv'
  BY TypeNext, CallbackNext, CancelNext, WakeupNext, OrphanNext DEF FutureInv
<1> QED BY <1>2, <1>3, PTL DEF Spec

\* The state of FutureBaseTyped keeps its types, and _promiseCount, which
\* decRefcnt() decrements without a check, never wraps below 0.
THEOREM TypeCorrect == Spec => []TypeOK
<1>1. FutureInv => TypeOK
  BY DEF FutureInv, TypeInv
<1> QED BY <1>1, InductiveInvariant, PTL

\* _promiseCount counts the live promises.
THEOREM PromiseCountCorrect == Spec => []PromiseCountExact
<1>1. FutureInv => PromiseCountExact
  BY DEF FutureInv, TypeInv
<1> QED BY <1>1, InductiveInvariant, PTL

\* No interleaving of connect(), finish() and executeCallbacks() loses a callback.
THEOREM CallbacksKept == Spec => []NoCallbackLost
<1>1. FutureInv => NoCallbackLost
  BY DEF FutureInv, CallbackInv
<1> QED BY <1>1, InductiveInvariant, PTL

\* Nobody stays blocked in wait() on a finished future.
THEOREM WakeupsKept == Spec => []NoLostWakeup
<1>1. FutureInv => NoLostWakeup
  BY DEF FutureInv
<1> QED BY <1>1, InductiveInvariant, PTL

\* A cancel callback is called at most once, by the one thread that took it
\* out.
THEOREM CancelAtMostOnce == Spec => []CancelOnce
<1>1. FutureInv => CancelOnce
  BY DEF FutureInv, CancelInv
<1> QED BY <1>1, InductiveInvariant, PTL

\* A cancel that came before the cancel callback is delivered to it.
THEOREM CancelKept == Spec => []CancelDelivered
<1>1. FutureInv => CancelDelivered
  BY DEF FutureInv, CancelInv
<1> QED BY <1>1, InductiveInvariant, PTL

\* A future without promises is finished, or about to be broken.
THEOREM OrphansBroken == Spec => []NoOrphan
<1>1. FutureInv => NoOrphan
  BY DEF FutureInv
<1> QED BY <1>1, InductiveInvariant, PTL
-----------------------------------------------------------------------------
(***************************************************************************)
(* Refinement: every step of Spec is a step of OneShot, or none.           *)
(***************************************************************************)

\* A promise and its future implement the one-shot specification: the outcome
\* is set once and kept, and a callback is called once, after it.
THEOREM ImplementsOneShot == Spec => OneShotSpec
<1>1. Init => OneShotOf!Init
  BY DEF Init, OneShotOf!Init
<1>2. FutureInv /\ [Next]_vars => [OneShotOf!Next]_<<state, runs>>
  <2> SUFFICES ASSUME FutureInv, [Next]_vars
               PROVE  OneShotOf!Next \/ UNCHANGED <<state, runs>>
    OBVIOUS
  <2> USE DEF FutureInv
  <2>1. ASSUME NEW t \in Threads, NEW o \in Outcomes, FinishStep(t, o)
        PROVE  OneShotOf!Complete
    BY <2>1 DEF FinishStep, finish, isRunning, OneShotOf!Complete
  <2>2. ASSUME NEW t \in Threads, ExecuteCallback(t)
        PROVE  (\E c \in Callbacks : OneShotOf!Notify(c)) \/ UNCHANGED <<state, runs>>
    <3>1. PICK c \in Callbacks :
             c = Head(todo[t]) /\ c \in Range(todo[t]) /\ todo[t] # <<>>
      BY <2>2, TailRange DEF ExecuteCallback, TypeInv, TypeOK
    <3>2. isFinished /\ runs[c] = 0
      BY <3>1 DEF CallbackInv, InOnePlace, Taken
    <3>3. \/ UNCHANGED <<state, runs>>
          \/ state' = state /\ runs' = [runs EXCEPT ![c] = 1]
      BY <2>2, <3>1, <3>2 DEF ExecuteCallback, TypeInv, TypeOK
    <3> QED BY <3>2, <3>3 DEF OneShotOf!Notify, isFinished
  <2>3. ASSUME NEW c \in Callbacks, RunPosted(c) PROVE OneShotOf!Notify(c)
    <3>1. isFinished /\ runs[c] = 0
      BY <2>3 DEF RunPosted, CallbackInv, InOnePlace
    <3>2. state' = state /\ runs' = [runs EXCEPT ![c] = 1]
      BY <2>3, <3>1 DEF RunPosted, TypeInv, TypeOK
    <3> QED BY <3>1, <3>2 DEF OneShotOf!Notify, isFinished
  <2>4. ASSUME NEW t \in Threads, NEW c \in Callbacks, connect(t, c)
        PROVE  UNCHANGED <<state, runs>>
    BY <2>4 DEF connect
  <2>5. ASSUME ResultFrame PROVE UNCHANGED <<state, runs>>
    BY <2>5 DEF ResultFrame, resultVars
  <2> QED BY <2>1, <2>2, <2>3, <2>4, <2>5, ResultSteps DEF OneShotOf!Next
<1> QED BY <1>1, <1>2, InductiveInvariant, PTL DEF Spec, OneShotSpec, OneShotOf!Spec
=============================================================================
