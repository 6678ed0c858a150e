------------------------ MODULE SessionServiceProofs ------------------------
(***************************************************************************)
(* Proofs about SessionService, for any calls, services, sockets and       *)
(* requests.                                                               *)
(***************************************************************************)
EXTENDS SessionService, TLAPS

Waiting == {"directory", "cache", "socket", "auth", "meta", "remove", "end"}

\* What a request waits for while nobody listens to its socket for it.
Quiet == {"none", "directory", "cache", "socket", "remove"}

\* The part of the type invariant that is about requests.
RequestTypes ==
  /\ req \in [Requests -> [service : Services, wait : {"none"} \cup Waiting]]
  /\ prom \in [Requests -> {"running", "value", "error", "canceled"}]
  /\ canceling \in [Requests -> {"no", "remove", "set", "done"}]
  /\ event \in [Requests -> {"none", "done", "cont", "invalid", "other", "down"}]
  /\ meta \in [Requests -> {"none", "running", "value", "error", "handled"}]
  /\ live \subseteq Requests /\ wants \in [Calls -> Services]
  /\ call \in [Calls -> {"none", "looked", "object", "future"}] /\ DOMAIN answer = Calls

\* A request that was not made yet has left no trace, one that does not listen to its
\* socket none in the callbacks and the messages.
Fresh ==
  \A r \in Requests :
    /\ req[r].wait = "none" => prom[r] = "running" /\ canceling[r] = "no" /\ r \notin live
    /\ req[r].wait \in Quiet =>
         /\ event[r] = "none" /\ meta[r] = "none" /\ r \notin subscribed
         /\ <<"meta", r>> \notin wire /\ <<"auth", r>> \notin wire

\* A call that has a future has that of a request.
Asked == \A c \in Calls : \A r \in Requests :
           call[c] = "future" /\ answer[c] = r => req[r].wait # "none"

\* A request whose cancellation has removed it stays out of the map.
CanceledIsOut == \A r \in Requests : canceling[r] \in {"set", "done"} => r \notin live

\* What a callback makes a request fail for has a cause.
Causes ==
  \A r \in Requests :
    /\ event[r] = "down" => SocketFor(r) \notin up
    /\ event[r] \in {"cont", "invalid"} => r \in misled
    /\ meta[r] = "error" => r \in caused \/ SocketFor(r) \notin up

IInv ==
  /\ RequestTypes
  /\ Fresh
  /\ Asked
  /\ CanceledIsOut
  /\ Causes
  /\ LiveIsRunning
  /\ FailsForACause

-----------------------------------------------------------------------------
\* Before the first call nothing has been asked for and nothing has failed.
LEMMA InitIInv == Init => IInv
<1> SUFFICES ASSUME Init PROVE IInv
  OBVIOUS
<1> DEFINE r0 == [service |-> CHOOSE s \in Services : TRUE, wait |-> "none"]
<1>1. req \in [Requests -> {r0}]
  BY DEF Init
<1>2. ASSUME NEW r \in Requests PROVE req[r] = r0 /\ req[r].wait = "none"
  BY <1>1
<1>3. wants \in [Calls -> Services]
  BY ServiceAssumption DEF Init
<1>4. r0.service \in Services
  BY ServiceAssumption
<1>5. req \in [Requests -> [service : Services, wait : {"none"} \cup Waiting]]
  BY <1>1, <1>4
<1>6. RequestTypes
  BY <1>3, <1>5 DEF Init, RequestTypes
<1>7. Fresh /\ Asked /\ CanceledIsOut /\ Causes
  BY <1>2 DEF Init, Fresh, Quiet, Asked, CanceledIsOut, Causes
<1>8. LiveIsRunning /\ FailsForACause
  BY DEF Init, LiveIsRunning, FailsForACause
<1>9. QED
  BY <1>6, <1>7, <1>8 DEF IInv

-----------------------------------------------------------------------------
\* Steps that leave the map of requests and their promises alone.

\* service() finds an object, or not.
LEMMA LookUpKeeps == ASSUME IInv, NEW c \in Calls, LookUp(c) PROVE IInv'
<1>1. /\ \A d \in Calls : call'[d] = "future" => call[d] = "future" /\ answer'[d] = answer[d]
      /\ call' \in [Calls -> {"none", "looked", "object", "future"}] /\ DOMAIN answer' = Calls
  BY DEF LookUp, IInv, RequestTypes
<1>2. UNCHANGED <<setting, requests, auth, network, blame>>
  BY DEF LookUp
<1>3. RequestTypes' /\ Asked'
  BY <1>1, <1>2 DEF IInv, RequestTypes, Asked, requests, setting, auth, Waiting
<1>4. Fresh' /\ CanceledIsOut' /\ Causes' /\ LiveIsRunning' /\ FailsForACause'
  BY <1>2 DEF IInv, Fresh, Quiet, CanceledIsOut, Causes, LiveIsRunning, FailsForACause, requests, auth,
              network, setting, SocketFor, blame
<1>5. QED
  BY <1>3, <1>4 DEF IInv

\* A request is made for a service that nobody asks for.
LEMMA RequestKeeps == ASSUME IInv, NEW c \in Calls, Request(c) PROVE IInv'
<1> DEFINE same == {r \in live : req[r].service = wants[c]}
           n == CHOOSE r \in Free : TRUE
<1>1. /\ call[c] = "looked" /\ call' = [call EXCEPT ![c] = "future"]
      /\ UNCHANGED <<setting, prom, object, canceling, objects, auth, network, registry, blame>>
  BY DEF Request
<1>2. CASE same # {}
  <2>1. PICK q \in same : answer' = [answer EXCEPT ![c] = q] /\ UNCHANGED <<req, live>>
    BY <1>2 DEF Request
  <2>2. q \in Requests /\ req[q].wait # "none"
    BY <2>1 DEF IInv, RequestTypes, Fresh, Quiet
  <2>3. Asked'
    BY <1>1, <2>1, <2>2 DEF IInv, Asked, RequestTypes
  <2>4. RequestTypes'
    BY <1>1, <2>1 DEF IInv, RequestTypes, setting, auth, Waiting
  <2>5. Fresh' /\ CanceledIsOut' /\ Causes' /\ LiveIsRunning' /\ FailsForACause'
    BY <1>1, <2>1 DEF IInv, Fresh, Quiet, CanceledIsOut, Causes, LiveIsRunning, FailsForACause, auth,
                      network, setting, SocketFor, blame
  <2>6. QED
    BY <2>3, <2>4, <2>5 DEF IInv
<1>3. CASE same = {}
  <2>1. /\ Free # {} /\ live' = live \cup {n}
        /\ req' = [req EXCEPT ![n] = [service |-> wants[c], wait |-> "directory"]]
        /\ answer' = [answer EXCEPT ![c] = n]
    BY <1>3 DEF Request
  <2>4. n \in Free
    BY <2>1
  <2> HIDE DEF n
  <2>5. /\ n \in Requests /\ req[n].wait = "none" /\ wants[c] \in Services
        /\ prom[n] = "running" /\ canceling[n] = "no" /\ event[n] = "none" /\ meta[n] = "none"
    BY <2>4 DEF Free, IInv, Fresh, Quiet, RequestTypes
  <2>6. /\ \A r \in Requests \ {n} : req'[r] = req[r]
        /\ req'[n] = [service |-> wants[c], wait |-> "directory"]
        /\ req' \in [Requests -> [service : Services, wait : {"none"} \cup Waiting]]
    BY <2>1, <2>5 DEF IInv, RequestTypes, Waiting
  <2>7. RequestTypes'
    BY <1>1, <2>1, <2>5, <2>6 DEF IInv, RequestTypes, setting, auth
  <2>8. Fresh' /\ CanceledIsOut' /\ LiveIsRunning'
    BY <1>1, <2>1, <2>5, <2>6 DEF IInv, Fresh, Quiet, CanceledIsOut, LiveIsRunning, auth, network
  <2>9. Asked'
    BY <1>1, <2>1, <2>5, <2>6 DEF IInv, Asked, RequestTypes
  <2>10. Causes'
    BY <1>1, <2>5, <2>6 DEF IInv, Causes, SocketFor, auth, network, blame
  <2>11. FailsForACause'
    BY <1>1, <2>5, <2>6 DEF IInv, FailsForACause, SocketFor, setting, network, blame
  <2>12. QED
    BY <2>7, <2>8, <2>9, <2>10, <2>11 DEF IInv
<1>4. QED
  BY <1>2, <1>3

-----------------------------------------------------------------------------
\* What a callback does with a request: it removes it in error, finds that it was
\* removed, or lets it wait for the next answer.

\* Whoever fails a request removes it from the map.
LEMMA FailKeeps ==
  ASSUME IInv, NEW r \in live, Fail(r)
  PROVE  /\ req' \in [Requests -> [service : Services, wait : {"none"} \cup Waiting]]
         /\ prom' \in [Requests -> {"running", "value", "error", "canceled"}]
         /\ \A q \in Requests : /\ req'[q].service = req[q].service
                                /\ q # r => req'[q] = req[q] /\ prom'[q] = prom[q]
         /\ req'[r].wait = "end" /\ prom'[r] = "error" /\ live' = live \ {r}
         /\ canceling' = canceling
<1>1. r \in Requests
  BY DEF IInv, RequestTypes
<1>2. QED
  BY <1>1 DEF IInv, RequestTypes, Fail, Waiting

\* Letting it wait changes nothing else.
LEMMA WaitKeeps ==
  ASSUME IInv, NEW r \in Requests, NEW w \in Waiting, req' = [req EXCEPT ![r].wait = w]
  PROVE  /\ req' \in [Requests -> [service : Services, wait : {"none"} \cup Waiting]]
         /\ \A q \in Requests : /\ req'[q].service = req[q].service
                                /\ q # r => req'[q] = req[q]
         /\ req'[r].wait = w
  BY DEF IInv, RequestTypes, Waiting

\* It failed itself, was misled, or its socket is disconnected.
Excused(r) == r \in caused' \cup misled \/ SocketFor(r) \notin up

\* What the steps of a request have in common: it waits for something else, and is
\* either untouched, or removed and its promise set, in error only for a cause.
Advances(r) ==
  /\ req' \in [Requests -> [service : Services, wait : {"none"} \cup Waiting]]
  /\ prom' \in [Requests -> {"running", "value", "error", "canceled"}]
  /\ \A q \in Requests : /\ req'[q].service = req[q].service
                         /\ q # r => req'[q] = req[q] /\ prom'[q] = prom[q]
  /\ req'[r].wait # "none" /\ req[r].wait # "none"
  /\ \/ live' = live /\ prom' = prom /\ (r \in live => req'[r].wait = "remove" \/ prom[r] = "running")
     \/ live' = live /\ req'[r].wait = "remove" /\ r \in caused'
     \/ /\ live' = live \ {r}
        /\ prom'[r] = prom[r] \/ (prom'[r] = "error" /\ ~enforce => Excused(r))
  /\ canceling' = canceling
  /\ UNCHANGED <<setting, users, up, misled>> /\ caused \subseteq caused'

\* The traces of the requests in the callbacks and the messages.
Traces ==
  /\ event' \in [Requests -> {"none", "done", "cont", "invalid", "other", "down"}]
  /\ meta' \in [Requests -> {"none", "running", "value", "error", "handled"}]
  /\ \A q \in Requests :
       /\ event'[q] # event[q] => event'[q] = "none"
       /\ meta'[q] # meta[q] => req'[q].wait # "none" /\ (meta'[q] = "error" => SocketFor(q) \notin up)
       /\ req'[q].wait \in Quiet => /\ event'[q] = "none" /\ meta'[q] = "none" /\ q \notin subscribed'
                                   /\ <<"meta", q>> \notin wire' /\ <<"auth", q>> \notin wire'

\* A continuation that advances one request keeps the invariant.
LEMMA AdvanceKeeps == ASSUME IInv, NEW r \in Requests, Advances(r), Traces PROVE IInv'
<1>1. RequestTypes'
  BY DEF IInv, RequestTypes, Advances, Traces, setting, users
<1>2. Fresh'
  <2> SUFFICES ASSUME NEW q \in Requests
               PROVE  /\ req'[q].wait = "none" => prom'[q] = "running" /\ canceling'[q] = "no" /\ q \notin live'
                      /\ req'[q].wait \in Quiet =>
                           /\ event'[q] = "none" /\ meta'[q] = "none" /\ q \notin subscribed'
                           /\ <<"meta", q>> \notin wire' /\ <<"auth", q>> \notin wire'
    BY DEF Fresh
  <2>1. ASSUME req'[q].wait = "none" PROVE prom'[q] = "running" /\ canceling'[q] = "no" /\ q \notin live'
    <3>1. q # r /\ req[q].wait = "none" /\ prom'[q] = prom[q] /\ canceling' = canceling
      BY <2>1 DEF Advances
    <3>2. live' \subseteq live
      BY DEF Advances
    <3> QED
      BY <3>1, <3>2 DEF IInv, Fresh
  <2> QED
    BY <2>1 DEF Traces
<1>3. Asked'
  BY DEF IInv, Asked, Advances, users
<1>4. CanceledIsOut' /\ LiveIsRunning'
  BY DEF IInv, CanceledIsOut, LiveIsRunning, Advances, RequestTypes
<1>5. \A q \in Requests : SocketFor(q)' = SocketFor(q)
  BY DEF Advances, SocketFor
<1>6. Causes'
  <2>1. up' = up /\ caused \subseteq caused' /\ misled' = misled
    BY DEF Advances
  <2>2. ASSUME NEW q \in Requests
        PROVE  /\ event[q] = "down" => SocketFor(q) \notin up
               /\ event[q] \in {"cont", "invalid"} => q \in misled
               /\ meta[q] = "error" => q \in caused \/ SocketFor(q) \notin up
    BY DEF IInv, Causes
  <2>3. ASSUME NEW q \in Requests
        PROVE  /\ event'[q] = event[q] \/ event'[q] = "none"
               /\ meta'[q] = meta[q] \/ (meta'[q] = "error" => SocketFor(q) \notin up)
    BY DEF Traces
  <2> SUFFICES ASSUME NEW q \in Requests
               PROVE  /\ event'[q] = "down" => SocketFor(q) \notin up
                      /\ event'[q] \in {"cont", "invalid"} => q \in misled'
                      /\ meta'[q] = "error" => q \in caused' \/ SocketFor(q) \notin up
    BY <1>5, <2>1 DEF Causes
  <2>4. event'[q] = "down" => SocketFor(q) \notin up
    BY <2>2, <2>3
  <2>5. event'[q] \in {"cont", "invalid"} => q \in misled'
    BY <2>1, <2>2, <2>3
  <2>6. meta'[q] = "error" => q \in caused' \/ SocketFor(q) \notin up
    BY <2>1, <2>2, <2>3
  <2>7. QED
    BY <2>4, <2>5, <2>6
<1>7. FailsForACause'
  <2> SUFFICES ASSUME NEW q \in Requests, ~enforce', prom'[q] = "error"
               PROVE  Excused(q)
    BY <1>5 DEF FailsForACause, Advances, Excused
  <2>1. CASE prom'[q] = prom[q]
    BY <2>1 DEF IInv, FailsForACause, Advances, setting, Excused
  <2>2. CASE prom'[q] # prom[q]
    BY <2>2 DEF Advances, setting, Excused
  <2>3. QED
    BY <2>1, <2>2
<1>8. QED
  BY <1>1, <1>2, <1>3, <1>4, <1>6, <1>7 DEF IInv

\* The continuation of the service directory's answer.
LEMMA InfoKeeps ==
  ASSUME IInv, NEW r \in Requests, NEW a \in {"error", "info", "protocol"}, onServiceInfo(r, a)
  PROVE  IInv'
<1>1. UNCHANGED <<setting, users, auth, network, misled>> /\ req[r].wait = "directory"
  BY DEF onServiceInfo
<1>2. Advances(r)
  <2>1. CASE Ignore(r) /\ caused' = caused
    BY <1>1, <2>1, WaitKeeps, "end" \in Waiting DEF Ignore, onServiceInfo, Advances, network, IInv, RequestTypes, Waiting
  <2>2. CASE Waits(r, "cache") /\ caused' = caused
    BY <1>1, <2>2, WaitKeeps, "cache" \in Waiting DEF Waits, Advances, network, IInv, RequestTypes, Waiting, LiveIsRunning
  <2>3. CASE r \in live /\ Fail(r) /\ caused' = caused \cup {r}
    BY <1>1, <2>3, FailKeeps DEF Advances, network, Excused
  <2>4. QED
    BY <2>1, <2>2, <2>3 DEF onServiceInfo
<1>3. Traces
  BY <1>1, <1>2 DEF Traces, Advances, auth, network, IInv, RequestTypes, Fresh, Quiet
<1>4. QED
  BY <1>2, <1>3, AdvanceKeeps

\* fetchMetaObject() of a request that waits for a socket or its authentication.
LEMMA FetchAdvances ==
  ASSUME IInv, NEW r \in Requests, req[r].wait \notin {"none", "remove"}, fetchMetaObject(r),
         UNCHANGED <<setting, users, stranded, up, misled>>, caused \subseteq caused',
         subscribed' \subseteq subscribed,
         event' \in [Requests -> {"none", "done", "cont", "invalid", "other", "down"}],
         \A q \in Requests : event'[q] # event[q] => event'[q] = "none"
  PROVE  Advances(r) /\ Traces
<1>1. /\ req' = [req EXCEPT ![r].wait = "meta"] /\ UNCHANGED <<live, prom, object, canceling>>
  BY DEF fetchMetaObject
<1>2. /\ meta' = [meta EXCEPT ![r] = "running"] \/ (meta' = [meta EXCEPT ![r] = "error"] /\ SocketFor(r) \notin up)
      /\ wire' \subseteq wire \cup {<<"meta", r>>}
  BY DEF fetchMetaObject
<1>3. Advances(r)
  BY <1>1, WaitKeeps, "meta" \in Waiting DEF Advances, IInv, RequestTypes, Waiting, LiveIsRunning
<1>4. Traces
  <2>1. /\ meta' \in [Requests -> {"none", "running", "value", "error", "handled"}]
        /\ \A q \in Requests : meta'[q] # meta[q] => q = r /\ (meta'[q] = "error" => SocketFor(q) \notin up)
    <3>1. meta \in [Requests -> {"none", "running", "value", "error", "handled"}]
      BY DEF IInv, RequestTypes
    <3>2. CASE meta' = [meta EXCEPT ![r] = "running"]
      BY <3>1, <3>2
    <3>3. CASE meta' = [meta EXCEPT ![r] = "error"] /\ SocketFor(r) \notin up
      BY <3>1, <3>3
    <3> QED
      BY <1>2, <3>2, <3>3
  <2>2. ASSUME NEW q \in Requests, req'[q].wait \in Quiet
        PROVE  /\ event'[q] = "none" /\ meta'[q] = "none" /\ q \notin subscribed'
               /\ <<"meta", q>> \notin wire' /\ <<"auth", q>> \notin wire'
    <3>1. q # r /\ req[q].wait \in Quiet
      BY <1>1, <1>3, <2>2 DEF Advances, Quiet, IInv, RequestTypes
    <3>2. event[q] = "none" /\ meta[q] = "none"
      BY <3>1 DEF IInv, Fresh
    <3>3. event'[q] = "none" /\ meta'[q] = "none"
      BY <2>1, <3>1, <3>2
    <3>4. QED
      BY <1>2, <3>1, <3>3 DEF IInv, Fresh
  <2>3. req'[r].wait # "none"
    BY <1>3 DEF Advances
  <2>4. QED
    BY <2>1, <2>2, <2>3 DEF Traces
<1>5. QED
  BY <1>3, <1>4

\* onTransportSocketResult()
LEMMA ResultKeeps ==
  ASSUME IInv, NEW r \in Requests, NEW a \in {"error", "value"}, onTransportSocketResult(r, a)
  PROVE  IInv'
<1>1. UNCHANGED <<setting, users, subscribed, event, stranded, up, misled>> /\ req[r].wait = "cache"
  BY DEF onTransportSocketResult
<1>2. CASE Ignore(r) /\ UNCHANGED <<caused, meta, wire>>
  <2>1. Advances(r)
    BY <1>1, <1>2, WaitKeeps, "end" \in Waiting DEF Ignore, Advances, IInv, RequestTypes, Waiting
  <2>2. Traces
    BY <1>1, <1>2, <2>1 DEF Traces, Advances, IInv, RequestTypes, Fresh, Quiet
  <2>3. QED
    BY <2>1, <2>2, AdvanceKeeps
<1>3. CASE r \in live /\ Fail(r) /\ caused' = caused \cup {r} /\ UNCHANGED <<meta, wire>>
  <2>1. Advances(r)
    BY <1>1, <1>3, FailKeeps DEF Advances, Excused
  <2>2. Traces
    BY <1>1, <1>3, <2>1 DEF Traces, Advances, IInv, RequestTypes, Fresh, Quiet
  <2>3. QED
    BY <2>1, <2>2, AdvanceKeeps
<1>4. CASE Waits(r, "socket") /\ UNCHANGED <<caused, meta, wire>>
  <2>1. Advances(r)
    BY <1>1, <1>4, WaitKeeps, "socket" \in Waiting DEF Waits, Advances, IInv, RequestTypes, Waiting, LiveIsRunning
  <2>2. Traces
    BY <1>1, <1>4, <2>1 DEF Traces, Advances, IInv, RequestTypes, Fresh, Quiet
  <2>3. QED
    BY <2>1, <2>2, AdvanceKeeps
<1>5. CASE r \in live /\ fetchMetaObject(r) /\ caused' = caused
  <2>1. event' \in [Requests -> {"none", "done", "cont", "invalid", "other", "down"}]
    BY <1>1 DEF IInv, RequestTypes
  <2>2. QED
    BY <1>1, <1>5, <2>1, FetchAdvances, AdvanceKeeps
<1>6. QED
  BY <1>2, <1>3, <1>4, <1>5 DEF onTransportSocketResult

\* The rest of it, once the socket's events are listened to.
LEMMA AuthenticateKeeps ==
  ASSUME IInv, NEW r \in Requests, Authenticate(r)
  PROVE  IInv'
<1>1. /\ req[r].wait = "socket" /\ req' = [req EXCEPT ![r].wait = "auth"]
      /\ UNCHANGED <<setting, users, live, prom, canceling, event, meta, up, blame>>
      /\ subscribed' = subscribed \cup {r} /\ wire' \subseteq wire \cup {<<"auth", r>>}
  BY DEF Authenticate
<1>2. Advances(r)
  BY <1>1, WaitKeeps, "auth" \in Waiting DEF Advances, IInv, RequestTypes, Waiting, LiveIsRunning, blame
<1>3. Traces
  <2>1. ASSUME NEW q \in Requests, req'[q].wait \in Quiet
        PROVE  /\ event'[q] = "none" /\ meta'[q] = "none" /\ q \notin subscribed'
               /\ <<"meta", q>> \notin wire' /\ <<"auth", q>> \notin wire'
    <3>1. q # r /\ req[q].wait \in Quiet
      BY <1>1, <1>2, <2>1 DEF Advances, Quiet, IInv, RequestTypes
    <3>2. QED
      BY <1>1, <3>1 DEF IInv, Fresh
  <2>2. QED
    BY <1>1, <2>1 DEF Traces, IInv, RequestTypes
<1>4. QED
  BY <1>2, <1>3, AdvanceKeeps

\* An exception where no mutex is held sets the promise first, and removes the request later.
LEMMA ThrowsKeeps ==
  ASSUME IInv, NEW r \in Requests, CacheThrows(r) \/ AuthenticatorThrows(r) \/ Remove(r)
  PROVE  IInv'
<1>1. /\ UNCHANGED <<setting, users, auth, network, misled, canceling>>
      /\ req[r].wait \in Quiet \ {"none"} /\ caused \subseteq caused'
  BY DEF CacheThrows, AuthenticatorThrows, Remove, Throws, blame, Quiet
<1>2. CASE Throws(r)
  <2>1. /\ prom' \in [Requests -> {"running", "value", "error", "canceled"}]
        /\ \A q \in Requests : q # r => prom'[q] = prom[q]
    BY <1>2, ZenonT(60) DEF Throws, IInv, RequestTypes
  <2>2. Advances(r)
    BY <1>1, <1>2, <2>1, WaitKeeps, "remove" \in Waiting DEF Advances, Throws, network, Quiet, Waiting
  <2>3. Traces
    BY <1>1, <2>2 DEF Traces, Advances, auth, network, IInv, RequestTypes, Fresh, Quiet
  <2>4. QED
    BY <2>2, <2>3, AdvanceKeeps
<1>3. CASE Remove(r)
  <2>1. Advances(r)
    BY <1>1, <1>3, WaitKeeps, "end" \in Waiting DEF Advances, Remove, network, Quiet, Waiting, IInv, RequestTypes
  <2>2. Traces
    BY <1>1, <2>1 DEF Traces, Advances, auth, network, IInv, RequestTypes, Fresh, Quiet
  <2>3. QED
    BY <2>1, <2>2, AdvanceKeeps
<1>4. QED
  BY <1>2, <1>3 DEF CacheThrows, AuthenticatorThrows

\* onAuthentication(): a request that fails there has lost its socket, or has got an
\* authentication answer that is not final, or an exception.
LEMMA AuthenticationKeeps ==
  ASSUME IInv, NEW r \in Requests, onAuthentication(r)
  PROVE  IInv'
<1>1. /\ event[r] # "none" /\ event' = [event EXCEPT ![r] = "none"]
      /\ UNCHANGED <<setting, users, stranded, up, misled>>
  BY DEF onAuthentication
<1>2. /\ event' \in [Requests -> {"none", "done", "cont", "invalid", "other", "down"}]
      /\ \A q \in Requests : event'[q] # event[q] => event'[q] = "none"
      /\ req[r].wait \notin Quiet
  BY <1>1 DEF IInv, RequestTypes, Fresh
<1>3. CASE r \notin live /\ UNCHANGED <<requests, subscribed, meta, wire, caused>>
  <2>1. Advances(r)
    BY <1>1, <1>2, <1>3 DEF Advances, requests, IInv, RequestTypes, Quiet
  <2>2. Traces
    BY <1>2, <1>3 DEF Traces, requests, IInv, RequestTypes, Fresh, Quiet
  <2>3. QED
    BY <2>1, <2>2, AdvanceKeeps
<1>4. CASE r \in live /\ fetchMetaObject(r) /\ subscribed' = subscribed \ {r} /\ caused' = caused
  <2>1. subscribed' \subseteq subscribed /\ req[r].wait \notin {"none", "remove"}
    BY <1>2, <1>4 DEF Quiet
  <2>2. QED
    BY <1>1, <1>2, <1>4, <2>1, FetchAdvances, AdvanceKeeps
<1>5. CASE /\ r \in live /\ Fail(r) /\ meta' = meta
           /\ subscribed' \subseteq subscribed /\ wire' \subseteq wire \cup {<<"auth", r>>}
           /\ event[r] \in {"down", "cont", "invalid"} \/ enforce \/ r \in caused'
           /\ caused \subseteq caused'
  <2>1. ~enforce => Excused(r)
    BY <1>5 DEF IInv, Causes, Excused
  <2>2. Advances(r)
    BY <1>1, <1>2, <1>5, <2>1, FailKeeps DEF Advances, setting, Quiet
  <2>3. ASSUME NEW q \in Requests, req'[q].wait \in Quiet
        PROVE  /\ event'[q] = "none" /\ meta'[q] = "none" /\ q \notin subscribed'
               /\ <<"meta", q>> \notin wire' /\ <<"auth", q>> \notin wire'
    <3>1. q # r /\ req[q].wait \in Quiet
      BY <1>5, <2>2, <2>3, FailKeeps DEF Advances, Quiet
    <3>2. event'[q] = "none"
      BY <1>2, <3>1 DEF IInv, Fresh
    <3>3. QED
      BY <1>5, <3>1, <3>2 DEF IInv, Fresh
  <2>4. Traces
    BY <1>2, <1>5, <2>3 DEF Traces, IInv, RequestTypes
  <2>5. QED
    BY <2>2, <2>4, AdvanceKeeps
<1>6. \/ r \notin live /\ UNCHANGED <<requests, subscribed, meta, wire, caused>>
      \/ r \in live /\ fetchMetaObject(r) /\ subscribed' = subscribed \ {r} /\ caused' = caused
      \/ /\ r \in live /\ Fail(r) /\ meta' = meta
         /\ subscribed' \subseteq subscribed /\ wire' \subseteq wire \cup {<<"auth", r>>}
         /\ event[r] \in {"down", "cont", "invalid"} \/ enforce \/ r \in caused'
         /\ caused \subseteq caused'
  BY DEF onAuthentication, ConnectionLost, OtherMessage, InvalidState, Done, Continue, Exception
<1>7. QED
  BY <1>3, <1>4, <1>5, <1>6

\* onRemoteObjectComplete()
LEMMA CompleteKeeps ==
  ASSUME IInv, NEW r \in Requests, onRemoteObjectComplete(r)
  PROVE  IInv'
<1>1. /\ meta[r] \in {"value", "error"} /\ meta' = [meta EXCEPT ![r] = "handled"]
      /\ UNCHANGED <<setting, users, subscribed, event, network, caused, misled>>
  BY DEF onRemoteObjectComplete, blame
<1>2. req[r].wait \notin Quiet /\ req[r].wait # "none"
  BY <1>1 DEF IInv, Fresh, Quiet
<1>3. Advances(r)
  <2>1. CASE Ignore(r)
    BY <1>1, <1>2, <2>1, WaitKeeps, "end" \in Waiting DEF Ignore, Advances, network, IInv, RequestTypes, Waiting
  <2>2. CASE meta[r] = "error" /\ r \in live /\ Fail(r)
    <3>1. Excused(r)
      BY <1>1, <2>2 DEF IInv, Causes, Excused
    <3>2. QED
      BY <1>1, <1>2, <2>2, <3>1, FailKeeps DEF Advances, network
  <2>3. CASE Complete(r)
    <3>1. /\ r \in live /\ prom' = [prom EXCEPT ![r] = "value"] /\ live' = live \ {r}
          /\ req' = [req EXCEPT ![r].wait = "end"] /\ UNCHANGED canceling
      BY <2>3 DEF Complete
    <3>2. /\ prom' \in [Requests -> {"running", "value", "error", "canceled"}]
          /\ prom'[r] = "value" /\ \A q \in Requests : q # r => prom'[q] = prom[q]
      BY <3>1 DEF IInv, RequestTypes
    <3>3. QED
      BY <1>1, <1>2, <3>1, <3>2, WaitKeeps, "end" \in Waiting DEF Advances, network, Waiting
  <2>4. QED
    BY <2>1, <2>2, <2>3 DEF onRemoteObjectComplete
<1>4. Traces
  <2>1. /\ meta' \in [Requests -> {"none", "running", "value", "error", "handled"}]
        /\ \A q \in Requests : meta'[q] # meta[q] => q = r /\ meta'[q] = "handled"
    BY <1>1 DEF IInv, RequestTypes
  <2>2. req'[r].wait = "end"
    BY <1>2 DEF onRemoteObjectComplete, Ignore, Fail, Complete, IInv, RequestTypes
  <2>3. QED
    BY <1>1, <1>3, <2>1, <2>2 DEF Traces, Advances, network, IInv, RequestTypes, Fresh, Quiet
<1>5. QED
  BY <1>3, <1>4, AdvanceKeeps

-----------------------------------------------------------------------------
\* Steps of the network: an event for the requests that are subscribed.
LEMMA EmitKeeps ==
  ASSUME IInv, NEW k, NEW e \in {"done", "cont", "invalid", "other", "down"}, Emit(k, e),
         UNCHANGED <<setting, users, requests, subscribed>>,
         caused \subseteq caused', misled \subseteq misled', up' \subseteq up, wire' \subseteq wire,
         meta' \in [Requests -> {"none", "running", "value", "error", "handled"}],
         \A q \in Requests : meta'[q] # meta[q] =>
            <<"meta", q>> \in wire /\ (meta'[q] = "error" => q \in caused'),
         e = "down" => k \notin up',
         e \in {"cont", "invalid"} => {q \in subscribed : SocketFor(q) = k} \subseteq misled'
  PROVE  IInv'
<1>1. /\ event' \in [Requests -> {"none", "done", "cont", "invalid", "other", "down"}]
      /\ \A q \in Requests : event'[q] # event[q] => q \in subscribed /\ SocketFor(q) = k /\ event'[q] = e
  BY DEF Emit, IInv, RequestTypes
<1>2. RequestTypes'
  BY <1>1 DEF IInv, RequestTypes, requests, setting, users
<1>3. Fresh'
  BY <1>1 DEF IInv, Fresh, Quiet, requests
<1>4. Asked' /\ CanceledIsOut' /\ LiveIsRunning'
  BY DEF IInv, Asked, CanceledIsOut, LiveIsRunning, requests, users
<1>5. \A q \in Requests : SocketFor(q)' = SocketFor(q)
  BY DEF SocketFor, requests
<1>6. Causes'
  <2> SUFFICES ASSUME NEW q \in Requests
               PROVE  /\ event'[q] = "down" => SocketFor(q) \notin up'
                      /\ event'[q] \in {"cont", "invalid"} => q \in misled'
                      /\ meta'[q] = "error" => q \in caused' \/ SocketFor(q) \notin up'
    BY <1>5 DEF Causes
  <2>1. event'[q] = "down" => SocketFor(q) \notin up'
    BY <1>1 DEF IInv, Causes
  <2>2. event'[q] \in {"cont", "invalid"} => q \in misled'
    BY <1>1 DEF IInv, Causes
  <2>3. meta'[q] = "error" => q \in caused' \/ SocketFor(q) \notin up'
    BY DEF IInv, Causes
  <2>4. QED
    BY <2>1, <2>2, <2>3
<1>7. FailsForACause'
  BY <1>5 DEF IInv, FailsForACause, requests, setting
<1>8. QED
  BY <1>2, <1>3, <1>4, <1>6, <1>7 DEF IInv

\* An answer that arrives reaches the requests it is for, and those that listen to its socket.
LEMMA ReadKeeps ==
  ASSUME IInv, NEW r \in Requests,
         \/ \E a \in {"done", "cont", "invalid", "other"} : ReadAuth(r, a)
         \/ \E a \in {"error", "value"} : ReadMeta(r, a)
  PROVE  IInv'
<1>1. ASSUME NEW a \in {"done", "cont", "invalid", "other"}, ReadAuth(r, a) PROVE IInv'
  <2>1. /\ Emit(SocketFor(r), a) /\ UNCHANGED <<setting, users, requests, subscribed, meta, up>>
        /\ wire' \subseteq wire /\ caused \subseteq caused' /\ misled \subseteq misled'
        /\ a \in {"cont", "invalid"} => {x \in subscribed : SocketFor(x) = SocketFor(r)} \subseteq misled'
    BY <1>1 DEF ReadAuth
  <2>2. meta' \in [Requests -> {"none", "running", "value", "error", "handled"}]
    BY <2>1 DEF IInv, RequestTypes
  <2>3. QED
    BY <2>1, <2>2, EmitKeeps
<1>2. ASSUME NEW a \in {"error", "value"}, ReadMeta(r, a) PROVE IInv'
  <2>1. /\ Emit(SocketFor(r), "other") /\ UNCHANGED <<setting, users, requests, subscribed, up, misled>>
        /\ wire' \subseteq wire /\ <<"meta", r>> \in wire /\ caused \subseteq caused'
        /\ meta' = [meta EXCEPT ![r] = a]
        /\ a = "error" => r \in caused'
    BY <1>2 DEF ReadMeta
  <2>2. meta' \in [Requests -> {"none", "running", "value", "error", "handled"}]
    BY <2>1 DEF IInv, RequestTypes
  <2>3. \A q \in Requests : meta'[q] # meta[q] =>
            <<"meta", q>> \in wire /\ (meta'[q] = "error" => q \in caused')
    BY <2>1 DEF IInv, RequestTypes
  <2>4. QED
    BY <2>1, <2>2, <2>3, EmitKeeps
<1>3. QED
  BY <1>1, <1>2

\* An authentication that is not answered leaves no trace.
LEMMA UnansweredKeeps == ASSUME IInv, NEW r \in Requests, Unanswered(r) PROVE IInv'
<1>1. UNCHANGED <<setting, users, requests, subscribed, event, meta, up, blame>> /\ wire' \subseteq wire
  BY DEF Unanswered
<1>2. QED
  BY <1>1 DEF IInv, RequestTypes, Fresh, Asked, CanceledIsOut, Causes, LiveIsRunning,
              FailsForACause, SocketFor, setting, users, requests, blame

\* The end of a socket fails the messages under way and tells who listens.
LEMMA DownKeeps == ASSUME IInv, NEW k \in Sockets, SocketDown(k) PROVE IInv'
<1>1. /\ Emit(k, "down") /\ UNCHANGED <<setting, users, requests, subscribed, misled>>
      /\ up' = up \ {k} /\ wire' \subseteq wire
      /\ meta' = [r \in Requests |->
                    IF <<"meta", r>> \in wire /\ SocketFor(r) = k THEN "error" ELSE meta[r]]
      /\ caused' = caused \cup {r \in Requests : req[r].wait # "none" /\ SocketFor(r) = k}
  BY DEF SocketDown
<1>2. /\ meta' \in [Requests -> {"none", "running", "value", "error", "handled"}]
      /\ caused \subseteq caused' /\ up' \subseteq up /\ k \notin up'
  BY <1>1 DEF IInv, RequestTypes
<1>3. \A q \in Requests : meta'[q] # meta[q] =>
            <<"meta", q>> \in wire /\ (meta'[q] = "error" => q \in caused')
  BY <1>1 DEF IInv, RequestTypes, Fresh, Quiet
<1>4. QED
  BY <1>1, <1>2, <1>3, EmitKeeps

-----------------------------------------------------------------------------
\* The three steps of a cancellation: the request is removed before its promise is
\* set, so that no callback sets it again.
LEMMA CancelKeeps ==
  ASSUME IInv, NEW r \in Requests, Cancel(r) \/ CancelRemove(r) \/ CancelSet(r)
  PROVE  IInv'
<1>1. UNCHANGED <<setting, users, req, auth, network, blame>>
  BY DEF Cancel, CancelRemove, CancelSet
<1>2. req[r].wait # "none"
  <2>1. CASE Cancel(r)
    <3>1. \E c \in Calls : call[c] = "future" /\ answer[c] = r
      BY <2>1, ServiceAssumption DEF Cancel
    <3> QED
      BY <3>1 DEF IInv, Asked
  <2>2. CASE CancelRemove(r) \/ CancelSet(r)
    <3>1. canceling[r] # "no"
      BY <2>2 DEF CancelRemove, CancelSet
    <3> QED
      BY <3>1 DEF IInv, Fresh, Quiet
  <2> QED
    BY <2>1, <2>2
<1>3. \/ live' = live /\ prom' = prom /\ canceling' = [canceling EXCEPT ![r] = "remove"]
      \/ live' = live \ {r} /\ prom' = prom /\ canceling' = [canceling EXCEPT ![r] = "set"]
      \/ /\ canceling[r] = "set" /\ canceling' = [canceling EXCEPT ![r] = "done"] /\ live' = live
         /\ prom' = [prom EXCEPT ![r] = IF @ = "running" THEN "canceled" ELSE @]
  BY DEF Cancel, CancelRemove, CancelSet
<1>4. /\ prom' \in [Requests -> {"running", "value", "error", "canceled"}]
      /\ canceling' \in [Requests -> {"no", "remove", "set", "done"}]
      /\ live' \subseteq live
      /\ \A q \in Requests : q # r => prom'[q] = prom[q] /\ canceling'[q] = canceling[q]
      /\ \A q \in Requests : prom'[q] = "error" => prom[q] = "error"
  BY <1>3, ZenonT(60) DEF IInv, RequestTypes
<1>5. RequestTypes'
  BY <1>1, <1>4 DEF IInv, RequestTypes, setting, users, auth
<1>6. Fresh' /\ Asked'
  BY <1>1, <1>2, <1>4 DEF IInv, Fresh, Quiet, Asked, users, auth, network
<1>7. CanceledIsOut' /\ LiveIsRunning'
  BY <1>1, <1>3, <1>4 DEF IInv, CanceledIsOut, LiveIsRunning, RequestTypes
<1>8. Causes' /\ FailsForACause'
  BY <1>1, <1>4 DEF IInv, Causes, FailsForACause, SocketFor, setting, auth, network, blame
<1>9. QED
  BY <1>5, <1>6, <1>7, <1>8 DEF IInv

\* Every step of service(), of its callbacks and of what is outside.
LEMMA NextKeeps == IInv /\ [Next]_vars => IInv'
<1> SUFFICES ASSUME IInv, [Next]_vars PROVE IInv'
  OBVIOUS
<1>1. CASE \E s \in Services : Unregister(s) \/ removeService(s)
  <2>1. UNCHANGED <<setting, users, requests, auth, network, blame>>
    BY <1>1 DEF Unregister, removeService
  <2>2. QED
    BY <2>1 DEF IInv, RequestTypes, Fresh, Quiet, Asked, CanceledIsOut, Causes, LiveIsRunning,
                FailsForACause, SocketFor, setting, users, requests, auth, network, blame
<1>2. CASE close \/ UNCHANGED vars
  <2>1. UNCHANGED <<setting, users, requests, auth, network, blame>>
    BY <1>2 DEF close, vars
  <2>2. QED
    BY <2>1 DEF IInv, RequestTypes, Fresh, Quiet, Asked, CanceledIsOut, Causes, LiveIsRunning,
                FailsForACause, SocketFor, setting, users, requests, auth, network, blame
<1>3. QED
  BY <1>1, <1>2, LookUpKeeps, RequestKeeps, InfoKeeps, ResultKeeps, AuthenticateKeeps,
     AuthenticationKeeps, CompleteKeeps, ReadKeeps, DownKeeps, CancelKeeps, ThrowsKeeps,
     UnansweredKeeps DEF Next

\* A request in the map has a promise that is not set, or SetPromiseInError is about to
\* remove it (the checks of serviceRequest() in Session_Service's callbacks).
THEOREM LiveCorrect == Spec => []LiveIsRunning
<1>1. IInv => LiveIsRunning
  BY DEF IInv
<1>2. QED
  BY InitIInv, NextKeeps, <1>1, PTL DEF Spec

\* What one step may not do to the promises.
KeepsSettled == \A r \in Requests : prom[r] # "running" => prom'[r] = prom[r]

\* Whoever sets a promise has found the request in the map, or looks at the promise.
LEMMA SettledStays == IInv /\ [Next]_vars => KeepsSettled
<1> SUFFICES ASSUME IInv, [Next]_vars PROVE KeepsSettled
  OBVIOUS
<1> USE DEF IInv, RequestTypes
<1>1. ASSUME NEW r \in Requests, r \in live, req[r].wait # "remove", \E v \in {"value", "error"} : prom' = [prom EXCEPT ![r] = v]
      PROVE  KeepsSettled
  BY <1>1 DEF LiveIsRunning, KeepsSettled
<1>2. ASSUME prom' = prom PROVE KeepsSettled
  BY <1>2 DEF KeepsSettled
<1>3. ASSUME NEW r \in Requests, NEW a, onServiceInfo(r, a) \/ onTransportSocketResult(r, a)
      PROVE  KeepsSettled
  BY <1>1, <1>2, <1>3 DEF onServiceInfo, onTransportSocketResult, Ignore, Waits, Fail, fetchMetaObject
<1>4. ASSUME NEW r \in Requests, onAuthentication(r) PROVE KeepsSettled
  <2>1. req[r].wait # "remove"
    BY <1>4 DEF onAuthentication, Fresh, Quiet
  <2>2. QED
    BY <1>1, <1>2, <1>4, <2>1 DEF onAuthentication, ConnectionLost, OtherMessage, InvalidState, Done, Continue,
                                  Exception, Fail, fetchMetaObject, requests
<1>5. ASSUME NEW r \in Requests, onRemoteObjectComplete(r) PROVE KeepsSettled
  <2>1. req[r].wait # "remove"
    BY <1>5 DEF onRemoteObjectComplete, Fresh, Quiet
  <2>2. QED
    BY <1>1, <1>2, <1>5, <2>1 DEF onRemoteObjectComplete, Ignore, Fail, Complete
<1>6. ASSUME NEW r \in Requests, CancelSet(r) \/ CacheThrows(r) \/ AuthenticatorThrows(r)
      PROVE KeepsSettled
  BY <1>6 DEF CancelSet, CacheThrows, AuthenticatorThrows, Throws, KeepsSettled
<1>7. ASSUME NEW r \in Requests,
             \/ \E a \in {"error", "value"} : ReadMeta(r, a)
             \/ \E a \in {"done", "cont", "invalid", "other"} : ReadAuth(r, a)
             \/ Authenticate(r) \/ Cancel(r) \/ CancelRemove(r) \/ Remove(r) \/ Unanswered(r)
      PROVE  prom' = prom
  BY <1>7 DEF ReadMeta, ReadAuth, Authenticate, Cancel, CancelRemove, Remove, Unanswered, requests
<1>8. ASSUME \/ \E c \in Calls : LookUp(c) \/ Request(c)
             \/ \E s \in Services : Unregister(s) \/ removeService(s)
             \/ \E k \in Sockets : SocketDown(k)
             \/ close \/ UNCHANGED vars
      PROVE  prom' = prom
  BY <1>8 DEF LookUp, Request, Unregister, removeService, SocketDown, close, vars, requests
<1> QED
  BY <1>2, <1>3, <1>4, <1>5, <1>6, <1>7, <1>8 DEF Next

\* No promise of service() is set twice, although the continuations of the directory, of the
\* cache, of the authentication and of the metaobject set it unconditionally, and an
\* exception sets it before the request is removed.
THEOREM SettledOnceCorrect == Spec => SettledOnce
<1>1. IInv /\ [Next]_vars => [\A r \in Requests : prom[r] # "running" => prom'[r] = prom[r]]_vars
  BY SettledStays DEF KeepsSettled
<1> QED
  BY InitIInv, NextKeeps, <1>1, PTL DEF Spec, SettledOnce

\* Without enforced authentication, a request fails only for a failure of what it needs or
\* for an authentication answer on its socket, its own or another's, that is not final:
\* never for the other messages (onAuthentication() gets every message of the socket).
THEOREM FailsCorrect == Spec => []FailsForACause
<1>1. IInv => FailsForACause
  BY DEF IInv
<1>2. QED
  BY InitIInv, NextKeeps, <1>1, PTL DEF Spec

-----------------------------------------------------------------------------
(* The remote objects.  An object that somebody has is either closed or    *)
(* the one that is cached for its service: there is no third kind, so two  *)
(* open ones are the same.                                                 *)

Current(o, s) == o \in closed \/ cached[s] = o

ObjectTypes ==
  /\ answer \in [Calls -> Requests \cup {NoRequest}]
  /\ object \in [Requests -> Requests \cup {NoRequest}]
  /\ cached \in [Services -> Requests \cup {NoRequest}]

\* The object of a promise belongs to a request that was made, and is current.
GivenIsCurrent ==
  \A r \in Requests :
    object[r] # NoRequest => req[r].wait # "none" /\ Current(object[r], req[r].service)

\* A call that found an object has a current one of its service, a call that has
\* a future has that of a request for its service.
GotIsCurrent ==
  \A c \in Calls :
    /\ call[c] = "object" => answer[c] # NoRequest /\ Current(answer[c], wants[c])
    /\ call[c] = "future" => answer[c] \in Requests /\ req[answer[c]].service = wants[c]
                               /\ req[answer[c]].wait # "none"

ObjectInv == ObjectTypes /\ GivenIsCurrent /\ GotIsCurrent

StillCurrent(o, s) == o \in closed' \/ cached'[s] = o

\* What no step does: forget what a request is for, open an object again, or drop
\* an object from the cache without closing it.
ObjectsStay ==
  /\ \A r \in Requests : req[r].wait # "none" =>
       req'[r].wait # "none" /\ req'[r].service = req[r].service
  /\ closed \subseteq closed'
  /\ \A s \in Services : cached[s] # NoRequest => cached'[s] = cached[s] \/ cached[s] \in closed'
  /\ wants' = wants

\* A step that gives nobody an object.
LEMMA NothingGiven ==
  ASSUME IInv, ObjectInv, ObjectsStay, ObjectTypes', UNCHANGED <<users, object>>
  PROVE  ObjectInv'
<1>1. GivenIsCurrent'
  <2> SUFFICES ASSUME NEW r \in Requests, object[r] # NoRequest
               PROVE  req'[r].wait # "none" /\ StillCurrent(object[r], req'[r].service)
    BY DEF GivenIsCurrent, Current, StillCurrent
  <2>1. /\ req[r].wait # "none" /\ Current(object[r], req[r].service)
        /\ req'[r].wait # "none" /\ req'[r].service = req[r].service
    BY DEF ObjectInv, GivenIsCurrent, ObjectsStay
  <2>2. req[r].service \in Services /\ object[r] \in Requests \cup {NoRequest}
    BY DEF IInv, RequestTypes, ObjectInv, ObjectTypes
  <2>3. QED
    BY <2>1, <2>2 DEF ObjectsStay, Current, StillCurrent
<1>2. GotIsCurrent'
  <2> SUFFICES ASSUME NEW c \in Calls
               PROVE  /\ call[c] = "object" => answer[c] # NoRequest /\ StillCurrent(answer[c], wants[c])
                      /\ call[c] = "future" => /\ answer[c] \in Requests /\ req'[answer[c]].service = wants[c]
                                               /\ req'[answer[c]].wait # "none"
    BY DEF GotIsCurrent, users, ObjectsStay, Current, StillCurrent
  <2>1. wants[c] \in Services /\ answer[c] \in Requests \cup {NoRequest}
    BY DEF IInv, RequestTypes, ObjectInv, ObjectTypes
  <2>2. CASE call[c] = "object"
    BY <2>1, <2>2 DEF ObjectInv, GotIsCurrent, Current, StillCurrent, ObjectsStay
  <2>3. CASE call[c] = "future"
    BY <2>3 DEF ObjectInv, GotIsCurrent, ObjectsStay
  <2>4. QED
    BY <2>2, <2>3
<1>3. QED
  BY <1>1, <1>2 DEF ObjectInv

\* service() finds the object in the cache.
LEMMA LookUpGives == ASSUME IInv, ObjectInv, NEW c \in Calls, LookUp(c) PROVE ObjectInv'
<1>1. /\ call[c] = "none"
      /\ call' = [call EXCEPT ![c] = IF cached[wants[c]] # NoRequest THEN "object" ELSE "looked"]
      /\ answer' = [answer EXCEPT ![c] = cached[wants[c]]]
      /\ UNCHANGED <<setting, requests, objects>>
  BY DEF LookUp
<1>2. wants[c] \in Services /\ cached[wants[c]] \in Requests \cup {NoRequest}
  BY DEF IInv, RequestTypes, ObjectInv, ObjectTypes
<1>3. ObjectTypes'
  BY <1>1, <1>2 DEF ObjectInv, ObjectTypes, requests, objects
<1>4. GivenIsCurrent'
  BY <1>1 DEF ObjectInv, GivenIsCurrent, Current, requests, objects
<1>5. GotIsCurrent'
  <2> SUFFICES ASSUME NEW d \in Calls
               PROVE  /\ call'[d] = "object" => answer'[d] # NoRequest /\ Current(answer'[d], wants[d])
                      /\ call'[d] = "future" => answer'[d] \in Requests /\ req[answer'[d]].service = wants[d]
                                                  /\ req[answer'[d]].wait # "none"
    BY <1>1 DEF GotIsCurrent, Current, requests, objects, setting
  <2>1. CASE d = c
    BY <1>1, <2>1 DEF ObjectInv, ObjectTypes, IInv, RequestTypes, Current
  <2>2. CASE d # c
    BY <1>1, <2>2 DEF ObjectInv, GotIsCurrent, ObjectTypes, IInv, RequestTypes
  <2>3. QED
    BY <2>1, <2>2
<1>6. QED
  BY <1>3, <1>4, <1>5 DEF ObjectInv

\* It joins a request for its service, or makes one.
LEMMA RequestGives == ASSUME IInv, ObjectInv, NEW c \in Calls, Request(c) PROVE ObjectInv'
<1> DEFINE same == {r \in live : req[r].service = wants[c]}
           n == CHOOSE r \in Free : TRUE
<1>1. /\ call[c] = "looked" /\ call' = [call EXCEPT ![c] = "future"]
      /\ UNCHANGED <<setting, object, objects>>
  BY DEF Request
<1>2. PICK q \in Requests :
        /\ answer' = [answer EXCEPT ![c] = q]
        /\ req'[q].wait # "none" /\ req'[q].service = wants[c]
        /\ \A r \in Requests : req[r].wait # "none" => req'[r] = req[r]
  <2>1. CASE same # {}
    <3>1. PICK q \in same : answer' = [answer EXCEPT ![c] = q] /\ UNCHANGED <<req, live>>
      BY <2>1 DEF Request
    <3>2. q \in Requests /\ req[q].wait # "none" /\ req[q].service = wants[c]
      BY <3>1 DEF IInv, RequestTypes, Fresh, Quiet
    <3>3. QED
      BY <3>1, <3>2
  <2>2. CASE same = {}
    <3>1. /\ Free # {} /\ answer' = [answer EXCEPT ![c] = n]
          /\ req' = [req EXCEPT ![n] = [service |-> wants[c], wait |-> "directory"]]
      BY <2>2 DEF Request
    <3>2. n \in Requests /\ req[n].wait = "none"
      BY <3>1 DEF Free
    <3> HIDE DEF n
    <3>3. /\ req'[n] = [service |-> wants[c], wait |-> "directory"]
          /\ \A r \in Requests : r # n => req'[r] = req[r]
      BY <3>1, <3>2 DEF IInv, RequestTypes
    <3>4. /\ req'[n].wait # "none" /\ req'[n].service = wants[c]
          /\ \A r \in Requests : req[r].wait # "none" => req'[r] = req[r]
      BY <3>2, <3>3
    <3>5. QED
      BY <3>1, <3>2, <3>4
  <2>3. QED
    BY <2>1, <2>2
<1>3. ObjectTypes'
  BY <1>1, <1>2 DEF ObjectInv, ObjectTypes, objects
<1>4. GivenIsCurrent'
  BY <1>1, <1>2 DEF ObjectInv, GivenIsCurrent, Current, objects
<1>5. GotIsCurrent'
  <2> SUFFICES ASSUME NEW d \in Calls
               PROVE  /\ call'[d] = "object" => answer'[d] # NoRequest /\ Current(answer'[d], wants[d])
                      /\ call'[d] = "future" => answer'[d] \in Requests /\ req'[answer'[d]].service = wants[d]
                                                  /\ req'[answer'[d]].wait # "none"
    BY <1>1 DEF GotIsCurrent, Current, objects, setting
  <2>1. CASE d = c
    BY <1>1, <1>2, <2>1 DEF ObjectInv, ObjectTypes, IInv, RequestTypes
  <2>2. CASE d # c
    BY <1>1, <1>2, <2>2 DEF ObjectInv, GotIsCurrent, ObjectTypes, IInv, RequestTypes
  <2>3. QED
    BY <2>1, <2>2
<1>6. QED
  BY <1>3, <1>4, <1>5 DEF ObjectInv

\* onRemoteObjectComplete() gives the promise the cached object, its own if there is none.
LEMMA CompleteGives == ASSUME IInv, ObjectInv, NEW r \in Requests, Complete(r), UNCHANGED <<setting, users>>
                       PROVE  ObjectInv'
<1> DEFINE s == req[r].service
           o == IF cached[s] = NoRequest THEN r ELSE cached[s]
<1>1. /\ r \in live /\ req' = [req EXCEPT ![r].wait = "end"] /\ closed' = closed
      /\ object' = [object EXCEPT ![r] = o] /\ cached' = [cached EXCEPT ![s] = o]
  BY DEF Complete
<1>2. s \in Services /\ o \in Requests /\ req[r].wait # "none" /\ o # NoRequest
  <2>1. s \in Services /\ cached[s] \in Requests \cup {NoRequest}
    BY DEF IInv, RequestTypes, ObjectInv, ObjectTypes
  <2>2. req[r].wait # "none"
    BY <1>1 DEF IInv, Fresh
  <2>3. r # NoRequest
    BY ServiceAssumption DEF NoRequest
  <2> QED
    BY <2>1, <2>2, <2>3
<1>3. /\ \A q \in Requests : req'[q].service = req[q].service
      /\ \A q \in Requests : req[q].wait # "none" => req'[q].wait # "none"
  BY <1>1 DEF IInv, RequestTypes
<1>4. /\ cached'[s] = o /\ \A t \in Services : t # s => cached'[t] = cached[t]
      /\ object'[r] = o /\ \A q \in Requests : q # r => object'[q] = object[q]
  BY <1>1, <1>2 DEF ObjectInv, ObjectTypes
<1>5. ObjectTypes'
  BY <1>1, <1>2 DEF ObjectInv, ObjectTypes, users
<1>6. \A t \in Services : cached[t] # NoRequest => cached'[t] = cached[t]
  BY <1>4
<1> HIDE DEF s, o
<1>7. GivenIsCurrent'
  <2> SUFFICES ASSUME NEW q \in Requests, object'[q] # NoRequest
               PROVE  req'[q].wait # "none" /\ StillCurrent(object'[q], req[q].service)
    BY <1>3 DEF GivenIsCurrent, Current, StillCurrent
  <2>1. CASE q = r
    BY <1>2, <1>3, <1>4, <2>1 DEF StillCurrent, s
  <2>2. CASE q # r
    <3>1. object'[q] = object[q] /\ req[q].wait # "none" /\ Current(object[q], req[q].service)
      BY <1>4, <2>2 DEF ObjectInv, GivenIsCurrent
    <3>2. req[q].service \in Services
      BY DEF IInv, RequestTypes
    <3>3. QED
      BY <1>1, <1>3, <1>6, <3>1, <3>2 DEF Current, StillCurrent
  <2>3. QED
    BY <2>1, <2>2
<1>8. GotIsCurrent'
  <2> SUFFICES ASSUME NEW c \in Calls
               PROVE  /\ call[c] = "object" => answer[c] # NoRequest /\ StillCurrent(answer[c], wants[c])
                      /\ call[c] = "future" => answer[c] \in Requests /\ req'[answer[c]].service = wants[c]
                                                 /\ req'[answer[c]].wait # "none"
    BY DEF GotIsCurrent, users, setting, Current, StillCurrent
  <2>1. wants[c] \in Services
    BY DEF IInv, RequestTypes
  <2>2. CASE call[c] = "object"
    BY <1>1, <1>6, <2>1, <2>2 DEF ObjectInv, GotIsCurrent, Current, StillCurrent, setting
  <2>3. CASE call[c] = "future"
    BY <1>3, <2>3 DEF ObjectInv, GotIsCurrent
  <2>4. QED
    BY <2>2, <2>3
<1>9. QED
  BY <1>5, <1>7, <1>8 DEF ObjectInv

\* The steps that neither look up nor give an object.
LEMMA OthersStay ==
  ASSUME IInv, ObjectInv, NEW r \in Requests,
         \/ \E a \in {"error", "info", "protocol"} : onServiceInfo(r, a)
         \/ \E a \in {"error", "value"} : onTransportSocketResult(r, a) \/ ReadMeta(r, a)
         \/ \E a \in {"done", "cont", "invalid", "other"} : ReadAuth(r, a)
         \/ CacheThrows(r) \/ AuthenticatorThrows(r) \/ Remove(r) \/ Unanswered(r)
         \/ Authenticate(r) \/ onAuthentication(r)
         \/ onRemoteObjectComplete(r) /\ ~Complete(r)
         \/ Cancel(r) \/ CancelRemove(r) \/ CancelSet(r)
  PROVE  ObjectInv'
<1>1. UNCHANGED <<setting, users, object, objects>>
  BY DEF onServiceInfo, onTransportSocketResult, ReadMeta, ReadAuth, Authenticate,
         onAuthentication, onRemoteObjectComplete, Cancel, CancelRemove, CancelSet,
         Ignore, Waits, Fail, fetchMetaObject, ConnectionLost, OtherMessage, InvalidState,
         Done, Continue, Exception, CacheThrows, AuthenticatorThrows, Throws, Remove,
         Unanswered, requests
<1>2. req' = req \/ \E w \in Waiting : req' = [req EXCEPT ![r].wait = w]
  BY DEF onServiceInfo, onTransportSocketResult, ReadMeta, ReadAuth, Authenticate,
         onAuthentication, onRemoteObjectComplete, Cancel, CancelRemove, CancelSet,
         Ignore, Waits, Fail, fetchMetaObject, ConnectionLost, OtherMessage, InvalidState,
         Done, Continue, Exception, CacheThrows, AuthenticatorThrows, Throws, Remove,
         Unanswered, requests, Waiting
<1>3. \A q \in Requests : req[q].wait # "none" =>
        req'[q].wait # "none" /\ req'[q].service = req[q].service
  BY <1>2 DEF IInv, RequestTypes, Waiting
<1>4. ObjectsStay
  BY <1>1, <1>3 DEF ObjectsStay, setting, objects
<1>5. ObjectTypes'
  BY <1>1 DEF ObjectInv, ObjectTypes, users, objects
<1>6. QED
  BY <1>1, <1>4, <1>5, NothingGiven

\* What leaves the cache is closed: removeService(), close(), the end of a socket.
LEMMA ClosedStay ==
  ASSUME IInv, ObjectInv,
         \/ \E s \in Services : Unregister(s) \/ removeService(s)
         \/ \E k \in Sockets : SocketDown(k)
         \/ close \/ UNCHANGED vars
  PROVE  ObjectInv'
<1>1. UNCHANGED <<setting, users, requests>> /\ closed \subseteq closed'
  BY DEF Unregister, removeService, SocketDown, close, vars, objects
<1>2. /\ cached' \in [Services -> Requests \cup {NoRequest}]
      /\ \A s \in Services : cached[s] # NoRequest => cached'[s] = cached[s] \/ cached[s] \in closed'
  <2>1. CASE \E s \in Services : Unregister(s)
    BY <2>1 DEF Unregister, objects, ObjectInv, ObjectTypes
  <2>2. CASE \E s \in Services : removeService(s)
    BY <2>2 DEF removeService, ObjectInv, ObjectTypes
  <2>3. CASE \E k \in Sockets : SocketDown(k)
    BY <2>3 DEF SocketDown, ObjectInv, ObjectTypes
  <2>4. CASE close
    BY <2>4 DEF close, ObjectInv, ObjectTypes
  <2>5. CASE UNCHANGED vars
    BY <2>5 DEF vars, objects, ObjectInv, ObjectTypes
  <2>6. QED
    BY <2>1, <2>2, <2>3, <2>4, <2>5
<1>3. ObjectsStay
  BY <1>1, <1>2 DEF ObjectsStay, setting, requests
<1>4. ObjectTypes'
  BY <1>1, <1>2 DEF ObjectInv, ObjectTypes, users, requests
<1>5. QED
  BY <1>1, <1>3, <1>4, NothingGiven DEF requests

\* The invariant of the objects, with that of the requests.
LEMMA ObjectsCorrect == Spec => [](IInv /\ ObjectInv)
<1>1. Init => ObjectInv
  BY DEF Init, ObjectInv, ObjectTypes, GivenIsCurrent, GotIsCurrent
<1>2. IInv /\ ObjectInv /\ [Next]_vars => ObjectInv'
  <2> SUFFICES ASSUME IInv, ObjectInv, [Next]_vars PROVE ObjectInv'
    OBVIOUS
  <2>1. ASSUME NEW r \in Requests, Complete(r), onRemoteObjectComplete(r) PROVE ObjectInv'
    BY <2>1, CompleteGives DEF onRemoteObjectComplete
  <2>2. QED
    BY <2>1, LookUpGives, RequestGives, OthersStay, ClosedStay DEF Next
<1>3. QED
  BY <1>1, <1>2, InitIInv, NextKeeps, PTL DEF Spec

\* Two open objects of a service that two calls got are the same one.
LEMMA CurrentIsOne == IInv /\ ObjectInv => OneObject
<1> SUFFICES ASSUME IInv, ObjectInv, NEW c \in Calls, NEW d \in Calls, wants[c] = wants[d],
                    {ObjectOf(c), ObjectOf(d)} \cap (closed \cup {NoRequest}) = {}
             PROVE  ObjectOf(c) = ObjectOf(d)
  BY DEF OneObject
<1>1. ASSUME NEW x \in Calls, ObjectOf(x) \notin closed, ObjectOf(x) # NoRequest
      PROVE  ObjectOf(x) = cached[wants[x]]
  <2>1. CASE call[x] = "object"
    BY <1>1, <2>1 DEF ObjectOf, ObjectInv, GotIsCurrent, Current
  <2>2. CASE call[x] = "future"
    <3>1. ObjectOf(x) = object[answer[x]] /\ answer[x] \in Requests /\ req[answer[x]].service = wants[x]
      BY <2>2 DEF ObjectOf, ObjectInv, GotIsCurrent
    <3>2. QED
      BY <1>1, <3>1 DEF ObjectInv, GivenIsCurrent, Current
  <2>3. QED
    BY <1>1, <2>1, <2>2 DEF ObjectOf
<1>2. QED
  BY <1>1

\* Two calls of service() never end with two open remote objects of one service,
\* whatever is looked up, removed or disconnected between their two critical
\* sections (the second look-up of _remoteObjects in onRemoteObjectComplete()).
THEOREM OneObjectCorrect == Spec => []OneObject
  BY ObjectsCorrect, CurrentIsOne, PTL

=============================================================================
