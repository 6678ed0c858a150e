--------------------------- MODULE SessionService ---------------------------
(***************************************************************************)
(* Session_Service (src/messaging/sessionservice.cpp): service() asks the  *)
(* service directory for the service, the socket cache for a socket, the   *)
(* server for an authentication and the service for its metaobject, and    *)
(* caches the remote object.  Concurrent calls share a request, services   *)
(* of one process share a socket.                                          *)
(*                                                                         *)
(* One action is one critical section of _requestsMutex or                 *)
(* _remoteObjectsMutex, or a step of what is outside: the service          *)
(* directory, the cache (SocketCache), the server at the other end.        *)
(***************************************************************************)
EXTENDS Integers, FiniteSets

CONSTANTS
  Services, Sockets,
  SocketOf,   \* service -> the socket that leads to it
  Calls,      \* calls of service(), each made at most once
  Cases,      \* the services that the calls ask for: functions of the calls
  Requests,   \* bound: service requests, as numbers from 1
  Leaving,    \* bound: the services that may be unregistered
  Impatient   \* bound: the calls that may be canceled

NoRequest == 0

ASSUME ServiceAssumption ==
  /\ Services # {} /\ SocketOf \in [Services -> Sockets] /\ Cases \subseteq [Calls -> Services]
  /\ Leaving \subseteq Services /\ Impatient \subseteq Calls
  /\ IsFiniteSet(Requests) /\ Requests \subseteq Nat \ {0}

VARIABLES
  enforce,    \* _enforceAuth
  wants,      \* call -> its service
  call,       \* call -> where it is in service()
  answer,     \* call -> the request whose future, or object, it got
  req,        \* request -> its service, and what it waits for
  live,       \* the requests in _requests
  prom,       \* request -> its promise
  object,     \* request -> the remote object of its promise, by its request
  cached,     \* _remoteObjects: service -> its object, by its request
  closed,     \* the remote objects that are closed
  subscribed, \* the requests whose callback is connected to `socketEvent`
  event,      \* request -> the event onAuthentication() is to handle
  meta,       \* request -> the future of fetchMetaObject()
  canceling,  \* request -> where its cancellation is
  up, known,  \* sockets connected, sockets with remote capabilities
  wire,       \* answers the servers are to send: <<kind, request>>
  present,    \* the services registered
  removals,   \* the services whose `serviceRemoved` is to be emitted
  ended,      \* the session was closed
  caused,     \* requests for which something outside, or a step of their own, failed
  misled,     \* requests that got an authentication answer they take for a failure
  stranded    \* requests that no answer to their authentication will come for

users == <<call, answer>>
setting == <<enforce, wants>>
requests == <<req, live, prom, object, canceling>>
objects == <<cached, closed>>
auth == <<subscribed, event, meta, stranded>>
network == <<up, known, wire>>
registry == <<present, removals, ended>>
blame == <<caused, misled>>
vars == <<setting, users, requests, objects, auth, network, registry, blame>>

SocketFor(r) == SocketOf[req[r].service]
Free == {r \in Requests : req[r].wait = "none"}

TypeOK ==
  /\ enforce \in BOOLEAN /\ wants \in Cases /\ ended \in BOOLEAN
  /\ call \in [Calls -> {"none", "looked", "object", "future"}]
  /\ answer \in [Calls -> Requests \cup {NoRequest}]
  /\ req \in [Requests -> [service : Services,
                           wait : {"none", "directory", "cache", "socket", "auth", "meta",
                                   "remove", "end"}]]
  /\ prom \in [Requests -> {"running", "value", "error", "canceled"}]
  /\ object \in [Requests -> Requests \cup {NoRequest}]
  /\ cached \in [Services -> Requests \cup {NoRequest}]
  /\ event \in [Requests -> {"none", "done", "cont", "invalid", "other", "down"}]
  /\ meta \in [Requests -> {"none", "running", "value", "error", "handled"}]
  /\ canceling \in [Requests -> {"no", "remove", "set", "done"}]
  /\ live \subseteq Requests /\ closed \subseteq Requests /\ subscribed \subseteq Requests
  /\ caused \subseteq Requests /\ misled \subseteq Requests /\ stranded \subseteq Requests
  /\ up \subseteq Sockets /\ known \subseteq Sockets
  /\ wire \subseteq {"auth", "meta"} \X Requests
  /\ present \subseteq Services /\ removals \subseteq Services

Init ==
  /\ enforce \in BOOLEAN /\ wants \in Cases /\ ended = FALSE
  /\ call = [c \in Calls |-> "none"] /\ answer = [c \in Calls |-> NoRequest]
  /\ req \in [Requests -> {[service |-> CHOOSE s \in Services : TRUE, wait |-> "none"]}]
  /\ prom = [r \in Requests |-> "running"] /\ object = [r \in Requests |-> NoRequest]
  /\ cached = [s \in Services |-> NoRequest]
  /\ event = [r \in Requests |-> "none"] /\ meta = [r \in Requests |-> "none"]
  /\ canceling = [r \in Requests |-> "no"]
  /\ live = {} /\ closed = {} /\ subscribed = {} /\ caused = {} /\ misled = {}
  /\ stranded = {}
  /\ up = Sockets /\ known = {} /\ wire = {}
  /\ present = Services /\ removals = {}

-----------------------------------------------------------------------------
\* A faulty variant of the next one: the request is left in the map.
FailKept(r) ==
  /\ prom' = [prom EXCEPT ![r] = "error"] /\ live' = live
  /\ req' = [req EXCEPT ![r].wait = "end"]
  /\ UNCHANGED <<object, canceling>>

\* setErrorAndRemoveRequest()
Fail(r) ==
  /\ prom' = [prom EXCEPT ![r] = "error"] /\ live' = live \ {r}
  /\ req' = [req EXCEPT ![r].wait = "end"]
  /\ UNCHANGED <<object, canceling>>

\* An exception where no mutex is held: SetPromiseInError sets the promise unless it is
\* set, and removes the request in a step of its own.
Throws(r) ==
  /\ prom' = [prom EXCEPT ![r] = IF @ = "running" THEN "error" ELSE @]
  /\ req' = [req EXCEPT ![r].wait = "remove"] /\ caused' = caused \cup {r}
  /\ UNCHANGED <<live, object, canceling>>

\* The request has been removed in the meantime: nothing is done.
Ignore(r) ==
  /\ r \notin live /\ req' = [req EXCEPT ![r].wait = "end"]
  /\ UNCHANGED <<live, prom, object, canceling>>

Waits(r, w) ==
  /\ r \in live /\ req' = [req EXCEPT ![r].wait = w]
  /\ UNCHANGED <<live, prom, object, canceling>>

\* The remote object of the request fetches its metaobject: a call on its socket.
fetchMetaObject(r) ==
  /\ req' = [req EXCEPT ![r].wait = "meta"]
  /\ UNCHANGED <<live, prom, object, canceling>>
  /\ IF SocketFor(r) \in up
       THEN meta' = [meta EXCEPT ![r] = "running"] /\ wire' = wire \cup {<<"meta", r>>}
       ELSE meta' = [meta EXCEPT ![r] = "error"] /\ wire' = wire

-----------------------------------------------------------------------------
(* Faulty variants of operations below, each of which breaks a property.   *)

\* An object that another request has put in the cache is replaced.
CompleteReplaces(r) ==
  /\ r \in live
  /\ prom' = [prom EXCEPT ![r] = "value"] /\ live' = live \ {r}
  /\ req' = [req EXCEPT ![r].wait = "end"]
  /\ object' = [object EXCEPT ![r] = r] /\ cached' = [cached EXCEPT ![req[r].service] = r]
  /\ UNCHANGED <<canceling, closed>>

\* A message that is not about the authentication is an error in any case.
OtherMessageRefused(r) ==
  /\ event[r] = "other" /\ Fail(r) /\ UNCHANGED <<meta, wire, caused>>

\* The end of the connection is not an event the authentication waits for.
ConnectionLostMissed(r) ==
  /\ event[r] = "down" /\ Waits(r, "auth") /\ UNCHANGED <<meta, wire, caused>>

-----------------------------------------------------------------------------
\* service(): the remote objects are looked up first.
LookUp(c) ==
  /\ call[c] = "none"
  /\ LET o == cached[wants[c]] IN
       /\ call' = [call EXCEPT ![c] = IF o # NoRequest THEN "object" ELSE "looked"]
       /\ answer' = [answer EXCEPT ![c] = o]
  /\ UNCHANGED <<setting, requests, objects, auth, network, registry, blame>>

\* Then the requests: one for the same service is shared, or else made.
Request(c) ==
  /\ call[c] = "looked" /\ call' = [call EXCEPT ![c] = "future"]
  /\ LET same == {r \in live : req[r].service = wants[c]}
         n == CHOOSE r \in Free : TRUE
     IN  IF same # {}
           THEN /\ answer' = [answer EXCEPT ![c] = CHOOSE r \in same : TRUE]
                /\ UNCHANGED <<req, live>>
           ELSE /\ Free # {} /\ live' = live \cup {n}
                /\ req' = [req EXCEPT ![n] = [service |-> wants[c], wait |-> "directory"]]
                /\ answer' = [answer EXCEPT ![c] = n]
  /\ UNCHANGED <<setting, prom, object, canceling, objects, auth, network, registry, blame>>

\* Its continuation for the answer of the service directory.  "protocol": the
\* service has no endpoint of that protocol; the cache is asked all the same.
onServiceInfo(r, a) ==
  /\ req[r].wait = "directory"
  /\ a \in {"info", "protocol"} => ~ended /\ req[r].service \in present
  /\ \/ Ignore(r) /\ caused' = caused
     \/ a = "info" /\ Waits(r, "cache") /\ caused' = caused
     \/ a # "info" /\ r \in live /\ Fail(r) /\ caused' = caused \cup {r}
  /\ UNCHANGED <<setting, users, objects, auth, network, registry, misled>>

\* The cache throws instead of giving the continuation a future.
CacheThrows(r) ==
  /\ req[r].wait = "cache" /\ Throws(r)
  /\ UNCHANGED <<setting, users, objects, auth, network, registry, misled>>

\* onTransportSocketResult(): a socket that is known needs no authentication.
\* "error" is also an exception of the authentication that is forged for it.
onTransportSocketResult(r, a) ==
  /\ req[r].wait = "cache"
  /\ \/ Ignore(r) /\ UNCHANGED <<caused, meta, wire>>
     \/ a = "error" /\ r \in live /\ Fail(r)
        /\ caused' = caused \cup {r} /\ UNCHANGED <<meta, wire>>
     \/ a = "value" /\ SocketFor(r) \notin known /\ Waits(r, "socket")
        /\ UNCHANGED <<caused, meta, wire>>
     \/ a = "value" /\ SocketFor(r) \in known /\ r \in live /\ fetchMetaObject(r)
        /\ caused' = caused
  /\ UNCHANGED <<setting, users, objects, subscribed, event, stranded, up, known, registry,
                 misled>>

\* The rest of it: the user's authenticator may throw.
AuthenticatorThrows(r) ==
  /\ req[r].wait = "socket" /\ Throws(r)
  /\ UNCHANGED <<setting, users, objects, auth, network, registry, misled>>

\* It listens to the socket, and then sends the request: not if the socket is
\* disconnected or the data of the authenticator cannot be encoded.
Authenticate(r) ==
  /\ req[r].wait = "socket" /\ req' = [req EXCEPT ![r].wait = "auth"]
  /\ subscribed' = subscribed \cup {r}
  /\ \/ SocketFor(r) \in up /\ wire' = wire \cup {<<"auth", r>>} /\ stranded' = stranded
     \/ stranded' = stranded \cup {r} /\ wire' = wire
  /\ UNCHANGED <<setting, users, live, prom, object, canceling, objects, event, meta, up,
                 known, registry, blame>>

\* SetPromiseInError removes the request whose promise it has set.
Remove(r) ==
  /\ req[r].wait = "remove" /\ req' = [req EXCEPT ![r].wait = "end"] /\ live' = live \ {r}
  /\ UNCHANGED <<setting, users, prom, object, canceling, objects, auth, network, registry,
                 blame>>

\* The socket reads one message at a time: `socketEvent` calls every callback.
Idle(k) == \A r \in subscribed : SocketFor(r) = k => event[r] = "none"
Emit(k, e) ==
  event' = [r \in Requests |->
              IF r \in subscribed /\ SocketFor(r) = k THEN e ELSE event[r]]

\* The server answers to an authentication request; "other": with an error, for which
\* a socket whose capabilities are not known yet is disconnected instead.
ReadAuth(r, a) ==
  /\ <<"auth", r>> \in wire /\ wire' = wire \ {<<"auth", r>>}
  /\ LET k == SocketFor(r) IN
       /\ a = "other" => k \in known
       /\ Idle(k) /\ Emit(k, a) /\ known' = known \cup {k}
       /\ caused' = IF a = "invalid" THEN caused \cup {r} ELSE caused
       /\ misled' = IF a \in {"cont", "invalid"}
                      THEN misled \cup {x \in subscribed : SocketFor(x) = k} ELSE misled
  /\ UNCHANGED <<setting, users, requests, objects, subscribed, meta, stranded, up, registry>>

\* The server does not answer: its authentication provider has thrown.
Unanswered(r) ==
  /\ <<"auth", r>> \in wire /\ wire' = wire \ {<<"auth", r>>}
  /\ stranded' = stranded \cup {r}
  /\ UNCHANGED <<setting, users, requests, objects, subscribed, event, meta, up, known,
                 registry, blame>>

\* The service answers with its metaobject; it cannot once it is unregistered.
ReadMeta(r, a) ==
  /\ <<"meta", r>> \in wire /\ wire' = wire \ {<<"meta", r>>}
  /\ Idle(SocketFor(r)) /\ Emit(SocketFor(r), "other")
  /\ meta' = [meta EXCEPT ![r] = a]
  /\ caused' = IF a = "error" THEN caused \cup {r} ELSE caused
  /\ UNCHANGED <<setting, users, requests, objects, subscribed, stranded, up, known,
                 registry, misled>>

\* onAuthentication(), by event.
ConnectionLost(r) ==
  /\ event[r] = "down" /\ Fail(r) /\ UNCHANGED <<meta, wire, caused>>

OtherMessage(r) ==
  /\ event[r] = "other" /\ caused' = caused
  /\ IF enforce THEN Fail(r) /\ UNCHANGED <<meta, wire>> ELSE fetchMetaObject(r)

InvalidState(r) == event[r] = "invalid" /\ Fail(r) /\ UNCHANGED <<meta, wire, caused>>

Done(r) == event[r] = "done" /\ fetchMetaObject(r) /\ caused' = caused

\* The next step is sent, and the request is set in error by SetPromiseInError.
Continue(r) ==
  /\ event[r] = "cont" /\ Fail(r) /\ UNCHANGED <<meta, caused>>
  /\ wire' = IF SocketFor(r) \in up THEN wire \cup {<<"auth", r>>} ELSE wire

\* A conversion or the user's authenticator throws: SetPromiseInError under the mutex.
Exception(r) ==
  /\ event[r] # "down" /\ Fail(r) /\ caused' = caused \cup {r} /\ UNCHANGED <<meta, wire>>

onAuthentication(r) ==
  /\ event[r] # "none" /\ event' = [event EXCEPT ![r] = "none"]
  /\ \/ r \notin live /\ UNCHANGED <<requests, subscribed, meta, wire, caused>>
     \/ /\ r \in live /\ subscribed' = subscribed \ {r}
        /\ ConnectionLost(r) \/ OtherMessage(r) \/ InvalidState(r) \/ Done(r)
     \/ r \in live /\ Continue(r) /\ UNCHANGED subscribed
     \/ r \in live /\ Exception(r) /\ UNCHANGED subscribed
  /\ UNCHANGED <<setting, users, objects, stranded, up, known, registry, misled>>

\* onRemoteObjectComplete(): the object is cached, unless there is one already.
Complete(r) ==
  /\ r \in live
  /\ prom' = [prom EXCEPT ![r] = "value"] /\ live' = live \ {r}
  /\ req' = [req EXCEPT ![r].wait = "end"]
  /\ LET s == req[r].service
         o == IF cached[s] = NoRequest THEN r ELSE cached[s]
     IN  object' = [object EXCEPT ![r] = o] /\ cached' = [cached EXCEPT ![s] = o]
  /\ UNCHANGED <<canceling, closed>>

onRemoteObjectComplete(r) ==
  /\ meta[r] \in {"value", "error"} /\ meta' = [meta EXCEPT ![r] = "handled"]
  /\ \/ Ignore(r) /\ UNCHANGED objects
     \/ meta[r] = "error" /\ r \in live /\ Fail(r) /\ UNCHANGED objects
     \/ meta[r] = "value" /\ Complete(r)
  /\ UNCHANGED <<setting, users, subscribed, event, stranded, network, registry, blame>>

\* Future::cancel() finds the future running; the callback removes the request,
\* and then sets the promise, unless it throws for the promise is set.
Cancel(r) ==
  /\ prom[r] = "running" /\ \E c \in Impatient : call[c] = "future" /\ answer[c] = r
  /\ canceling[r] = "no" /\ canceling' = [canceling EXCEPT ![r] = "remove"]
  /\ UNCHANGED <<setting, users, req, live, prom, object, objects, auth, network, registry,
                 blame>>

CancelRemove(r) ==
  /\ canceling[r] = "remove" /\ canceling' = [canceling EXCEPT ![r] = "set"]
  /\ live' = live \ {r}
  /\ UNCHANGED <<setting, users, req, prom, object, objects, auth, network, registry, blame>>

CancelSet(r) ==
  /\ canceling[r] = "set" /\ canceling' = [canceling EXCEPT ![r] = "done"]
  /\ prom' = [prom EXCEPT ![r] = IF @ = "running" THEN "canceled" ELSE @]
  /\ UNCHANGED <<setting, users, req, live, object, objects, auth, network, registry, blame>>

\* removeService(), for `serviceRemoved`.
removeService(s) ==
  /\ s \in removals /\ removals' = removals \ {s}
  /\ closed' = closed \cup ({cached[s]} \ {NoRequest})
  /\ cached' = [cached EXCEPT ![s] = NoRequest]
  /\ UNCHANGED <<setting, users, requests, auth, network, present, ended, blame>>

\* close(): the objects are closed, the requests left alone.
close ==
  /\ ~ended /\ ended' = TRUE
  /\ closed' = closed \cup ({cached[s] : s \in Services} \ {NoRequest})
  /\ cached' = [s \in Services |-> NoRequest]
  /\ UNCHANGED <<setting, users, requests, auth, network, present, removals, blame>>

-----------------------------------------------------------------------------
\* A service is unregistered.
Unregister(s) ==
  /\ s \in present \cap Leaving /\ present' = present \ {s} /\ removals' = removals \cup {s}
  /\ UNCHANGED <<setting, users, requests, objects, auth, network, ended, blame>>

\* A socket is disconnected: what was sent is lost, callbacks and calls get an error.
SocketDown(k) ==
  /\ k \in up /\ Idle(k) /\ up' = up \ {k}
  /\ Emit(k, "down")
  /\ wire' = {m \in wire : SocketFor(m[2]) # k}
  /\ meta' = [r \in Requests |->
                IF <<"meta", r>> \in wire /\ SocketFor(r) = k THEN "error" ELSE meta[r]]
  /\ caused' = caused \cup {r \in Requests : req[r].wait # "none" /\ SocketFor(r) = k}
  /\ closed' = closed \cup {r \in Requests : req[r].wait # "none" /\ SocketFor(r) = k}
  /\ UNCHANGED <<setting, users, requests, cached, subscribed, stranded, known, registry,
                 misled>>

Next ==
  \/ \E c \in Calls : LookUp(c) \/ Request(c)
  \/ \E r \in Requests :
       \/ \E a \in {"error", "info", "protocol"} : onServiceInfo(r, a)
       \/ \E a \in {"error", "value"} : onTransportSocketResult(r, a) \/ ReadMeta(r, a)
       \/ \E a \in {"done", "cont", "invalid", "other"} : ReadAuth(r, a)
       \/ CacheThrows(r) \/ AuthenticatorThrows(r) \/ Remove(r) \/ Unanswered(r)
       \/ Authenticate(r) \/ onAuthentication(r) \/ onRemoteObjectComplete(r)
       \/ Cancel(r) \/ CancelRemove(r) \/ CancelSet(r)
  \/ \E s \in Services : Unregister(s) \/ removeService(s)
  \/ \E k \in Sockets : SocketDown(k)
  \/ close

Spec == Init /\ [][Next]_vars

\* The service directory and the cache answer, the servers answer or give up (Unanswered),
\* and threads make progress.
Fairness ==
  /\ \A c \in Calls : WF_vars(LookUp(c)) /\ WF_vars(Request(c))
  /\ \A r \in Requests :
       /\ WF_vars(\E a \in {"error", "info", "protocol"} : onServiceInfo(r, a))
       /\ WF_vars(\E a \in {"error", "value"} : onTransportSocketResult(r, a))
       /\ WF_vars(\E a \in {"error", "value"} : ReadMeta(r, a))
       /\ WF_vars(Unanswered(r) \/ \E a \in {"done", "cont", "invalid", "other"} : ReadAuth(r, a))
       /\ WF_vars(Authenticate(r) \/ AuthenticatorThrows(r)) /\ WF_vars(Remove(r)) /\ WF_vars(onAuthentication(r))
       /\ WF_vars(onRemoteObjectComplete(r))
       /\ WF_vars(CancelRemove(r)) /\ WF_vars(CancelSet(r))

FairSpec == Spec /\ Fairness

-----------------------------------------------------------------------------
\* The promise of a request in the map is not set, so that whoever finds the request, in
\* whichever callback, may set it: except where SetPromiseInError is between its two steps.
LiveIsRunning == \A r \in live : prom[r] = "running" \/ req[r].wait = "remove"

\* The promise of a request is set once, by its answer, its failure or its cancellation,
\* although only the last of them looks whether it is set.
SettledOnce == [][\A r \in Requests : prom[r] # "running" => prom'[r] = prom[r]]_vars

ObjectOf(c) == IF call[c] = "object" THEN answer[c]
               ELSE IF call[c] = "future" THEN object[answer[c]] ELSE NoRequest

\* Two calls never get two remote objects of the same service, both open: not
\* when the second one misses the object and the request of the first one.
OneObject ==
  \A c, d \in Calls :
    (wants[c] = wants[d] /\ {ObjectOf(c), ObjectOf(d)} \cap (closed \cup {NoRequest}) = {})
      => ObjectOf(c) = ObjectOf(d)

\* Where no authentication is enforced, a request fails only if the service directory,
\* the cache, its socket, its service or its own code did, or if its socket got an answer
\* to an authentication, its own or another one's, that is not final: never for the other
\* messages that come through the same socket.
FailsForACause ==
  \A r \in Requests :
    (~enforce /\ prom[r] = "error") => (r \in caused \cup misled \/ SocketFor(r) \notin up)

\* Not for the authentication of another request either.  Does not hold:
\* onAuthentication() takes the answer to any request of the socket for its own.
FailsForItsOwn ==
  \A r \in Requests :
    (~enforce /\ prom[r] = "error") => (r \in caused \/ SocketFor(r) \notin up)

\* service() ends, whatever the others do, unless no answer can come for its
\* authentication: the socket was disconnected before onTransportSocketResult() connected
\* to its events, the authentication was not sent, or the server did not answer.
ServiceSettles ==
  \A c \in Calls :
    (call[c] = "looked" /\ Free # {})
      ~> (call[c] = "future"
            /\ \E r \in Requests : answer[c] = r /\ (prom[r] # "running" \/ r \in stranded))

=============================================================================
