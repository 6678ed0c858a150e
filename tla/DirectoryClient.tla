-------------------------- MODULE DirectoryClient --------------------------
(***************************************************************************)
(* ServiceDirectoryClient (src/messaging/servicedirectoryclient.cpp): the  *)
(* connection of a session to the service directory.  connect() makes a    *)
(* socket, authenticates, fetches the metaobject and connects to the       *)
(* events `serviceAdded` and `serviceRemoved`; its promise is set when     *)
(* both are.  The client may be closed, connected again or lose its socket *)
(* in between.  The remote object of the directory, and its table of       *)
(* remote signal links (src/messaging/remoteobject.cpp), serve all the     *)
(* connections.                                                            *)
(*                                                                         *)
(* The k-th call of connect() makes the k-th socket.  A handler that finds *)
(* its socket to be the current one goes on in a task: the mutex is        *)
(* released in between.                                                    *)
(***************************************************************************)
EXTENDS Integers

CONSTANTS
  Attempts,   \* the calls of connect(), as numbers from 1
  Cases       \* the clients to look at: enforceAuth, whether a refused authentication is
              \* an error; and as bounds, attempts, the calls of connect(), overlap, whether
              \* it is called while another attempt runs, maxCloses, the calls of close(),
              \* and maxDetours, the refusals, errors, exceptions, further rounds of
              \* authentication, answers that do not come and lost connections

ASSUME ClientAssumption ==
  /\ Attempts \subseteq Nat \ {0}
  /\ Cases \subseteq [enforceAuth : BOOLEAN, attempts : Nat, overlap : BOOLEAN, maxCloses : Nat,
                      maxDetours : Nat]

NoSocket == 0
NoRemote == -1 \* no remote link: the event was not found
NoLink == <<0, 0>>
Events == {"serviceAdded", "serviceRemoved"}
Linked == [serviceAdded |-> "added", serviceRemoved |-> "removed"]

VARIABLES
  client,      \* the case
  sdSocket,    \* _stateData.sdSocket, by its attempt
  eventLink,   \* _stateData.sdSocketSocketEventSignalLink: <<socket, attempt>>
  links,       \* _stateData.addSignalLink, removeSignalLink: event -> attempt
  step,        \* attempt -> where the thread is in connect()
  given,       \* attempt -> the socket onSocketConnected() is called with
  prom,        \* attempt -> the promise of connect()
  con,         \* attempt -> the future of the socket's connect()
  meta,        \* attempt -> the future of fetchMetaObject()
  awaiting,    \* <<event, attempt>>: onSDEventConnected() is to be called
  todo,        \* what handlers are about to do after their check
  shut,        \* what closeImpl() has moved out of _stateData, and is to undo
  sock,        \* socket -> its state
  closing,     \* sockets told to disconnect
  hears,       \* sockets whose `disconnected` the client is subscribed to
  auths,       \* <<socket, attempt>>: onAuthentication() is subscribed
  lost,        \* socket -> the callback next called of the end of the connection
  wire,        \* sockets on which the directory is to answer an authentication
  detours,     \* how many so far
  silent,      \* attempts which an exception or an answer that does not come has stopped
  remote,      \* RemoteObject: its socket
  calls,       \* its promises: <<what, attempt, socket>>
  locals,      \* event -> the local links of _localToRemoteSignalLink, by attempt
  shared,      \* event -> its remoteSignalLink, by attempt
  registering, \* <<event, attempt>> -> the future of registerEvent
  shares,      \* <<event, attempt>> -> the remote link it relies on
  unlinking,   \* <<event, attempt>>: the continuation of metaDisconnect()
  registered,  \* <<event, socket, attempt>>: what the directory knows
  closes       \* number of calls of close()

state == <<sdSocket, eventLink, links>>
users == <<client, step, given, closes>>
futures == <<con, meta, awaiting>>
sockets == <<sock, closing, hears, auths, lost, shut>>
network == <<wire, detours, silent>>
object == <<remote, calls, registering>>
table == <<locals, shared, shares, unlinking, registered>>
vars == <<state, users, prom, futures, todo, sockets, network, object, table>>

Pairs == Events \X Attempts

TypeOK ==
  /\ client \in Cases /\ silent \subseteq Attempts
  /\ sdSocket \in Attempts \cup {NoSocket} /\ remote \in Attempts \cup {NoSocket}
  /\ eventLink \in (Attempts \X Attempts) \cup {NoLink}
  /\ links \in [Events -> Attempts \cup {NoSocket}]
  /\ step \in [Attempts -> {"none", "checked", "started", "done"}]
  /\ given \in [Attempts -> Attempts \cup {NoSocket}]
  /\ prom \in [Attempts -> {"none", "running", "value", "error"}]
  /\ con \in [Attempts -> {"none", "running", "value", "error", "handled"}]
  /\ meta \in [Attempts -> {"none", "running", "value", "error", "handled"}]
  /\ awaiting \subseteq Pairs /\ unlinking \subseteq Pairs
  /\ \A t \in todo : t.attempt \in Attempts /\ t.socket \in Attempts \cup {NoSocket}
  /\ sock \in [Attempts -> {"none", "connecting", "connected", "down"}]
  /\ closing \subseteq Attempts /\ hears \subseteq Attempts /\ wire \subseteq Attempts
  /\ auths \subseteq Attempts \X Attempts
  /\ lost \in [Attempts -> {"no", "client", "remote", "event", "done"}]
  /\ \A x \in shut : x.socket \in Attempts
  /\ detours \in 0..client.maxDetours /\ closes \in 0..client.maxCloses
  /\ calls \subseteq (Events \cup {"metaObject"}) \X Attempts \X Attempts
  /\ locals \in [Events -> SUBSET Attempts] /\ shared \in [Events -> Attempts \cup {NoSocket}]
  /\ registering \in [Pairs -> {"none", "running", "value", "error"}]
  /\ shares \in [Pairs -> Attempts \cup {NoSocket, NoRemote}]
  /\ registered \subseteq Events \X Attempts \X Attempts

Init ==
  /\ client \in Cases /\ shut = {} /\ silent = {}
  /\ sdSocket = NoSocket /\ eventLink = NoLink /\ links = [e \in Events |-> NoSocket]
  /\ step = [k \in Attempts |-> "none"] /\ given = [k \in Attempts |-> NoSocket] /\ closes = 0
  /\ prom = [k \in Attempts |-> "none"] /\ todo = {}
  /\ con = [k \in Attempts |-> "none"] /\ meta = [k \in Attempts |-> "none"] /\ awaiting = {}
  /\ sock = [k \in Attempts |-> "none"] /\ closing = {} /\ hears = {} /\ auths = {}
  /\ lost = [k \in Attempts |-> "no"] /\ wire = {} /\ detours = 0
  /\ remote = NoSocket /\ calls = {} /\ registering = [p \in Pairs |-> "none"]
  /\ locals = [e \in Events |-> {}] /\ shared = [e \in Events |-> NoSocket]
  /\ shares = [p \in Pairs |-> NoSocket] /\ unlinking = {} /\ registered = {}

-----------------------------------------------------------------------------
Up(s) == s # NoSocket /\ sock[s] = "connected" /\ s \notin closing
isConnected == Up(sdSocket)
Detour(d) ==
  /\ d => detours < client.maxDetours
  /\ detours' = IF d THEN detours + 1 ELSE detours
Task(w, k, s) == [what |-> w, attempt |-> k, socket |-> s]
Only(s) == {s} \ {NoSocket}

\* What onAuthentication() is to do, which runs in the strand of the socket.
Answers == {"done", "next", "invalid", "refused", "lost"}
Busy(s) == \E t \in todo : t.socket = s /\ t.what \in Answers \cup {"fail_in_strand"}

\* Setting a promise that is set throws, which the caller of the handler ignores.
SetError(S) ==
  prom' = [k \in Attempts |-> IF k \in S /\ prom[k] = "running" THEN "error" ELSE prom[k]]

\* cleanupPreviousSdSocket()
Cleanup(s, k) == closing' = closing \cup Only(s) /\ SetError({k})

\* Undoing the subscription to `socketEvent` whose link is l, of the signal of socket s.
Unsubscribed(s, l) == IF l[1] = s THEN auths \ {l} ELSE auths

\* closeImpl() moves the state out under the mutex.  The links to the events go to
\* metaDisconnect().
closeImpl ==
  /\ sdSocket' = NoSocket /\ eventLink' = NoLink /\ links' = [e \in Events |-> NoSocket]
  /\ shut' = shut \cup {[socket |-> s, event |-> eventLink, links |-> links] : s \in Only(sdSocket)}
  /\ unlinking' = unlinking \cup {p \in Pairs : links[p[1]] = p[2]}
  /\ UNCHANGED <<sock, closing, hears, auths, lost, locals, shared, shares, registered>>

\* Then, without it, closeImpl() undoes the subscriptions and disconnects the socket.
Shut(x) ==
  /\ x \in shut /\ shut' = shut \ {x}
  /\ hears' = hears \ {x.socket} /\ auths' = Unsubscribed(x.socket, x.event)
  /\ closing' = closing \cup {x.socket}
  /\ UNCHANGED <<state, users, prom, futures, todo, sock, lost, network, object, table>>

\* RemoteObject::close(): the calls in flight are in error.
CallsFail ==
  /\ calls' = {}
  /\ meta' = [k \in Attempts |->
                IF \E c \in calls : c[1] = "metaObject" /\ c[2] = k THEN "error" ELSE meta[k]]
  /\ registering' = [p \in Pairs |->
                IF \E c \in calls : <<c[1], c[2]>> = p THEN "error" ELSE registering[p]]

\* A call of the remote object: refused without a socket that is connected.
Called(what, k) == IF Up(remote) THEN calls \cup {<<what, k, remote>>} ELSE calls
CallState == IF Up(remote) THEN "running" ELSE "error"

-----------------------------------------------------------------------------
\* connect(), which returns when the client is connected.
ConnectCheck(k) ==
  /\ step[k] = "none" /\ k <= client.attempts
  /\ \A j \in Attempts : j < k => \/ client.overlap /\ step[j] # "none"
                                  \/ step[j] = "done" /\ prom[j] # "running"
  /\ ~isConnected /\ step' = [step EXCEPT ![k] = "checked"]
  /\ UNCHANGED <<state, client, given, closes, prom, futures, todo, sockets, network, object, table>>

\* Its critical section: another socket replaces the current one, for the remote object
\* too, and connects.
connect(k) ==
  /\ step[k] = "checked" /\ step' = [step EXCEPT ![k] = "started"]
  /\ sdSocket' = k /\ remote' = k /\ hears' = hears \cup {k}
  /\ closing' = closing \cup Only(sdSocket)
  /\ sock' = [sock EXCEPT ![k] = "connecting"]
  /\ con' = [con EXCEPT ![k] = "running"] /\ prom' = [prom EXCEPT ![k] = "running"]
  /\ CallsFail
  /\ UNCHANGED <<eventLink, links, client, given, closes, awaiting, todo, auths, lost, shut, network, table>>

\* The continuation is connected outside: it is given the socket that is current then.
ConnectReturns(k) ==
  /\ step[k] = "started" /\ step' = [step EXCEPT ![k] = "done"]
  /\ given' = [given EXCEPT ![k] = sdSocket]
  /\ UNCHANGED <<state, client, closes, prom, futures, todo, sockets, network, object, table>>

\* onSocketConnected()
onSocketConnected(k) ==
  /\ step[k] = "done" /\ con[k] \in {"value", "error"}
  /\ con' = [con EXCEPT ![k] = "handled"]
  /\ IF given[k] # sdSocket THEN Cleanup(given[k], k) /\ todo' = todo
     ELSE /\ todo' = todo \cup (IF con[k] = "error" THEN {Task("fail", k, given[k])}
                                  ELSE IF given[k] # NoSocket THEN {Task("hello", k, given[k])} ELSE {})
          /\ UNCHANGED <<closing, prom>>
  /\ UNCHANGED <<state, users, meta, awaiting, sock, hears, auths, lost, shut, network, object, table>>

\* It subscribes to the answer.
Subscribe(t) == LET l == <<t.socket, t.attempt>> IN auths' = auths \cup {l} /\ eventLink' = l

\* And it asks for the authentication.
Hello(t) ==
  /\ t.what = "hello" /\ todo' = todo \ {t} /\ Subscribe(t)
  /\ wire' = IF Up(t.socket) THEN wire \cup {t.socket} ELSE wire
  /\ UNCHANGED <<sdSocket, links, users, prom, futures, sock, closing, hears, lost, shut, detours,
                 silent, object, table>>

\* The authenticator throws before the subscription, or the encoding of the message after
\* it; the caller of the continuation ignores both.
HelloThrows(t) ==
  /\ t.what = "hello" /\ todo' = todo \ {t} /\ Detour(TRUE)
  /\ silent' = silent \cup {t.attempt}
  /\ Subscribe(t) \/ UNCHANGED <<eventLink, auths>>
  /\ UNCHANGED <<sdSocket, links, users, prom, futures, sock, closing, hears, lost, shut, wire,
                 object, table>>

\* `socketEvent` of a socket: onAuthentication() looks whether it is the current one.
Event(s, a) ==
  LET subscribed == {k \in Attempts : <<s, k>> \in auths} IN
  IF s # sdSocket /\ subscribed # {}
    THEN closing' = closing \cup {s} /\ SetError(subscribed) /\ todo' = todo
    ELSE todo' = todo \cup {Task(a, k, s) : k \in subscribed} /\ UNCHANGED <<closing, prom>>

\* The directory answers to an authentication.
ReadAuth(s, a) ==
  /\ s \in wire /\ sock[s] = "connected" /\ ~Busy(s) /\ wire' = wire \ {s}
  /\ Detour(a # "done")
  /\ Event(s, a)
  /\ UNCHANGED <<state, users, futures, sock, hears, auths, lost, shut, silent, object, table>>

\* Or it does not: an exception on its side is no answer (Server).
Unanswered(s) ==
  /\ s \in wire /\ sock[s] = "connected" /\ wire' = wire \ {s} /\ Detour(TRUE)
  /\ silent' = silent \cup {k \in Attempts : <<s, k>> \in auths}
  /\ UNCHANGED <<state, users, prom, futures, todo, sockets, object, table>>

\* onAuthentication() for the current socket.  It fetches the metaobject once: a second
\* time for one attempt, after its subscription was not undone because that of another
\* one had overwritten the link, would only add links, and is left out.
onAuthentication(t) ==
  /\ t.what \in Answers
  /\ LET fails == t.what \in {"invalid", "lost"} \/ (t.what = "refused" /\ client.enforceAuth)
         fetches == ~fails /\ t.what # "next" /\ meta[t.attempt] = "none"
     IN /\ todo' = (todo \ {t}) \cup (IF fails THEN {Task("fail_in_strand", t.attempt, t.socket)} ELSE {})
        /\ meta' = IF fetches THEN [meta EXCEPT ![t.attempt] = CallState] ELSE meta
        /\ calls' = IF fetches THEN Called("metaObject", t.attempt) ELSE calls
  /\ IF t.what = "next"
       THEN /\ wire' = IF Up(t.socket) THEN wire \cup {t.socket} ELSE wire
            /\ UNCHANGED <<eventLink, auths>>
       ELSE /\ eventLink' = NoLink /\ wire' = wire
            /\ auths' = Unsubscribed(t.socket, eventLink)
  /\ UNCHANGED <<sdSocket, links, users, prom, con, awaiting, sock, closing, hears, lost, shut,
                 detours, silent, remote, registering, table>>

\* An exception, which the signal ignores: an answer that is not what its signature says
\* or processAuth(), with the subscription kept; the text of a refusal or the encoding of
\* the capabilities, with the subscription undone.
onAuthenticationThrows(t) ==
  /\ t.what \in Answers \ {"lost"} /\ todo' = todo \ {t} /\ Detour(TRUE)
  /\ silent' = silent \cup {t.attempt}
  /\ IF t.what = "refused" THEN eventLink' = NoLink /\ auths' = Unsubscribed(t.socket, eventLink)
                           ELSE UNCHANGED <<eventLink, auths>>
  /\ UNCHANGED <<sdSocket, links, users, prom, futures, sock, closing, hears, lost, shut, wire,
                 object, table>>

\* The directory answers to a call, which is an event of the socket too.
ReadReply(c, a) ==
  /\ c \in calls /\ sock[c[3]] = "connected" /\ ~Busy(c[3]) /\ calls' = calls \ {c}
  /\ IF c[1] = "metaObject"
       THEN /\ meta' = [meta EXCEPT ![c[2]] = a] /\ UNCHANGED <<registering, registered>>
       ELSE /\ registering' = [registering EXCEPT ![<<c[1], c[2]>>] = a] /\ meta' = meta
            /\ registered' = IF a = "value" THEN registered \cup {<<c[1], c[3], c[2]>>} ELSE registered
  /\ Event(c[3], "refused") /\ Detour(a = "error")
  /\ UNCHANGED <<state, users, con, awaiting, sock, hears, auths, lost, shut, wire, silent, remote,
                 locals, shared, shares, unlinking>>

\* onMetaObjectFetched()
onMetaObjectFetched(k) ==
  /\ meta[k] \in {"value", "error"} /\ meta' = [meta EXCEPT ![k] = "handled"]
  /\ IF given[k] # sdSocket THEN Cleanup(given[k], k) /\ todo' = todo
     ELSE /\ todo' = todo \cup {Task(IF meta[k] = "error" THEN "fail" ELSE "serviceAdded", k, given[k])}
          /\ UNCHANGED <<closing, prom>>
  /\ UNCHANGED <<state, users, con, awaiting, sock, hears, auths, lost, shut, network, object, table>>

\* It connects to the events one after the other, and then to the futures of both.
EventConnects(t) ==
  LET k == t.attempt IN
  IF t.what = "serviceAdded"
    THEN todo' = (todo \ {t}) \cup {Task("serviceRemoved", k, t.socket)} /\ awaiting' = awaiting
    ELSE todo' = todo \ {t} /\ awaiting' = awaiting \cup {<<f, k>> : f \in Events}

\* metaConnect() registers with the remote end only for the first local link, and shares
\* the future of that afterwards.
metaConnect(t) ==
  /\ t.what \in Events
  /\ LET e == t.what  k == t.attempt IN
       /\ locals' = [locals EXCEPT ![e] = @ \cup {k}]
       /\ IF shared[e] = NoSocket
            THEN /\ shared' = [shared EXCEPT ![e] = k] /\ shares' = [shares EXCEPT ![<<e, k>>] = k]
                 /\ registering' = [registering EXCEPT ![<<e, k>>] = CallState]
                 /\ calls' = Called(e, k)
            ELSE /\ shares' = [shares EXCEPT ![<<e, k>>] = shared[e]]
                 /\ UNCHANGED <<shared, registering, calls>>
  /\ EventConnects(t)
  /\ UNCHANGED <<state, users, prom, con, meta, sockets, network, remote, unlinking, registered>>

\* The metaobject has no signal of that name; or there is no remote link yet and the
\* signal is not found or not compatible, when the local link is there already.
metaConnectFails(t) ==
  /\ t.what \in Events /\ Detour(TRUE)
  /\ shares' = [shares EXCEPT ![<<t.what, t.attempt>>] = NoRemote]
  /\ \/ locals' = locals
     \/ shared[t.what] = NoSocket /\ locals' = [locals EXCEPT ![t.what] = @ \cup {t.attempt}]
  /\ EventConnects(t)
  /\ UNCHANGED <<state, users, prom, con, meta, sockets, wire, silent, object, shared, unlinking,
                 registered>>

\* onSDEventConnected() looks whether the promise is set, and whether the event failed.
onSDEventConnected(e, k) ==
  /\ <<e, k>> \in awaiting /\ awaiting' = awaiting \ {<<e, k>>}
  /\ LET r == IF shares[<<e, k>>] = NoRemote THEN "error" ELSE registering[<<e, shares[<<e, k>>]>>] IN
       /\ r \in {"value", "error"}
       /\ todo' = todo \cup (IF prom[k] # "running" THEN {}
                               ELSE {Task(IF r = "error" THEN "fail" ELSE Linked[e], k, sdSocket)})
  /\ UNCHANGED <<state, users, prom, con, meta, sockets, network, object, table>>

\* Faulty variant: one link is enough.
LinkEither(t) ==
  \E e \in Events :
    /\ t.what = Linked[e] /\ links' = [links EXCEPT ![e] = t.attempt]
    /\ todo' = (todo \ {t}) \cup {Task("ready", t.attempt, t.socket)}
    /\ UNCHANGED <<sdSocket, eventLink, users, prom, futures, sockets, network, object, table>>

\* It stores the link: with both links the client is ready.
Link(t) ==
  \E e \in Events :
    /\ t.what = Linked[e] /\ links' = [links EXCEPT ![e] = t.attempt]
    /\ todo' = (todo \ {t}) \cup (IF \A f \in Events : links'[f] # NoSocket
                                     THEN {Task("ready", t.attempt, t.socket)} ELSE {})
    /\ UNCHANGED <<sdSocket, eventLink, users, prom, futures, sockets, network, object, table>>

\* It sets the promise, and emits `connected` unless that throws.
Ready(t) ==
  /\ t.what = "ready" /\ todo' = todo \ {t}
  /\ prom' = [prom EXCEPT ![t.attempt] = IF @ = "running" THEN "value" ELSE @]
  /\ UNCHANGED <<state, users, futures, sockets, network, object, table>>

\* onSocketFailure() for a socket that was the current one: it looks again, and closes
\* what is current then; the promise follows when the socket is disconnected.
onSocketFailure(t) ==
  /\ t.what \in {"fail", "fail_in_strand", "fail_and_wait"}
  /\ \/ /\ closeImpl /\ prom' = prom
        /\ todo' = (todo \ {t}) \cup
                      {Task(IF t.what = "fail_and_wait" THEN "wait" ELSE "error", t.attempt, sdSocket)}
     \/ /\ t.socket # sdSocket /\ Cleanup(t.socket, t.attempt) /\ todo' = todo \ {t}
        /\ UNCHANGED <<state, sock, hears, auths, lost, shut, table>>
  /\ UNCHANGED <<users, futures, network, object>>

FailureDone(t) ==
  /\ t.what \in {"error", "wait"} /\ \A s \in Only(t.socket) : sock[s] = "down"
  /\ \A x \in shut : x.socket # t.socket
  /\ SetError({t.attempt}) /\ todo' = todo \ {t}
  /\ UNCHANGED <<state, users, futures, sockets, network, object, table>>

\* close(); with nothing in the state it does nothing.
close ==
  /\ state # <<NoSocket, NoLink, [e \in Events |-> NoSocket]>>
  /\ closes < client.maxCloses /\ closes' = closes + 1 /\ closeImpl
  /\ UNCHANGED <<client, step, given, prom, futures, todo, network, object>>

\* The continuation of metaDisconnect(): with the last local link goes the remote one.
metaDisconnect(e, k) ==
  /\ <<e, k>> \in unlinking /\ unlinking' = unlinking \ {<<e, k>>}
  /\ \A x \in shut : x.links[e] # k
  /\ locals' = [locals EXCEPT ![e] = @ \ {k}]
  /\ LET last == k \in locals[e] /\ locals[e] = {k} IN
       /\ shared' = IF last THEN [shared EXCEPT ![e] = NoSocket] ELSE shared
       /\ registered' = IF last /\ Up(remote) THEN registered \ {<<e, remote, shared[e]>>} ELSE registered
  /\ UNCHANGED <<state, users, prom, futures, todo, sockets, network, object, shares>>

-----------------------------------------------------------------------------
\* The sockets: what MessageSocket promises.  A connection is made, or ends; its end is
\* told to the subscribers of `disconnected`, then to those of `socketEvent`.
Connects(s) ==
  /\ sock[s] = "connecting" /\ s \notin closing
  /\ sock' = [sock EXCEPT ![s] = "connected"] /\ con' = [con EXCEPT ![s] = "value"]
  /\ UNCHANGED <<state, users, prom, meta, awaiting, todo, closing, hears, auths, lost, shut,
                 network, object, table>>

Ends(s) ==
  /\ sock[s] \in {"connecting", "connected"} /\ sock' = [sock EXCEPT ![s] = "down"]
  /\ con' = [con EXCEPT ![s] = IF @ = "running" THEN "error" ELSE @]
  /\ lost' = [lost EXCEPT ![s] = IF sock[s] = "connected" THEN "client" ELSE "done"]
  /\ wire' = wire \ {s} /\ Detour(s \notin closing)
  /\ UNCHANGED <<state, users, prom, meta, awaiting, todo, closing, hears, auths, shut, silent, object,
                 table>>

\* The callback that connect() connected: onSocketFailure(), and the promise if it runs.
LostClient(s) ==
  /\ lost[s] = "client" /\ ~Busy(s) /\ lost' = [lost EXCEPT ![s] = "remote"]
  /\ IF s \in hears /\ s # sdSocket THEN Cleanup(s, s) /\ todo' = todo
     ELSE /\ todo' = IF s \in hears THEN todo \cup {Task("fail_and_wait", s, s)} ELSE todo
          /\ UNCHANGED <<closing, prom>>
  /\ UNCHANGED <<state, users, futures, sock, hears, auths, shut, network, object, table>>


\* The callback waits until the failure is handled.  Then, if the remote object has not got
\* another socket meanwhile, RemoteObject::onSocketDisconnected().
onSocketDisconnected(s) ==
  /\ lost[s] = "remote" /\ lost' = [lost EXCEPT ![s] = "event"]
  /\ \A t \in todo : t.attempt = s => t.what \notin {"fail_and_wait", "wait"}
  /\ IF remote = s THEN CallsFail /\ remote' = NoSocket ELSE UNCHANGED <<meta, object>>
  /\ UNCHANGED <<state, users, prom, con, awaiting, todo, sock, closing, hears, auths, shut,
                 network, table>>

\* Last `socketEvent`.
LostEvent(s) ==
  /\ lost[s] = "event" /\ lost' = [lost EXCEPT ![s] = "done"] /\ Event(s, "lost")
  /\ UNCHANGED <<state, users, futures, sock, hears, auths, shut, network, object, table>>

\* A promise that nobody holds any more is broken.
Held(k) ==
  \/ step[k] = "started" \/ con[k] \in {"running", "value", "error"} \/ k \in hears
  \/ \E s \in Attempts : <<s, k>> \in auths
  \/ meta[k] \in {"running", "value", "error"} \/ \E e \in Events : <<e, k>> \in awaiting
  \/ \E t \in todo : t.attempt = k

Break(k) ==
  /\ prom[k] = "running" /\ ~Held(k) /\ SetError({k})
  /\ UNCHANGED <<state, users, futures, todo, sockets, network, object, table>>

Handle(t) == \/ Hello(t) \/ onAuthentication(t) \/ metaConnect(t) \/ Link(t) \/ Ready(t)
             \/ onSocketFailure(t) \/ FailureDone(t)

Fails(t) == HelloThrows(t) \/ onAuthenticationThrows(t) \/ metaConnectFails(t)

Next ==
  \/ \E k \in Attempts :
       \/ ConnectCheck(k) \/ connect(k) \/ ConnectReturns(k) \/ onSocketConnected(k)
       \/ onMetaObjectFetched(k) \/ Break(k)
       \/ \E e \in Events : onSDEventConnected(e, k) \/ metaDisconnect(e, k)
       \/ Connects(k) \/ Ends(k) \/ LostClient(k) \/ onSocketDisconnected(k) \/ LostEvent(k)
       \/ Unanswered(k) \/ \E a \in {"done", "next", "invalid", "refused"} : ReadAuth(k, a)
  \/ \E t \in todo : Handle(t) \/ Fails(t)
  \/ \E x \in shut : Shut(x)
  \/ \E c \in calls, a \in {"value", "error"} : ReadReply(c, a)
  \/ close

Spec == Init /\ [][Next]_vars

\* Handlers, continuations and tasks run, a socket that is to disconnect does, the directory
\* answers.  Nobody has to connect or to close, no connection has to be made or lost.
Progress ==
  \/ \E k \in Attempts :
       \/ connect(k) \/ ConnectReturns(k) \/ onSocketConnected(k) \/ onMetaObjectFetched(k) \/ Break(k)
       \/ \E e \in Events : onSDEventConnected(e, k) \/ metaDisconnect(e, k)
       \/ (k \in closing /\ Ends(k))
       \/ LostClient(k) \/ onSocketDisconnected(k) \/ LostEvent(k) \/ ReadAuth(k, "done")
  \/ \E t \in todo : Handle(t)
  \/ \E x \in shut : Shut(x)
  \/ \E c \in calls : ReadReply(c, "value")

\* Each of these steps happens a bounded number of times, so that none is put off for
\* ever as long as one of them that can be taken is.
FairSpec == Spec /\ WF_vars(Progress)

-----------------------------------------------------------------------------
(* Properties.                                                             *)

Listens(k) == \A e \in Events : \E j \in Attempts : <<e, k, j>> \in registered

\* "We ensure in that function that connect to all events are already setup when we said
\* we are connect": when connect() has succeeded the directory has registered both events
\* for the socket, if the links that the promise waited for are those of this attempt.
ReadyWithOwnLinks ==
  \A k \in Attempts :
    (prom[k] = "value" /\ sdSocket = k /\ Up(k) /\ \A e \in Events : shares[<<e, k>>] = k)
      => Listens(k)

\* The same for every connection.  It does not hold, and is refuted by
\* MCDirectoryClientRefuted.cfg: the table of remote links outlives a connection.
ConnectedIsReady ==
  \A k \in Attempts : (prom[k] = "value" /\ sdSocket = k /\ Up(k)) => Listens(k)

\* onSocketConnected() has subscribed to a socket whose end was already told.
TooLate(k) == \E s \in Attempts : <<s, k>> \in auths /\ lost[s] = "done"


\* The same without the second exception.  It does not hold, and is refuted by
\* MCDirectoryClientRefuted.cfg.
ConnectAlwaysEnds ==
  (\A s \in Attempts : []<>(sock[s] # "connecting")) =>
    \A k \in Attempts : (prom[k] = "running") ~> (prom[k] # "running" \/ TooLate(k))
=============================================================================
