----------------------- MODULE DirectoryClientProofs -----------------------
(***************************************************************************)
(* When connect() of a service directory client succeeds, the client gets  *)
(* the directory's events, for any number of attempts, overlapping or not, *)
(* closed, refused or cut off at any step, unless it shares the link of an *)
(* attempt before it.                                                      *)
(***************************************************************************)
EXTENDS DirectoryClient, TLAPS

\* An attempt has left nothing before connect() has stored its socket.
NotStarted ==
  \A k \in Attempts : step[k] \in {"none", "checked"} =>
    /\ sdSocket # k /\ k \notin hears /\ meta[k] = "none"
    /\ \A s \in Attempts : <<s, k>> \notin auths
    /\ \A t \in todo : t.attempt # k

\* The remote object has the current socket, if both have one, and calls through it.
OneSocket ==
  /\ sdSocket # NoSocket /\ remote # NoSocket => sdSocket = remote
  /\ \A c \in calls : c[3] = remote

\* A call in flight is what its future waits for.
CallsRun ==
  \A c \in calls : IF c[1] = "metaObject" THEN meta[c[2]] = "running"
                                          ELSE registering[<<c[1], c[2]>>] = "running"

\* The metaobject comes first.
FetchFirst ==
  \A k \in Attempts : meta[k] # "handled" =>
    /\ \A e \in Events : shares[<<e, k>>] = NoSocket
    /\ \A t \in todo : t.attempt = k => t.what \notin Events

\* An attempt that has asked for an event has a local link, or was refused.
Asked(e, k) == k \in locals[e] \/ shares[<<e, k>>] = NoRemote

\* Then the two events, one after the other, each once.
EventsOnce ==
  /\ \A t \in todo : t.what \in Events =>
       /\ shares[<<t.what, t.attempt>>] = NoSocket
       /\ t.what = "serviceRemoved" => Asked("serviceAdded", t.attempt)
       /\ \A u \in todo : u.what \in Events /\ u.attempt = t.attempt => u = t
  /\ \A k \in Attempts :
       shares[<<"serviceAdded", k>>] = NoSocket => shares[<<"serviceRemoved", k>>] = NoSocket

\* An event that is not connected to has no link and no call.
NoLinkYet ==
  \A e \in Events, k \in Attempts : shares[<<e, k>>] = NoSocket =>
    /\ k \notin locals[e] /\ registering[<<e, k>>] = "none"

\* Nor is the client told of any link before both are asked for.
NothingLinked ==
  \A k \in Attempts : shares[<<"serviceRemoved", k>>] = NoSocket =>
    /\ prom[k] # "value"
    /\ \A t \in todo : t.attempt = k => t.what \notin {"added", "removed", "ready"}
    /\ \A e \in Events : <<e, k>> \notin awaiting /\ links[e] # k /\ <<e, k>> \notin unlinking

\* The local links of an event share one remote link, which goes with the last of them;
\* but for those that were refused.
TableShared ==
  \A e \in Events :
    /\ locals[e] = {} => shared[e] = NoSocket
    /\ \A k \in locals[e] : shares[<<e, k>>] \in {shared[e], NoRemote}
    /\ shared[e] # NoSocket => shares[<<e, shared[e]>>] = shared[e]

\* A link is undone only after the client has held it, and once.
LinkedOnce ==
  \A e \in Events, k \in Attempts :
    /\ <<e, k>> \in unlinking => k \in locals[e] /\ links[e] # k
    /\ links[e] = k => k \in locals[e]
    /\ <<e, k>> \in awaiting => Asked(e, k) /\ links[e] # k /\ <<e, k>> \notin unlinking

\* A link that the client is about to hold is not held, awaited or undone.
TaskedOnce ==
  \A e \in Events : \A t \in todo : t.what = Linked[e] =>
    /\ t.attempt \in locals[e] /\ links[e] # t.attempt
    /\ <<e, t.attempt>> \notin unlinking /\ <<e, t.attempt>> \notin awaiting
    /\ \A u \in todo : u.what = Linked[e] /\ u.attempt = t.attempt => u = t

\* What the client holds, is about to or has held, was registered.
LinkedRegistered ==
  \A e \in Events, k \in Attempts :
    (links[e] = k \/ <<e, k>> \in unlinking \/ \E t \in todo : t.what = Linked[e] /\ t.attempt = k)
      => shares[<<e, k>>] # NoRemote /\ registering[<<e, shares[<<e, k>>]>>] = "value"

\* The current attempt, when it has a remote link of its own: nobody undoes it, the promise
\* waits for it, and the directory has it.
OwnLinkStays ==
  \A e \in Events, k \in Attempts : sdSocket = k /\ shares[<<e, k>>] = k =>
    /\ k \in locals[e] /\ \A j \in Attempts : <<e, j>> \notin unlinking
    /\ prom[k] = "value" \/ (\E t \in todo : t.what = "ready" /\ t.attempt = k)
         => registering[<<e, k>>] = "value"
    /\ registering[<<e, k>>] = "value" => <<e, k, k>> \in registered

\* A task has an attempt, and a socket when it is to subscribe to it.
TodoTyped ==
  \A t \in todo : /\ t.attempt \in Attempts /\ t.socket \in Attempts \cup {NoSocket}
                  /\ t.what = "hello" => t.socket \in Attempts

\* What the remote object and the table of links go through.
TableInv ==
  /\ OneSocket /\ CallsRun /\ FetchFirst /\ EventsOnce /\ NoLinkYet /\ NothingLinked
  /\ TableShared /\ LinkedOnce /\ TaskedOnce /\ LinkedRegistered /\ OwnLinkStays

\* The tasks that have to do with the events.
Vital == Events \cup {"added", "removed", "ready"}

\* A step that leaves all of this alone.
Quiet ==
  /\ UNCHANGED <<sdSocket, links, remote, calls, meta, registering, awaiting, table>>
  /\ \A t \in todo' : t.what \in Vital => t \in todo
  /\ \A k \in Attempts : prom'[k] = "value" => prom[k] = "value"

\* The inductive invariant.
CInv == TypeOK /\ TodoTyped /\ NotStarted /\ TableInv

-----------------------------------------------------------------------------
\* The client starts with no attempt, and the table with no link.
LEMMA InitCInv == ASSUME ClientAssumption PROVE Init => CInv
<1> SUFFICES ASSUME Init PROVE CInv
  OBVIOUS
<1> USE DEF NoSocket, NoLink
<1>1. TypeOK /\ TodoTyped
  BY DEF Init, TypeOK, TodoTyped, ClientAssumption, Pairs
<1>2. NotStarted
  BY DEF Init, NotStarted, ClientAssumption
<1>3. OneSocket /\ CallsRun /\ FetchFirst /\ EventsOnce /\ LinkedRegistered
  BY DEF Init, OneSocket, CallsRun, FetchFirst, EventsOnce, LinkedRegistered, ClientAssumption, Pairs, Events
<1>4. NoLinkYet /\ NothingLinked /\ TableShared /\ LinkedOnce /\ TaskedOnce /\ OwnLinkStays
  BY DEF Init, NoLinkYet, NothingLinked, TableShared, LinkedOnce, TaskedOnce, OwnLinkStays, ClientAssumption, Pairs, Events
<1> QED
  BY <1>1, <1>2, <1>3, <1>4 DEF CInv, TableInv

\* The fields of a task.
LEMMA TaskFields ==
  \A w, k, s : Task(w, k, s).what = w /\ Task(w, k, s).attempt = k /\ Task(w, k, s).socket = s
BY DEF Task

\* A handler adds a task for one attempt and one socket.
LEMMA TodoGrows ==
  ASSUME TodoTyped, NEW k \in Attempts, NEW s \in Attempts \cup {NoSocket},
         \A u \in todo' : u \in todo \/ \E w : u = Task(w, k, s) /\ (w = "hello" => s # NoSocket)
  PROVE  TodoTyped'
BY TaskFields DEF TodoTyped

\* Setting errors settles no promise with a value, and none that was not given out.
LEMMA SetErrorEffect ==
  ASSUME TypeOK, NEW S, SetError(S)
  PROVE  /\ prom' \in [Attempts -> {"none", "running", "value", "error"}]
         /\ \A k \in Attempts : /\ prom'[k] = "value" => prom[k] = "value"
                                /\ prom[k] = "none" => prom'[k] = "none"
BY DEF SetError, TypeOK

\* Cleaning up after a failure settles no promise with a value, and starts none.
LEMMA CleanupEffect ==
  ASSUME TypeOK, NEW s \in Attempts \cup {NoSocket}, NEW k, Cleanup(s, k)
  PROVE  /\ prom' \in [Attempts -> {"none", "running", "value", "error"}] /\ closing' \subseteq Attempts
         /\ \A j \in Attempts : /\ prom'[j] = "value" => prom[j] = "value"
                                /\ prom[j] = "none" => prom'[j] = "none"
BY SetErrorEffect DEF Cleanup, Only, TypeOK, NoSocket

\* An event of a socket is handled by the attempts that have subscribed to it.
LEMMA EventEffect ==
  ASSUME TypeOK, TodoTyped, NEW s \in Attempts, NEW a, a # "hello", Event(s, a)
  PROVE  /\ TodoTyped'
         /\ prom' \in [Attempts -> {"none", "running", "value", "error"}] /\ closing' \subseteq Attempts
         /\ \A k \in Attempts : /\ prom'[k] = "value" => prom[k] = "value"
                                /\ prom[k] = "none" => prom'[k] = "none"
         /\ \A t \in todo' :
              \/ t \in todo
              \/ /\ t.what = a /\ t.socket = s /\ t.attempt \in Attempts /\ <<s, t.attempt>> \in auths
<1> DEFINE subscribed == {k \in Attempts : <<s, k>> \in auths}
<1>1. CASE s # sdSocket /\ subscribed # {}
  <2>1. closing' = closing \cup {s} /\ SetError(subscribed) /\ todo' = todo
    BY <1>1 DEF Event
  <2> QED
    BY <2>1, SetErrorEffect DEF TypeOK, TodoTyped
<1>2. CASE ~(s # sdSocket /\ subscribed # {})
  <2>1. todo' = todo \cup {Task(a, k, s) : k \in subscribed} /\ UNCHANGED <<closing, prom>>
    BY <1>2 DEF Event
  <2> QED
    <3> HIDE DEF subscribed
    <3>2. \A t \in todo' : t \in todo \/ \E k \in subscribed : t = Task(a, k, s)
      BY <2>1
    <3>3. \A k \in subscribed : k \in Attempts /\ <<s, k>> \in auths
      BY DEF subscribed
    <3>4. \A t \in todo' : \/ t \in todo
                           \/ /\ t.what = a /\ t.socket = s
                              /\ t.attempt \in Attempts /\ <<s, t.attempt>> \in auths
      BY <3>2, <3>3, TaskFields
    <3>5. TodoTyped'
      BY <3>4 DEF TodoTyped
    <3> QED
      BY <2>1, <3>4, <3>5 DEF TypeOK
<1> QED
  BY <1>1, <1>2

\* The calls in flight fail, and nothing else of what is waited for changes.
LEMMA CallsFailEffect ==
  ASSUME TypeOK, CallsFail
  PROVE  /\ calls' = {}
         /\ meta' \in [Attempts -> {"none", "running", "value", "error", "handled"}]
         /\ registering' \in [Pairs -> {"none", "running", "value", "error"}]
         /\ \A k \in Attempts :
              meta'[k] = IF \E c \in calls : c[1] = "metaObject" /\ c[2] = k THEN "error" ELSE meta[k]
         /\ \A e \in Events, k \in Attempts :
              registering'[<<e, k>>] = IF \E c \in calls : <<c[1], c[2]>> = <<e, k>>
                                         THEN "error" ELSE registering[<<e, k>>]
<1>1. \A p \in Pairs : registering'[p] = IF \E c \in calls : <<c[1], c[2]>> = p THEN "error" ELSE registering[p]
  BY DEF CallsFail
<1>2. registering' \in [Pairs -> {"none", "running", "value", "error"}]
  BY DEF CallsFail, TypeOK
<1>3. \A e \in Events, k \in Attempts :
              registering'[<<e, k>>] = IF \E c \in calls : <<c[1], c[2]>> = <<e, k>>
                                         THEN "error" ELSE registering[<<e, k>>]
  BY <1>1 DEF Pairs
<1>4. calls' = {} /\ meta' = [k \in Attempts |->
                IF \E c \in calls : c[1] = "metaObject" /\ c[2] = k THEN "error" ELSE meta[k]]
  BY DEF CallsFail
<1> QED
  BY <1>2, <1>3, <1>4 DEF TypeOK

\* closeImpl() leaves no current socket and no link, and undoes the links there were.
LEMMA CloseEffect ==
  ASSUME TypeOK, closeImpl
  PROVE  /\ sdSocket' = NoSocket /\ eventLink' = NoLink /\ links' \in [Events -> Attempts \cup {NoSocket}]
         /\ \A e \in Events : links'[e] = NoSocket
         /\ UNCHANGED <<hears, auths, closing>> /\ \A x \in shut' : x.socket \in Attempts
         /\ unlinking' \subseteq Pairs
         /\ \A e \in Events, k \in Attempts :
              <<e, k>> \in unlinking' <=> <<e, k>> \in unlinking \/ links[e] = k
         /\ UNCHANGED <<sock, lost, locals, shared, shares, registered>>
<1>1. unlinking' = unlinking \cup {p \in Pairs : links[p[1]] = p[2]}
  BY DEF closeImpl
<1>2. \A e \in Events, k \in Attempts : <<e, k>> \in Pairs /\ <<e, k>>[1] = e /\ <<e, k>>[2] = k
  BY DEF Pairs
<1>3. \A x \in shut' : x.socket \in Attempts
  BY DEF closeImpl, TypeOK, Only
<1> QED
  BY <1>1, <1>2, <1>3 DEF closeImpl, TypeOK, NoSocket

\* The detours stay within their bound.
LEMMA DetourEffect ==
  ASSUME TypeOK, client.maxDetours \in Nat, NEW d, Detour(d), UNCHANGED client
  PROVE  detours' \in 0..client'.maxDetours
BY DEF Detour, TypeOK

\* Every step keeps the types.
LEMMA TypeKept == ASSUME ClientAssumption, TypeOK, TodoTyped, Next PROVE TypeOK' /\ TodoTyped'
<1> USE DEF NoSocket, state, users, futures, sockets, network, object, table
<1>0. client.maxDetours \in Nat /\ client.maxCloses \in Nat
  BY DEF ClientAssumption, TypeOK
<1>1. ASSUME NEW k \in Attempts, ConnectCheck(k) PROVE TypeOK' /\ TodoTyped'
  BY <1>1 DEF ConnectCheck, TypeOK, TodoTyped
<1>2. ASSUME NEW k \in Attempts, connect(k) PROVE TypeOK' /\ TodoTyped'
  BY <1>2, CallsFailEffect DEF connect, Only, TypeOK, TodoTyped
<1>3. ASSUME NEW k \in Attempts, ConnectReturns(k) PROVE TypeOK' /\ TodoTyped'
  BY <1>3 DEF ConnectReturns, TypeOK, TodoTyped
<1>4. ASSUME NEW k \in Attempts, onSocketConnected(k) PROVE TypeOK' /\ TodoTyped'
  <2>1. con' \in [Attempts -> {"none", "running", "value", "error", "handled"}]
    BY <1>4 DEF onSocketConnected, TypeOK, TodoTyped
  <2>2. CASE given[k] # sdSocket
    <3>1. Cleanup(given[k], k) /\ todo' = todo
      BY <1>4, <2>2 DEF onSocketConnected
    <3>2. closing' \subseteq Attempts /\ prom' \in [Attempts -> {"none", "running", "value", "error"}]
      BY <3>1, CleanupEffect DEF TypeOK
    <3> QED
      BY <1>4, <2>1, <3>1, <3>2 DEF onSocketConnected, TypeOK, TodoTyped
  <2>3. CASE given[k] = sdSocket
    <3>1. \A u \in todo' : u \in todo \/ \E w : u = Task(w, k, given[k]) /\ (w = "hello" => given[k] # NoSocket)
      BY <1>4, <2>3 DEF onSocketConnected
    <3>2. given[k] \in Attempts \cup {NoSocket}
      BY DEF TypeOK
    <3>3. TodoTyped'
      BY <3>1, <3>2, TodoGrows
    <3> QED
      BY <1>4, <2>1, <2>3, <3>3, ZenonT(60) DEF onSocketConnected, TypeOK, TodoTyped
  <2> QED
    BY <2>2, <2>3
<1>5. ASSUME NEW k \in Attempts, onMetaObjectFetched(k) PROVE TypeOK' /\ TodoTyped'
  <2>1. meta' \in [Attempts -> {"none", "running", "value", "error", "handled"}]
    BY <1>5 DEF onMetaObjectFetched, TypeOK, TodoTyped
  <2>2. CASE given[k] # sdSocket
    <3>1. Cleanup(given[k], k) /\ todo' = todo
      BY <1>5, <2>2 DEF onMetaObjectFetched
    <3>2. closing' \subseteq Attempts /\ prom' \in [Attempts -> {"none", "running", "value", "error"}]
      BY <3>1, CleanupEffect DEF TypeOK
    <3> QED
      BY <1>5, <2>1, <3>1, <3>2 DEF onMetaObjectFetched, TypeOK, TodoTyped
  <2>3. CASE given[k] = sdSocket
    <3>1. \A u \in todo' : u \in todo \/ \E w : u = Task(w, k, given[k]) /\ (w = "hello" => given[k] # NoSocket)
      BY <1>5, <2>3 DEF onMetaObjectFetched
    <3>2. given[k] \in Attempts \cup {NoSocket}
      BY DEF TypeOK
    <3>3. TodoTyped'
      BY <3>1, <3>2, TodoGrows
    <3> QED
      BY <1>5, <2>1, <2>3, <3>3, ZenonT(60) DEF onMetaObjectFetched, TypeOK, TodoTyped
  <2> QED
    BY <2>2, <2>3
<1>6. ASSUME NEW k \in Attempts, Break(k) PROVE TypeOK' /\ TodoTyped'
  BY <1>6 DEF Break, SetError, TypeOK, TodoTyped
<1>7. ASSUME NEW k \in Attempts, NEW e \in Events, onSDEventConnected(e, k)
      PROVE  TypeOK' /\ TodoTyped'
  BY <1>7 DEF onSDEventConnected, Task, Linked, Events, TypeOK, TodoTyped
<1>8. ASSUME NEW k \in Attempts, NEW e \in Events, metaDisconnect(e, k)
      PROVE  TypeOK' /\ TodoTyped'
  BY <1>8 DEF metaDisconnect, TypeOK, TodoTyped
<1>9. ASSUME NEW k \in Attempts, Connects(k) PROVE TypeOK' /\ TodoTyped'
  BY <1>9 DEF Connects, TypeOK, TodoTyped
<1>10. ASSUME NEW k \in Attempts, Ends(k) PROVE TypeOK' /\ TodoTyped'
  <2>1. detours' \in 0..client'.maxDetours
    BY <1>0, <1>10, DetourEffect DEF Ends
  <2> QED
    BY <1>10, <2>1 DEF Ends, TypeOK, TodoTyped
<1>11. ASSUME NEW k \in Attempts, LostClient(k) PROVE TypeOK' /\ TodoTyped'
  <2>1. CASE k \in hears /\ k # sdSocket
    <3>1. Cleanup(k, k) /\ todo' = todo
      BY <1>11, <2>1 DEF LostClient
    <3>2. closing' \subseteq Attempts /\ prom' \in [Attempts -> {"none", "running", "value", "error"}]
      BY <3>1, CleanupEffect
    <3> QED
      BY <1>11, <3>1, <3>2 DEF LostClient, TypeOK, TodoTyped
  <2>2. CASE ~(k \in hears /\ k # sdSocket)
    <3>1. \A u \in todo' : u \in todo \/ \E w : u = Task(w, k, k) /\ (w = "hello" => k # NoSocket)
      BY <1>11, <2>2 DEF LostClient
    <3>2. TodoTyped'
      BY <3>1, TodoGrows
    <3> QED
      BY <1>11, <2>2, <3>2, ZenonT(60) DEF LostClient, TypeOK, TodoTyped
  <2> QED
    BY <2>1, <2>2
<1>12. ASSUME NEW k \in Attempts, onSocketDisconnected(k) PROVE TypeOK' /\ TodoTyped'
  BY <1>12, CallsFailEffect DEF onSocketDisconnected, TypeOK, TodoTyped
<1>13. ASSUME NEW k \in Attempts, LostEvent(k) PROVE TypeOK' /\ TodoTyped'
  <2>1. Event(k, "lost")
    BY <1>13 DEF LostEvent
  <2>2. TodoTyped' /\ closing' \subseteq Attempts /\ prom' \in [Attempts -> {"none", "running", "value", "error"}]
    BY <2>1, EventEffect
  <2> QED
    BY <1>13, <2>2 DEF LostEvent, TypeOK, TodoTyped
<1>14. ASSUME NEW k \in Attempts, NEW a \in {"done", "next", "invalid", "refused"}, ReadAuth(k, a)
       PROVE  TypeOK' /\ TodoTyped'
  <2>1. Event(k, a)
    BY <1>14 DEF ReadAuth
  <2>2. TodoTyped' /\ closing' \subseteq Attempts /\ prom' \in [Attempts -> {"none", "running", "value", "error"}]
    BY <2>1, EventEffect
  <2>3. detours' \in 0..client'.maxDetours
    BY <1>0, <1>14, DetourEffect DEF ReadAuth
  <2> QED
    BY <1>14, <2>2, <2>3 DEF ReadAuth, TypeOK, TodoTyped
<1>15. ASSUME NEW t \in todo, Hello(t) PROVE TypeOK' /\ TodoTyped'
  <2>1. t.socket \in Attempts /\ t.attempt \in Attempts
    BY <1>15 DEF Hello, TypeOK, TodoTyped
  <2>2. eventLink' \in Attempts \X Attempts /\ auths' \subseteq Attempts \X Attempts
    BY <1>15, <2>1 DEF Hello, Subscribe, TypeOK
  <2> QED
    BY <1>15, <2>1, <2>2, ZenonT(60) DEF Hello, TypeOK, TodoTyped
<1>16. ASSUME NEW t \in todo, onAuthentication(t) PROVE TypeOK' /\ TodoTyped'
  <2>1. meta' \in [Attempts -> {"none", "running", "value", "error", "handled"}]
    BY <1>16 DEF onAuthentication, CallState, TypeOK
  <2>2. calls' \subseteq (Events \cup {"metaObject"}) \X Attempts \X Attempts
    <3>1. calls' = calls \/ (Up(remote) /\ calls' = calls \cup {<<"metaObject", t.attempt, remote>>})
      BY <1>16 DEF onAuthentication, Called
    <3> QED
      BY <3>1 DEF Up, TypeOK
  <2>3. TodoTyped'
    <3>1. \A u \in todo' : u \in todo \/ u = Task("fail_in_strand", t.attempt, t.socket)
      BY <1>16 DEF onAuthentication
    <3>2. \A u \in todo' : u \in todo \/ /\ u.attempt = t.attempt /\ u.socket = t.socket
                                         /\ u.what # "hello"
      BY <3>1, TaskFields
    <3> QED
      BY <3>2 DEF TodoTyped
  <2>4. /\ eventLink' \in (Attempts \X Attempts) \cup {NoLink}
        /\ auths' \subseteq Attempts \X Attempts /\ wire' \subseteq Attempts
    <3>1. (eventLink' = eventLink \/ eventLink' = NoLink) /\ auths' \subseteq auths
      BY <1>16 DEF onAuthentication, Unsubscribed
    <3>2. wire' = wire \/ (wire' = wire \cup {t.socket} /\ t.socket # NoSocket)
      BY <1>16 DEF onAuthentication, Up
    <3> QED
      BY <3>1, <3>2, ZenonT(60) DEF TypeOK, TodoTyped
  <2> QED
    BY <1>16, <2>1, <2>2, <2>3, <2>4 DEF onAuthentication, TypeOK, TodoTyped
<1>17. ASSUME NEW t \in todo, metaConnect(t) PROVE TypeOK' /\ TodoTyped'
  <2> DEFINE e == t.what  k == t.attempt
  <2>1. e \in Events /\ k \in Attempts /\ <<e, k>> \in Pairs
    BY <1>17 DEF metaConnect, TypeOK, Pairs
  <2>2. TodoTyped'
    <3>1. \A u \in todo' : u \in todo \/ \E w : u = Task(w, k, t.socket) /\ (w = "hello" => t.socket # NoSocket)
      BY <1>17 DEF metaConnect, EventConnects
    <3> QED
      BY <3>1, <2>1, TodoGrows DEF TodoTyped
  <2>3. /\ locals' \in [Events -> SUBSET Attempts] /\ shared' \in [Events -> Attempts \cup {NoSocket}]
        /\ awaiting' \subseteq Pairs
    <3>1. locals' = [locals EXCEPT ![e] = @ \cup {k}] /\ (shared' = shared \/ shared' = [shared EXCEPT ![e] = k])
      BY <1>17 DEF metaConnect
    <3>2. awaiting' = awaiting \/ awaiting' = awaiting \cup {<<f, k>> : f \in Events}
      BY <1>17 DEF metaConnect, EventConnects
    <3>3. awaiting' \subseteq Pairs
      BY <2>1, <3>2 DEF TypeOK, Pairs
    <3> QED
      BY <2>1, <3>1, <3>3 DEF TypeOK
  <2>4. /\ shares' \in [Pairs -> Attempts \cup {NoSocket, NoRemote}]
        /\ registering' \in [Pairs -> {"none", "running", "value", "error"}]
    <3>1. \/ shares' = [shares EXCEPT ![<<e, k>>] = k] \/ shares' = [shares EXCEPT ![<<e, k>>] = shared[e]]
      BY <1>17 DEF metaConnect
    <3>2. registering' = registering \/ registering' = [registering EXCEPT ![<<e, k>>] = CallState]
      BY <1>17 DEF metaConnect
    <3>3. CallState \in {"running", "error"} /\ shared[e] \in Attempts \cup {NoSocket}
      BY <2>1 DEF CallState, TypeOK
    <3> QED
      BY <2>1, <3>1, <3>2, <3>3, SMTT(30) DEF TypeOK
  <2>5. calls' \subseteq (Events \cup {"metaObject"}) \X Attempts \X Attempts
    <3>1. calls' = calls \/ (Up(remote) /\ calls' = calls \cup {<<e, k, remote>>})
      BY <1>17 DEF metaConnect, Called
    <3> QED
      BY <2>1, <3>1 DEF Up, TypeOK
  <2> QED
    BY <1>17, <2>2, <2>3, <2>4, <2>5 DEF metaConnect, TypeOK, TodoTyped
<1>18. ASSUME NEW t \in todo, Link(t) PROVE TypeOK' /\ TodoTyped'
  BY <1>18 DEF Link, Task, TypeOK, TodoTyped
<1>19. ASSUME NEW t \in todo, Ready(t) PROVE TypeOK' /\ TodoTyped'
  BY <1>19, ZenonT(60) DEF Ready, TypeOK, TodoTyped
<1>20. ASSUME NEW t \in todo, onSocketFailure(t) PROVE TypeOK' /\ TodoTyped'
  <2>1. CASE /\ closeImpl /\ prom' = prom
             /\ todo' = (todo \ {t}) \cup
                      {Task(IF t.what = "fail_and_wait" THEN "wait" ELSE "error", t.attempt, sdSocket)}
    <3>1. \A u \in todo' : u \in todo \/ u = Task("wait", t.attempt, sdSocket) \/ u = Task("error", t.attempt, sdSocket)
      BY <2>1
    <3>2. TodoTyped'
      <4>1. t.attempt \in Attempts /\ sdSocket \in Attempts \cup {NoSocket}
        BY DEF TypeOK
      <4> QED
        BY <3>1, <4>1, TaskFields DEF TodoTyped
    <3>3. UNCHANGED <<users, futures, network, object>>
      BY <1>20 DEF onSocketFailure
    <3> QED
      BY <2>1, <3>2, <3>3, CloseEffect, ZenonT(60) DEF TypeOK, TodoTyped
  <2>2. CASE /\ Cleanup(t.socket, t.attempt) /\ todo' = todo \ {t}
             /\ UNCHANGED <<state, sock, hears, auths, lost, shut, table>>
    <3>1. closing' \subseteq Attempts /\ prom' \in [Attempts -> {"none", "running", "value", "error"}]
      BY <2>2, CleanupEffect DEF TypeOK
    <3> QED
      BY <1>20, <2>2, <3>1 DEF onSocketFailure, TypeOK, TodoTyped
  <2> QED
    BY <1>20, <2>1, <2>2 DEF onSocketFailure
<1>21. ASSUME NEW t \in todo, FailureDone(t) PROVE TypeOK' /\ TodoTyped'
  BY <1>21 DEF FailureDone, SetError, TypeOK, TodoTyped
<1>22. ASSUME NEW c \in calls, NEW a \in {"value", "error"}, ReadReply(c, a)
       PROVE  TypeOK' /\ TodoTyped'
  <2>1. /\ Event(c[3], "refused") /\ c[1] \in Events \cup {"metaObject"} /\ c[2] \in Attempts /\ c[3] \in Attempts
    BY <1>22 DEF ReadReply, TypeOK, TodoTyped
  <2>2. TodoTyped' /\ closing' \subseteq Attempts /\ prom' \in [Attempts -> {"none", "running", "value", "error"}]
    BY <2>1, EventEffect
  <2>3. detours' \in 0..client'.maxDetours
    BY <1>0, <1>22, DetourEffect DEF ReadReply
  <2>4. /\ meta' \in [Attempts -> {"none", "running", "value", "error", "handled"}]
        /\ registering' \in [Pairs -> {"none", "running", "value", "error"}]
        /\ registered' \subseteq Events \X Attempts \X Attempts
    <3>1. CASE c[1] = "metaObject"
      BY <1>22, <2>1, <3>1 DEF ReadReply, TypeOK
    <3>2. CASE c[1] # "metaObject"
      <4>1. <<c[1], c[2]>> \in Pairs /\ <<c[1], c[3], c[2]>> \in Events \X Attempts \X Attempts
        BY <2>1, <3>2 DEF Pairs
      <4>2. registering' = [registering EXCEPT ![<<c[1], c[2]>>] = a] /\ meta' = meta
        BY <1>22, <3>2 DEF ReadReply
      <4>3. registered' = registered \/ registered' = registered \cup {<<c[1], c[3], c[2]>>}
        BY <1>22, <3>2 DEF ReadReply
      <4> QED
        BY <4>1, <4>2, <4>3 DEF TypeOK
    <3> QED
      BY <3>1, <3>2
  <2> QED
    BY <1>22, <2>2, <2>3, <2>4 DEF ReadReply, TypeOK, TodoTyped
<1>23. ASSUME close PROVE TypeOK' /\ TodoTyped'
  <2>1. closeImpl /\ UNCHANGED <<client, step, given, prom, futures, todo, network, object>>
    BY <1>23 DEF close
  <2>2. closes' \in 0..client'.maxCloses
    BY <1>0, <1>23 DEF close, TypeOK
  <2>3. /\ sdSocket' = NoSocket /\ eventLink' = NoLink /\ links' \in [Events -> Attempts \cup {NoSocket}]
        /\ UNCHANGED <<hears, auths, closing>> /\ \A x \in shut' : x.socket \in Attempts
        /\ unlinking' \subseteq Pairs /\ UNCHANGED <<sock, lost, locals, shared, shares, registered>>
    BY <2>1, CloseEffect
  <2> QED
    BY <2>1, <2>2, <2>3 DEF TypeOK, TodoTyped
<1>24. ASSUME NEW t \in todo, HelloThrows(t) PROVE TypeOK' /\ TodoTyped'
  <2>1. t.socket \in Attempts /\ t.attempt \in Attempts
    BY <1>24 DEF HelloThrows, TypeOK, TodoTyped
  <2>2. eventLink' \in (Attempts \X Attempts) \cup {NoLink} /\ auths' \subseteq Attempts \X Attempts
    BY <1>24, <2>1 DEF HelloThrows, Subscribe, TypeOK
  <2>3. detours' \in 0..client'.maxDetours
    BY <1>0, <1>24, DetourEffect DEF HelloThrows
  <2> QED
    BY <1>24, <2>1, <2>2, <2>3, ZenonT(60) DEF HelloThrows, TypeOK, TodoTyped
<1>25. ASSUME NEW t \in todo, onAuthenticationThrows(t) PROVE TypeOK' /\ TodoTyped'
  <2>1. detours' \in 0..client'.maxDetours
    BY <1>0, <1>25, DetourEffect DEF onAuthenticationThrows
  <2>2. (eventLink' = eventLink \/ eventLink' = NoLink) /\ auths' \subseteq auths
    BY <1>25 DEF onAuthenticationThrows, Unsubscribed
  <2>3. silent' \subseteq Attempts
    <3>1. t.attempt \in Attempts /\ silent \subseteq Attempts
      BY DEF TypeOK
    <3>2. silent' = silent \cup {t.attempt}
      BY <1>25 DEF onAuthenticationThrows
    <3> QED
      BY <3>1, <3>2
  <2> QED
    BY <1>25, <2>1, <2>2, <2>3, ZenonT(60) DEF onAuthenticationThrows, TypeOK, TodoTyped
<1>26. ASSUME NEW t \in todo, metaConnectFails(t) PROVE TypeOK' /\ TodoTyped'
  <2> DEFINE e == t.what  k == t.attempt
  <2>1. e \in Events /\ k \in Attempts /\ <<e, k>> \in Pairs
    BY <1>26 DEF metaConnectFails, TypeOK, Pairs
  <2>2. TodoTyped'
    <3>1. \A u \in todo' : u \in todo \/ \E w : u = Task(w, k, t.socket) /\ (w = "hello" => t.socket # NoSocket)
      BY <1>26 DEF metaConnectFails, EventConnects
    <3> QED
      BY <3>1, <2>1, TodoGrows DEF TodoTyped
  <2>3. locals' \in [Events -> SUBSET Attempts] /\ awaiting' \subseteq Pairs
    <3>1. locals' = locals \/ locals' = [locals EXCEPT ![e] = @ \cup {k}]
      BY <1>26 DEF metaConnectFails
    <3>2. awaiting' = awaiting \/ awaiting' = awaiting \cup {<<f, k>> : f \in Events}
      BY <1>26 DEF metaConnectFails, EventConnects
    <3>3. awaiting' \subseteq Pairs
      BY <2>1, <3>2 DEF TypeOK, Pairs
    <3> QED
      BY <2>1, <3>1, <3>3 DEF TypeOK
  <2>4. shares' \in [Pairs -> Attempts \cup {NoSocket, NoRemote}]
    BY <1>26 DEF metaConnectFails, TypeOK
  <2>5. detours' \in 0..client'.maxDetours
    BY <1>0, <1>26, DetourEffect DEF metaConnectFails
  <2> QED
    BY <1>26, <2>2, <2>3, <2>4, <2>5 DEF metaConnectFails, TypeOK, TodoTyped
<1>27. ASSUME NEW k \in Attempts, Unanswered(k) PROVE TypeOK' /\ TodoTyped'
  <2>1. detours' \in 0..client'.maxDetours
    BY <1>0, <1>27, DetourEffect DEF Unanswered
  <2>2. silent' \subseteq Attempts /\ wire' \subseteq Attempts
    BY <1>27 DEF Unanswered, TypeOK
  <2> QED
    BY <1>27, <2>1, <2>2, ZenonT(60) DEF Unanswered, TypeOK, TodoTyped
<1>28. ASSUME NEW x \in shut, Shut(x) PROVE TypeOK' /\ TodoTyped'
  <2>1. x.socket \in Attempts /\ shut' \subseteq shut
    BY <1>28 DEF Shut, TypeOK
  <2>2. hears' \subseteq Attempts /\ auths' \subseteq Attempts \X Attempts /\ closing' \subseteq Attempts
    BY <1>28, <2>1 DEF Shut, Unsubscribed, TypeOK
  <2> QED
    BY <1>28, <2>1, <2>2, ZenonT(60) DEF Shut, TypeOK, TodoTyped
<1> QED
  BY <1>1, <1>2, <1>3, <1>4, <1>5, <1>6, <1>7, <1>8, <1>9, <1>10, <1>11, <1>12, <1>13, <1>14,
     <1>15, <1>16, <1>17, <1>18, <1>19, <1>20, <1>21, <1>22, <1>23, <1>24, <1>25, <1>26, <1>27,
     <1>28 DEF Next, Handle, Fails

-----------------------------------------------------------------------------
\* Whatever is done for an attempt that is started leaves the others as they are.
LEMMA StartedKeeps ==
  ASSUME NotStarted, NEW k \in Attempts, step[k] \notin {"none", "checked"},
         UNCHANGED <<sdSocket, hears, auths, step>>,
         \A u \in todo' : u \in todo \/ u.attempt = k,
         \A j \in Attempts : j # k => meta'[j] = meta[j]
  PROVE  NotStarted'
BY DEF NotStarted

\* An attempt is started by its connect(), and by nothing else.
LEMMA NotStartedKept ==
  ASSUME ClientAssumption, TypeOK, TodoTyped, NotStarted, TableInv, Next
  PROVE  NotStarted'
<1> USE DEF NoSocket, state, users, futures, sockets, network, object, table
<1>1. ASSUME NEW k \in Attempts, ConnectCheck(k) PROVE NotStarted'
  BY <1>1 DEF ConnectCheck, NotStarted, TypeOK
<1>2. ASSUME NEW k \in Attempts, connect(k) PROVE NotStarted'
  <2>1. \A j \in Attempts : meta[j] = "none" => meta'[j] = "none"
    BY <1>2, CallsFailEffect DEF connect, TableInv, CallsRun
  <2> QED
    <3>1. \A j \in Attempts : step'[j] \in {"none", "checked"} => j # k /\ step[j] \in {"none", "checked"}
      BY <1>2 DEF connect, TypeOK
    <3>2. sdSocket' = k /\ hears' = hears \cup {k} /\ UNCHANGED <<auths, todo>>
      BY <1>2 DEF connect
    <3> QED
      BY <2>1, <3>1, <3>2 DEF NotStarted
<1>3. ASSUME NEW k \in Attempts, ConnectReturns(k) PROVE NotStarted'
  <2>1. /\ \A j \in Attempts : step'[j] \in {"none", "checked"} => step[j] \in {"none", "checked"}
        /\ UNCHANGED <<sdSocket, hears, auths, meta, todo>>
    BY <1>3 DEF ConnectReturns, TypeOK
  <2> QED
    BY <2>1 DEF NotStarted
<1>4. ASSUME NEW k \in Attempts, onSocketConnected(k) PROVE NotStarted'
  <2>1. step[k] = "done" /\ UNCHANGED <<sdSocket, hears, meta, auths, step>>
    BY <1>4 DEF onSocketConnected
  <2>2. \A u \in todo' : u \in todo \/ u = Task("fail", k, given[k]) \/ u = Task("hello", k, given[k])
    BY <1>4 DEF onSocketConnected
  <2> QED
    BY <2>1, <2>2, TaskFields DEF NotStarted
<1>5. ASSUME NEW k \in Attempts, onMetaObjectFetched(k) PROVE NotStarted'
  <2>1. step[k] \notin {"none", "checked"} /\ UNCHANGED <<sdSocket, hears, auths, step>>
    BY <1>5 DEF onMetaObjectFetched, NotStarted
  <2>2. \A u \in todo' : u \in todo \/ u = Task("fail", k, given[k]) \/ u = Task("serviceAdded", k, given[k])
    BY <1>5 DEF onMetaObjectFetched
  <2>3. \A u \in todo' : u \in todo \/ u.attempt = k
    BY <2>2, TaskFields
  <2>4. \A j \in Attempts : j # k => meta'[j] = meta[j]
    BY <1>5 DEF onMetaObjectFetched, TypeOK
  <2> QED
    BY <2>1, <2>3, <2>4, StartedKeeps
<1>6. ASSUME NEW k \in Attempts, Break(k) PROVE NotStarted'
  BY <1>6 DEF Break, NotStarted
<1>7. ASSUME NEW k \in Attempts, NEW e \in Events, onSDEventConnected(e, k)
      PROVE  NotStarted'
  <2>1. step[k] \notin {"none", "checked"} /\ UNCHANGED <<sdSocket, hears, auths, step, meta>>
    BY <1>7 DEF onSDEventConnected, NotStarted, TableInv, NothingLinked, FetchFirst, Events
  <2>2. \A u \in todo' : u \in todo \/ u = Task("fail", k, sdSocket) \/ u = Task(Linked[e], k, sdSocket)
    BY <1>7 DEF onSDEventConnected
  <2>3. \A u \in todo' : u \in todo \/ u.attempt = k
    BY <2>2, TaskFields
  <2> QED
    BY <2>1, <2>3, StartedKeeps
<1>8. ASSUME NEW k \in Attempts, NEW e \in Events, metaDisconnect(e, k)
      PROVE  NotStarted'
  BY <1>8 DEF metaDisconnect, NotStarted
<1>9. ASSUME NEW k \in Attempts, Connects(k) PROVE NotStarted'
  BY <1>9 DEF Connects, NotStarted
<1>10. ASSUME NEW k \in Attempts, Ends(k) PROVE NotStarted'
  BY <1>10 DEF Ends, NotStarted
<1>11. ASSUME NEW k \in Attempts, LostClient(k) PROVE NotStarted'
  <2>1. UNCHANGED <<sdSocket, hears, auths, step, meta>>
    BY <1>11 DEF LostClient
  <2>2. CASE k \notin hears
    BY <1>11, <2>1, <2>2 DEF LostClient, NotStarted
  <2>3. CASE k \in hears
    <3>1. \A u \in todo' : u \in todo \/ u = Task("fail_and_wait", k, k)
      BY <1>11 DEF LostClient
    <3>2. \A u \in todo' : u \in todo \/ u.attempt = k
      BY <3>1, TaskFields
    <3>3. step[k] \notin {"none", "checked"}
      BY <2>3 DEF NotStarted
    <3> QED
      BY <2>1, <3>2, <3>3, StartedKeeps
  <2> QED
    BY <2>2, <2>3
<1>12. ASSUME NEW k \in Attempts, onSocketDisconnected(k) PROVE NotStarted'
  <2>1. UNCHANGED <<sdSocket, hears, auths, step, todo>>
    BY <1>12 DEF onSocketDisconnected
  <2>2. \A j \in Attempts : meta[j] = "none" => meta'[j] = "none"
    BY <1>12, CallsFailEffect DEF onSocketDisconnected, TableInv, CallsRun
  <2> QED
    BY <2>1, <2>2 DEF NotStarted
<1>13. ASSUME NEW k \in Attempts, LostEvent(k) PROVE NotStarted'
  <2>1. Event(k, "lost") /\ UNCHANGED <<sdSocket, hears, auths, step, meta>>
    BY <1>13 DEF LostEvent
  <2>2. \A t \in todo' : t \in todo \/ <<k, t.attempt>> \in auths
    BY <2>1, EventEffect
  <2> QED
    BY <2>1, <2>2 DEF NotStarted
<1>14. ASSUME NEW k \in Attempts, NEW a \in {"done", "next", "invalid", "refused"}, ReadAuth(k, a)
       PROVE  NotStarted'
  <2>1. Event(k, a) /\ UNCHANGED <<sdSocket, hears, auths, step, meta>>
    BY <1>14 DEF ReadAuth
  <2>2. \A t \in todo' : t \in todo \/ <<k, t.attempt>> \in auths
    BY <2>1, EventEffect
  <2> QED
    BY <2>1, <2>2 DEF NotStarted
<1>15. ASSUME NEW t \in todo, Hello(t) PROVE NotStarted'
  <2>1. todo' \subseteq todo /\ auths' = auths \cup {<<t.socket, t.attempt>>}
        /\ UNCHANGED <<sdSocket, hears, step, meta>>
    BY <1>15 DEF Hello, Subscribe
  <2> QED
    BY <2>1 DEF NotStarted
<1>16. ASSUME NEW t \in todo, onAuthentication(t) PROVE NotStarted'
  <2>1. auths' \subseteq auths /\ UNCHANGED <<sdSocket, hears, step>>
    BY <1>16 DEF onAuthentication, Unsubscribed
  <2>2. \A j \in Attempts : j # t.attempt => meta'[j] = meta[j]
    BY <1>16 DEF onAuthentication, TypeOK
  <2>3. \A u \in todo' : u \in todo \/ u = Task("fail_in_strand", t.attempt, t.socket)
    BY <1>16 DEF onAuthentication
  <2>4. \A u \in todo' : u \in todo \/ u.attempt = t.attempt
    BY <2>3, TaskFields
  <2>5. t.attempt \in Attempts /\ step[t.attempt] \notin {"none", "checked"}
    BY DEF TodoTyped, NotStarted
  <2> QED
    BY <2>1, <2>2, <2>4, <2>5 DEF NotStarted
<1>17. ASSUME NEW t \in todo, metaConnect(t) PROVE NotStarted'
  <2>1. UNCHANGED <<sdSocket, hears, step, auths, meta>>
    BY <1>17 DEF metaConnect
  <2>2. \A u \in todo' : u \in todo \/ u = Task("serviceRemoved", t.attempt, t.socket)
    BY <1>17 DEF metaConnect, EventConnects
  <2> QED
    BY <2>1, <2>2, TaskFields DEF NotStarted
<1>18. ASSUME NEW t \in todo, Link(t) PROVE NotStarted'
  <2>1. UNCHANGED <<sdSocket, hears, step, auths, meta>>
    BY <1>18 DEF Link
  <2>2. \A u \in todo' : u \in todo \/ u = Task("ready", t.attempt, t.socket)
    BY <1>18 DEF Link
  <2> QED
    BY <2>1, <2>2, TaskFields DEF NotStarted
<1>19. ASSUME NEW t \in todo, Ready(t) PROVE NotStarted'
  BY <1>19 DEF Ready, NotStarted
<1>20. ASSUME NEW t \in todo, onSocketFailure(t) PROVE NotStarted'
  <2>1. UNCHANGED <<step, meta>>
    BY <1>20 DEF onSocketFailure
  <2>2. \A u \in todo' : \/ u \in todo \/ u = Task("wait", t.attempt, sdSocket)
                         \/ u = Task("error", t.attempt, sdSocket)
    BY <1>20 DEF onSocketFailure
  <2>3. hears' \subseteq hears /\ auths' \subseteq auths /\ (sdSocket' = NoSocket \/ sdSocket' = sdSocket)
    BY <1>20 DEF onSocketFailure, closeImpl
  <2>4. \A k \in Attempts : k # NoSocket
    BY DEF ClientAssumption
  <2> QED
    BY <2>1, <2>2, <2>3, <2>4, TaskFields DEF NotStarted
<1>21. ASSUME NEW t \in todo, FailureDone(t) PROVE NotStarted'
  BY <1>21 DEF FailureDone, NotStarted
<1>22. ASSUME NEW c \in calls, NEW a \in {"value", "error"}, ReadReply(c, a)
       PROVE  NotStarted'
  <2>1. /\ Event(c[3], "refused") /\ c[2] \in Attempts /\ c[3] \in Attempts
        /\ UNCHANGED <<sdSocket, hears, auths, step>>
    BY <1>22 DEF ReadReply, TypeOK
  <2>2. \A t \in todo' : t \in todo \/ <<c[3], t.attempt>> \in auths
    BY <2>1, EventEffect
  <2>3. \A j \in Attempts : meta[j] = "none" => meta'[j] = "none"
    BY <1>22, <2>1 DEF ReadReply, TypeOK, TableInv, CallsRun
  <2> QED
    BY <2>1, <2>2, <2>3 DEF NotStarted
<1>23. ASSUME close PROVE NotStarted'
  <2>1. UNCHANGED <<step, meta, todo>> /\ sdSocket' = NoSocket /\ hears' \subseteq hears /\ auths' \subseteq auths
    BY <1>23 DEF close, closeImpl
  <2> QED
    BY <2>1 DEF NotStarted, ClientAssumption
<1>24. ASSUME NEW t \in todo, HelloThrows(t) PROVE NotStarted'
  <2>1. /\ todo' \subseteq todo /\ auths' \subseteq auths \cup {<<t.socket, t.attempt>>}
        /\ UNCHANGED <<sdSocket, hears, step, meta>>
    BY <1>24 DEF HelloThrows, Subscribe
  <2> QED
    BY <2>1 DEF NotStarted
<1>25. ASSUME NEW t \in todo, onAuthenticationThrows(t) PROVE NotStarted'
  <2>1. todo' \subseteq todo /\ auths' \subseteq auths /\ UNCHANGED <<sdSocket, hears, step, meta>>
    BY <1>25 DEF onAuthenticationThrows, Unsubscribed
  <2> QED
    BY <2>1 DEF NotStarted
<1>26. ASSUME NEW t \in todo, metaConnectFails(t) PROVE NotStarted'
  <2>1. UNCHANGED <<sdSocket, hears, step, auths, meta>>
    BY <1>26 DEF metaConnectFails
  <2>2. \A u \in todo' : u \in todo \/ u = Task("serviceRemoved", t.attempt, t.socket)
    BY <1>26 DEF metaConnectFails, EventConnects
  <2> QED
    BY <2>1, <2>2, TaskFields DEF NotStarted
<1>27. ASSUME NEW k \in Attempts, Unanswered(k) PROVE NotStarted'
  BY <1>27 DEF Unanswered, NotStarted
<1>28. ASSUME NEW x \in shut, Shut(x) PROVE NotStarted'
  <2>1. hears' \subseteq hears /\ auths' \subseteq auths /\ UNCHANGED <<sdSocket, step, meta, todo>>
    BY <1>28 DEF Shut, Unsubscribed
  <2> QED
    BY <2>1 DEF NotStarted
<1> QED
  BY <1>1, <1>2, <1>3, <1>4, <1>5, <1>6, <1>7, <1>8, <1>9, <1>10, <1>11, <1>12, <1>13, <1>14,
     <1>15, <1>16, <1>17, <1>18, <1>19, <1>20, <1>21, <1>22, <1>23, <1>24, <1>25, <1>26, <1>27,
     <1>28 DEF Next, Handle, Fails

-----------------------------------------------------------------------------
\* The tasks of the two links.
LEMMA LinkedNames ==
  /\ Linked["serviceAdded"] = "added" /\ Linked["serviceRemoved"] = "removed"
  /\ \A e \in Events : Linked[e] \in Vital /\ Linked[e] \in {"added", "removed"}
  /\ \A e, f \in Events : Linked[e] = Linked[f] => e = f
BY DEF Linked, Events, Vital

\* What a local link relies on is the remote link of an attempt.
LEMMA LocalsShare ==
  ASSUME TypeOK, TableInv
  PROVE  \A e \in Events : \A j \in locals[e] :
           j \in Attempts /\ (shares[<<e, j>>] # NoRemote => shares[<<e, j>>] \in Attempts)
<1> SUFFICES ASSUME NEW e \in Events, NEW j \in locals[e]
             PROVE  j \in Attempts /\ (shares[<<e, j>>] # NoRemote => shares[<<e, j>>] \in Attempts)
  OBVIOUS
<1>1. j \in Attempts
  BY DEF TypeOK
<1>2. shares[<<e, j>>] \in Attempts \cup {NoSocket, NoRemote}
  BY <1>1 DEF TypeOK, Pairs
<1>3. shares[<<e, j>>] # NoSocket
  BY <1>1 DEF TableInv, NoLinkYet
<1> QED
  BY <1>1, <1>2, <1>3

\* A quiet step keeps the invariant of the table.
LEMMA QuietKeeps == ASSUME TableInv, Quiet PROVE TableInv'
<1> USE DEF Quiet, table
<1>1. OneSocket' /\ CallsRun' /\ NoLinkYet' /\ TableShared'
  BY DEF TableInv, OneSocket, CallsRun, NoLinkYet, TableShared
<1>2. FetchFirst' /\ EventsOnce'
  BY DEF TableInv, FetchFirst, EventsOnce, Asked, Vital
<1>3. NothingLinked'
  BY DEF TableInv, NothingLinked, Vital
<1>4. LinkedOnce' /\ TaskedOnce' /\ LinkedRegistered'
  BY LinkedNames DEF TableInv, LinkedOnce, Asked, TaskedOnce, LinkedRegistered
<1>5. OwnLinkStays'
  BY DEF TableInv, OwnLinkStays, Vital
<1> QED
  BY <1>1, <1>2, <1>3, <1>4, <1>5 DEF TableInv

\* The steps that have nothing to do with the remote object.
LEMMA UsersAreQuiet ==
  ASSUME TypeOK, TodoTyped, NEW k \in Attempts,
         \/ ConnectCheck(k) \/ ConnectReturns(k) \/ onSocketConnected(k) \/ Break(k)
         \/ Connects(k) \/ Ends(k) \/ LostClient(k) \/ LostEvent(k)
         \/ \E a \in {"done", "next", "invalid", "refused"} : ReadAuth(k, a)
  PROVE  Quiet
<1> USE DEF state, users, futures, sockets, network, object
<1>1. CASE ConnectCheck(k) \/ ConnectReturns(k) \/ Connects(k) \/ Ends(k)
  BY <1>1 DEF ConnectCheck, ConnectReturns, Connects, Ends, Quiet
<1>2. CASE Break(k)
  BY <1>2, SetErrorEffect DEF Break, Quiet
<1>3. CASE onSocketConnected(k)
  <2>1. UNCHANGED <<sdSocket, links, remote, calls, meta, registering, awaiting, table>>
    BY <1>3 DEF onSocketConnected
  <2>2. \A u \in todo' : u \in todo \/ u = Task("fail", k, given[k]) \/ u = Task("hello", k, given[k])
    BY <1>3 DEF onSocketConnected
  <2>3. \A u \in todo' : u.what \in Vital => u \in todo
    BY <2>2, TaskFields DEF Vital, Events
  <2>4. \A j \in Attempts : prom'[j] = "value" => prom[j] = "value"
    BY <1>3, CleanupEffect DEF onSocketConnected, TypeOK
  <2> QED
    BY <2>1, <2>3, <2>4 DEF Quiet
<1>4. CASE LostClient(k)
  <2>1. UNCHANGED <<sdSocket, links, remote, calls, meta, registering, awaiting, table>>
    BY <1>4 DEF LostClient
  <2>2. \A u \in todo' : u \in todo \/ u = Task("fail_and_wait", k, k)
    BY <1>4 DEF LostClient
  <2>3. \A u \in todo' : u.what \in Vital => u \in todo
    BY <2>2, TaskFields DEF Vital, Events
  <2>4. \A j \in Attempts : prom'[j] = "value" => prom[j] = "value"
    BY <1>4, CleanupEffect DEF LostClient, TypeOK
  <2> QED
    BY <2>1, <2>3, <2>4 DEF Quiet
<1>5. ASSUME NEW a \in {"done", "next", "invalid", "refused", "lost"}, Event(k, a),
             UNCHANGED <<sdSocket, links, remote, calls, meta, registering, awaiting, table>>
      PROVE  Quiet
  <2>1. /\ \A j \in Attempts : prom'[j] = "value" => prom[j] = "value"
        /\ \A u \in todo' : u \in todo \/ u.what = a
    <3>1. a # "hello"
      OBVIOUS
    <3> QED
      BY <1>5, <3>1, EventEffect, ZenonT(60)
  <2> QED
    BY <1>5, <2>1 DEF Quiet, Vital, Events
<1>6. CASE LostEvent(k)
  BY <1>5, <1>6 DEF LostEvent
<1>7. ASSUME NEW a \in {"done", "next", "invalid", "refused"}, ReadAuth(k, a) PROVE Quiet
  BY <1>5, <1>7 DEF ReadAuth
<1> QED
  BY <1>1, <1>2, <1>3, <1>4, <1>6, <1>7

\* Nor have the tasks of the handshake and of a failure that is over.
LEMMA TasksAreQuiet ==
  ASSUME TypeOK, TodoTyped, NEW t \in todo,
         Hello(t) \/ FailureDone(t) \/ HelloThrows(t) \/ onAuthenticationThrows(t)
  PROVE  Quiet
<1> USE DEF state, users, futures, sockets, network, object
<1>1. CASE Hello(t)
  BY <1>1 DEF Hello, Quiet
<1>2. CASE FailureDone(t)
  BY <1>2, SetErrorEffect DEF FailureDone, Quiet
<1>3. CASE HelloThrows(t)
  BY <1>3 DEF HelloThrows, Quiet
<1>4. CASE onAuthenticationThrows(t)
  BY <1>4 DEF onAuthenticationThrows, Quiet
<1> QED
  BY <1>1, <1>2, <1>3, <1>4

\* closeImpl() hands the links it holds over to metaDisconnect().
LEMMA CloseKeeps ==
  ASSUME ClientAssumption, TypeOK, TableInv, closeImpl, prom' = prom,
         UNCHANGED <<remote, calls, meta, registering, awaiting>>,
         \A t \in todo' : t.what \in Vital => t \in todo
  PROVE  TableInv'
<1>1. /\ sdSocket' = NoSocket /\ \A e \in Events : links'[e] = NoSocket
      /\ \A e \in Events, k \in Attempts :
           <<e, k>> \in unlinking' <=> <<e, k>> \in unlinking \/ links[e] = k
      /\ UNCHANGED <<locals, shared, shares, registered>>
  BY CloseEffect
<1>2. \A k \in Attempts : k # NoSocket
  BY DEF ClientAssumption, NoSocket
<1>3. OneSocket' /\ CallsRun' /\ NoLinkYet' /\ TableShared'
  BY <1>1 DEF TableInv, OneSocket, CallsRun, NoLinkYet, TableShared
<1>4. FetchFirst' /\ EventsOnce'
  BY <1>1 DEF TableInv, FetchFirst, EventsOnce, Asked, Vital
<1>5. NothingLinked'
  BY <1>1, <1>2 DEF TableInv, NothingLinked, Vital
<1>6. LinkedOnce' /\ TaskedOnce' /\ LinkedRegistered'
  <2>1. \A u \in todo', e \in Events : u.what = Linked[e] => u \in todo
    BY LinkedNames
  <2>2. LinkedOnce'
    BY <1>1, <1>2 DEF TableInv, LinkedOnce, Asked
  <2>3. TaskedOnce'
    <3>1. \A u \in todo : u.attempt \in Attempts
      BY DEF TypeOK
    <3> QED
      BY <1>1, <1>2, <2>1, <3>1, ZenonT(60) DEF TableInv, TaskedOnce
  <2>4. LinkedRegistered'
    BY <1>1, <1>2, <2>1 DEF TableInv, LinkedRegistered
  <2> QED
    BY <2>2, <2>3, <2>4
<1>7. OwnLinkStays'
  BY <1>1, <1>2 DEF OwnLinkStays
<1> QED
  BY <1>3, <1>4, <1>5, <1>6, <1>7 DEF TableInv

\* Only what waits for a call fails with it.
LEMMA OnlyCallsFail ==
  ASSUME TypeOK, CallsRun, CallsFail
  PROVE  /\ \A k \in Attempts : meta[k] = "handled" <=> meta'[k] = "handled"
         /\ \A e \in Events, k \in Attempts :
              /\ registering[<<e, k>>] = "none" => registering'[<<e, k>>] = "none"
              /\ registering[<<e, k>>] = "value" <=> registering'[<<e, k>>] = "value"
<1>1. \A k \in Attempts : (\E c \in calls : c[1] = "metaObject" /\ c[2] = k) => meta[k] = "running"
  BY DEF CallsRun
<1>2. \A e \in Events, k \in Attempts :
        (\E c \in calls : <<c[1], c[2]>> = <<e, k>>) => registering[<<e, k>>] = "running"
  BY DEF CallsRun, Events
<1>3. /\ \A k \in Attempts :
           meta'[k] = IF \E c \in calls : c[1] = "metaObject" /\ c[2] = k THEN "error" ELSE meta[k]
      /\ \A e \in Events, k \in Attempts :
           registering'[<<e, k>>] = IF \E c \in calls : <<c[1], c[2]>> = <<e, k>>
                                      THEN "error" ELSE registering[<<e, k>>]
  BY CallsFailEffect
<1> QED
  BY <1>1, <1>2, <1>3

\* When the remote object's socket goes, its calls fail and nothing else.
LEMMA FailKeeps ==
  ASSUME ClientAssumption, TypeOK, NotStarted, TableInv, NEW k \in Attempts,
         connect(k) \/ (onSocketDisconnected(k) /\ remote = k)
  PROVE  TableInv'
<1> USE DEF state, users, futures, sockets, network, object, table
<1>1. /\ CallsFail /\ UNCHANGED <<links, awaiting, todo, locals, shared, shares, unlinking, registered>>
      /\ \A j \in Attempts : prom'[j] = "value" => prom[j] = "value"
  BY DEF connect, onSocketDisconnected, TypeOK
<1>2. calls' = {}
  BY <1>1 DEF CallsFail
<1>3. /\ \A j \in Attempts : meta[j] = "handled" <=> meta'[j] = "handled"
      /\ \A e \in Events, j \in Attempts :
           /\ registering[<<e, j>>] = "none" => registering'[<<e, j>>] = "none"
           /\ registering[<<e, j>>] = "value" <=> registering'[<<e, j>>] = "value"
  BY <1>1, OnlyCallsFail DEF TableInv
<1>4. OneSocket' /\ CallsRun'
  BY <1>2 DEF TableInv, OneSocket, CallsRun, connect, onSocketDisconnected
<1>5. FetchFirst' /\ EventsOnce' /\ TableShared' /\ LinkedOnce' /\ TaskedOnce'
  BY <1>1, <1>3 DEF TableInv, FetchFirst, EventsOnce, Asked, TableShared, LinkedOnce, TaskedOnce
<1>6. NoLinkYet' /\ NothingLinked'
  BY <1>1, <1>3, ZenonT(60) DEF TableInv, NoLinkYet, NothingLinked
<1>7. LinkedRegistered'
  <2> SUFFICES ASSUME NEW e \in Events, NEW j \in Attempts,
                      \/ links[e] = j \/ <<e, j>> \in unlinking
                      \/ \E t \in todo : t.what = Linked[e] /\ t.attempt = j
               PROVE  shares[<<e, j>>] # NoRemote /\ registering'[<<e, shares[<<e, j>>]>>] = "value"
    BY <1>1 DEF LinkedRegistered
  <2>1. /\ j \in locals[e] /\ shares[<<e, j>>] # NoRemote
        /\ registering[<<e, shares[<<e, j>>]>>] = "value"
    BY DEF TableInv, LinkedOnce, TaskedOnce, LinkedRegistered
  <2>2. shares[<<e, j>>] \in Attempts
    BY <2>1, LocalsShare
  <2> QED
    BY <1>3, <2>1, <2>2
<1>8. OwnLinkStays'
  <2>1. CASE connect(k)
    <3>1. sdSocket' = k /\ \A e \in Events : shares[<<e, k>>] # k
      BY <2>1 DEF connect, NotStarted, TableInv, FetchFirst, ClientAssumption, NoSocket
    <3> QED
      BY <1>1, <3>1 DEF OwnLinkStays
  <2>2. CASE onSocketDisconnected(k)
    BY <1>1, <1>3, <2>2 DEF onSocketDisconnected, TableInv, OwnLinkStays
  <2> QED
    BY <2>1, <2>2
<1> QED
  BY <1>4, <1>5, <1>6, <1>7, <1>8 DEF TableInv

\* onAuthentication() starts to fetch the metaobject.
LEMMA AuthenticationKeeps ==
  ASSUME TypeOK, TodoTyped, TableInv, NEW t \in todo, onAuthentication(t)
  PROVE  TableInv'
<1> USE DEF state, users, futures, sockets, network, object
<1> DEFINE k == t.attempt
<1>1. /\ UNCHANGED <<sdSocket, links, remote, registering, awaiting, table, prom>> /\ k \in Attempts
      /\ \/ meta' = [meta EXCEPT ![k] = CallState] /\ meta[k] = "none" /\ calls' = Called("metaObject", k)
         \/ meta' = meta /\ calls' = calls
  BY DEF onAuthentication, TypeOK
<1>2. \A u \in todo' : u.what \in Vital => u \in todo
  <2>1. \A u \in todo' : u \in todo \/ u = Task("fail_in_strand", t.attempt, t.socket)
    BY DEF onAuthentication
  <2> QED
    BY <2>1, TaskFields DEF Vital, Events
<1>3. CASE meta' = meta /\ calls' = calls
  <2>1. Quiet
    BY <1>1, <1>2, <1>3 DEF Quiet
  <2> QED
    BY <2>1, QuietKeeps
<1>4. CASE meta' = [meta EXCEPT ![k] = CallState] /\ meta[k] = "none" /\ calls' = Called("metaObject", k)
  <2> USE DEF table
  <2>1. \A j \in Attempts : /\ meta'[j] # "handled" => meta[j] # "handled"
                            /\ meta[j] = "running" => meta'[j] = "running"
    BY <1>4 DEF TypeOK
  <2>2. calls' = calls \/ /\ calls' = calls \cup {<<"metaObject", k, remote>>}
                          /\ meta'[k] = "running"
    BY <1>1, <1>4 DEF Called, CallState, TypeOK
  <2>3. OneSocket' /\ CallsRun'
    BY <1>1, <2>1, <2>2 DEF TableInv, OneSocket, CallsRun, TypeOK
  <2>4. FetchFirst' /\ EventsOnce'
    BY <1>1, <1>2, <2>1 DEF TableInv, FetchFirst, EventsOnce, Asked, Vital
  <2>5. NoLinkYet' /\ TableShared' /\ NothingLinked'
    BY <1>1, <1>2 DEF TableInv, NoLinkYet, TableShared, NothingLinked, Vital
  <2>6. LinkedOnce' /\ TaskedOnce' /\ LinkedRegistered'
    BY <1>1, <1>2, LinkedNames DEF TableInv, LinkedOnce, Asked, TaskedOnce, LinkedRegistered
  <2>7. OwnLinkStays'
    BY <1>1, <1>2 DEF TableInv, OwnLinkStays, Vital
  <2> QED
    BY <2>3, <2>4, <2>5, <2>6, <2>7 DEF TableInv
<1> QED
  BY <1>1, <1>3, <1>4

\* The metaobject is handled once: it is what the first event waits for.
LEMMA FetchedKeeps ==
  ASSUME TypeOK, TodoTyped, TableInv, NEW k \in Attempts, onMetaObjectFetched(k)
  PROVE  TableInv'
<1> USE DEF state, users, futures, sockets, network, object, table
<1>1. /\ UNCHANGED <<sdSocket, links, remote, calls, registering, awaiting, locals, shared, shares,
                     unlinking, registered>>
      /\ meta[k] \in {"value", "error"} /\ meta' = [meta EXCEPT ![k] = "handled"]
  BY DEF onMetaObjectFetched
<1>2. \A j \in Attempts : prom'[j] = "value" => prom[j] = "value"
  BY CleanupEffect DEF onMetaObjectFetched, TypeOK
<1>3. \A u \in todo' : u \in todo \/ u = Task("fail", k, given[k]) \/ u = Task("serviceAdded", k, given[k])
  BY DEF onMetaObjectFetched
<1>4. \A u \in todo' : u.what \in Vital => u \in todo \/ (u.what = "serviceAdded" /\ u.attempt = k)
  BY <1>3, TaskFields DEF Vital, Events
<1>5. \A u, v \in todo' :
        u \notin todo /\ v \notin todo /\ u.what = "serviceAdded" /\ v.what = "serviceAdded" => u = v
  <2>1. \A u \in todo' : u \notin todo /\ u.what = "serviceAdded" => u = Task("serviceAdded", k, given[k])
    BY <1>3, TaskFields
  <2> QED
    BY <2>1
<1>6. /\ \A e \in Events : shares[<<e, k>>] = NoSocket
      /\ \A t \in todo : t.attempt = k => t.what \notin Events
  BY <1>1 DEF TableInv, FetchFirst
<1>7. OneSocket' /\ CallsRun' /\ NoLinkYet' /\ TableShared'
  BY <1>1 DEF TableInv, OneSocket, CallsRun, NoLinkYet, TableShared, TypeOK
<1>8. FetchFirst'
  BY <1>1, <1>4 DEF TableInv, FetchFirst, Vital, TypeOK
<1>9. EventsOnce'
  BY <1>1, <1>4, <1>5, <1>6 DEF TableInv, EventsOnce, Asked, Vital, Events
<1>10. NothingLinked'
  BY <1>1, <1>2, <1>4 DEF TableInv, NothingLinked, Vital
<1>11. LinkedOnce' /\ TaskedOnce' /\ LinkedRegistered'
  BY <1>1, <1>4, LinkedNames DEF TableInv, LinkedOnce, Asked, TaskedOnce, LinkedRegistered
<1>12. OwnLinkStays'
  BY <1>1, <1>2, <1>4 DEF TableInv, OwnLinkStays, Vital
<1> QED
  BY <1>7, <1>8, <1>9, <1>10, <1>11, <1>12 DEF TableInv

\* An answer settles the future of its call, and the directory has registered what it
\* accepts for the socket the call was made through.
LEMMA ReplyKeeps ==
  ASSUME ClientAssumption, TypeOK, TodoTyped, TableInv, NEW c \in calls, NEW a \in {"value", "error"}, ReadReply(c, a)
  PROVE  TableInv'
<1> USE DEF state, users, futures, sockets, network, object, table
<1>1. /\ UNCHANGED <<sdSocket, links, remote, awaiting, locals, shared, shares, unlinking>>
      /\ Event(c[3], "refused") /\ calls' = calls \ {c}
  BY DEF ReadReply
<1>2. c \in (Events \cup {"metaObject"}) \X Attempts \X Attempts /\ c[3] = remote
  BY DEF TypeOK, TableInv, OneSocket
<1>3. c[1] \in Events \cup {"metaObject"} /\ c[2] \in Attempts /\ c[3] \in Attempts
  BY <1>2
<1>4. /\ \A j \in Attempts : prom'[j] = "value" => prom[j] = "value"
      /\ \A u \in todo' : u \in todo \/ u.what = "refused"
  <2> DEFINE s == c[3]
  <2>1. s \in Attempts /\ Event(s, "refused")
    BY <1>1, <1>3
  <2> HIDE DEF s
  <2> QED
    BY <2>1, EventEffect
<1>5. \A u \in todo' : u.what \in Vital => u \in todo
  BY <1>4 DEF Vital, Events
<1>6. \A d \in calls' : d[1] # c[1] \/ d[2] # c[2]
  <2> SUFFICES ASSUME NEW d \in calls', d[1] = c[1], d[2] = c[2] PROVE FALSE
    OBVIOUS
  <2>1. d \in calls /\ d # c
    BY <1>1
  <2>2. d \in (Events \cup {"metaObject"}) \X Attempts \X Attempts /\ d[3] = remote
    BY <2>1 DEF TypeOK, TableInv, OneSocket
  <2>3. d = <<d[1], d[2], d[3]>> /\ c = <<c[1], c[2], c[3]>>
    BY <1>2, <2>2
  <2> QED
    BY <1>2, <2>1, <2>2, <2>3
<1>7. CASE c[1] = "metaObject"
  <2>1. meta' = [meta EXCEPT ![c[2]] = a] /\ UNCHANGED <<registering, registered>> /\ meta[c[2]] = "running"
    BY <1>7 DEF ReadReply, TableInv, CallsRun
  <2>2. OneSocket' /\ CallsRun'
    BY <1>1, <1>3, <1>6, <1>7, <2>1 DEF TableInv, OneSocket, CallsRun, TypeOK
  <2>3. FetchFirst' /\ EventsOnce'
    BY <1>1, <1>3, <1>5, <2>1 DEF TableInv, FetchFirst, EventsOnce, Asked, Vital, TypeOK
  <2>4. NoLinkYet' /\ TableShared' /\ NothingLinked'
    BY <1>1, <1>4, <1>5, <2>1 DEF TableInv, NoLinkYet, TableShared, NothingLinked, Vital
  <2>5. LinkedOnce' /\ TaskedOnce' /\ LinkedRegistered'
    BY <1>1, <1>5, <2>1, LinkedNames DEF TableInv, LinkedOnce, Asked, TaskedOnce, LinkedRegistered
  <2>6. OwnLinkStays'
    BY <1>1, <1>4, <1>5, <2>1 DEF TableInv, OwnLinkStays, Vital
  <2> QED
    BY <2>2, <2>3, <2>4, <2>5, <2>6 DEF TableInv
<1>8. CASE c[1] \in Events
  <2> DEFINE e == c[1]  k == c[2]
  <2>1. /\ registering' = [registering EXCEPT ![<<e, k>>] = a] /\ meta' = meta
        /\ registered' = IF a = "value" THEN registered \cup {<<e, c[3], k>>} ELSE registered
        /\ registering[<<e, k>>] = "running" /\ e # "metaObject" /\ <<e, k>> \in Pairs
    BY <1>3, <1>8 DEF ReadReply, TableInv, CallsRun, Events, Pairs
  <2>2. /\ registering'[<<e, k>>] = a
        /\ \A f \in Events, j \in Attempts :
             <<f, j>> # <<e, k>> => registering'[<<f, j>>] = registering[<<f, j>>]
    BY <2>1 DEF TypeOK, Pairs
  <2>3. OneSocket' /\ CallsRun'
    <3>1. \A d \in calls' : d \in calls /\ d[1] \in Events \cup {"metaObject"} /\ d[2] \in Attempts
      BY <1>1 DEF TypeOK
    <3>2. \A d \in calls' : d[1] \in Events => <<d[1], d[2]>> # <<e, k>>
      BY <1>6
    <3> QED
      BY <1>1, <2>1, <2>2, <3>1, <3>2 DEF TableInv, OneSocket, CallsRun
  <2>4. FetchFirst' /\ EventsOnce' /\ TableShared' /\ NothingLinked'
    BY <1>1, <1>4, <1>5, <2>1 DEF TableInv, FetchFirst, EventsOnce, Asked, TableShared, NothingLinked, Vital
  <2>5. NoLinkYet'
    BY <1>1, <2>1, <2>2 DEF TableInv, NoLinkYet
  <2>6. LinkedOnce' /\ TaskedOnce'
    <3>1. \A u \in todo', f \in Events : u.what = Linked[f] => u \in todo
      BY <1>5, LinkedNames
    <3> QED
      BY <1>1, <3>1 DEF TableInv, LinkedOnce, Asked, TaskedOnce
  <2>7. LinkedRegistered'
    <3> SUFFICES ASSUME NEW f \in Events, NEW j \in Attempts,
                        \/ links[f] = j \/ <<f, j>> \in unlinking
                        \/ \E t \in todo : t.what = Linked[f] /\ t.attempt = j
                 PROVE  shares[<<f, j>>] # NoRemote /\ registering'[<<f, shares[<<f, j>>]>>] = "value"
      BY <1>1, <1>5, LinkedNames DEF LinkedRegistered
    <3>1. /\ j \in locals[f] /\ shares[<<f, j>>] # NoRemote
          /\ registering[<<f, shares[<<f, j>>]>>] = "value"
      BY DEF TableInv, LinkedOnce, TaskedOnce, LinkedRegistered
    <3>2. shares[<<f, j>>] \in Attempts
      BY <3>1, LocalsShare
    <3> QED
      BY <2>1, <2>2, <3>1, <3>2
  <2>8. OwnLinkStays'
    <3>1. \A f \in Events, j \in Attempts :
            registering[<<f, j>>] = "value" => registering'[<<f, j>>] = "value"
      BY <2>1, <2>2
    <3>2. \A f \in Events, j \in Attempts :
            registering'[<<f, j>>] = "value" =>
              \/ registering[<<f, j>>] = "value"
              \/ f = e /\ j = k /\ <<e, c[3], k>> \in registered'
      BY <2>1, <2>2
    <3>3. sdSocket \in Attempts => sdSocket = c[3]
      BY <1>2, <1>3 DEF TableInv, OneSocket, ClientAssumption, NoSocket
    <3> QED
      BY <1>1, <1>4, <1>5, <2>1, <3>1, <3>2, <3>3 DEF TableInv, OwnLinkStays, Vital
  <2> QED
    BY <2>3, <2>4, <2>5, <2>6, <2>7, <2>8 DEF TableInv
<1> QED
  BY <1>3, <1>7, <1>8

\* onSDEventConnected() goes on with a link that is registered.
LEMMA EventConnectedKeeps ==
  ASSUME TypeOK, TodoTyped, TableInv, NEW k \in Attempts, NEW e \in Events, onSDEventConnected(e, k)
  PROVE  TableInv'
<1> USE DEF state, users, futures, sockets, network, object, table
<1>1. /\ UNCHANGED <<sdSocket, links, remote, calls, meta, registering, prom, locals, shared, shares,
                     unlinking, registered>>
      /\ <<e, k>> \in awaiting /\ awaiting' = awaiting \ {<<e, k>>}
  BY DEF onSDEventConnected
<1>2. /\ shares[<<"serviceRemoved", k>>] # NoSocket /\ Asked(e, k) /\ links[e] # k
      /\ <<e, k>> \notin unlinking
      /\ \A t \in todo : t.what = Linked[e] => t.attempt # k
  BY <1>1 DEF TableInv, NothingLinked, LinkedOnce, TaskedOnce
<1>3. \A u \in todo' : \/ u \in todo \/ u = Task("fail", k, sdSocket)
                       \/ /\ u = Task(Linked[e], k, sdSocket) /\ shares[<<e, k>>] # NoRemote
                          /\ registering[<<e, shares[<<e, k>>]>>] = "value"
  BY DEF onSDEventConnected
<1>4. \A u \in todo' : u.what \in Vital =>
        \/ u \in todo
        \/ /\ u = Task(Linked[e], k, sdSocket) /\ u.what = Linked[e] /\ u.attempt = k
           /\ shares[<<e, k>>] # NoRemote /\ registering[<<e, shares[<<e, k>>]>>] = "value"
  BY <1>3, TaskFields DEF Vital, Events
<1>5. Linked[e] \notin Events \cup {"ready"}
  BY DEF Linked, Events
<1>6. OneSocket' /\ CallsRun' /\ NoLinkYet' /\ TableShared'
  BY <1>1 DEF TableInv, OneSocket, CallsRun, NoLinkYet, TableShared
<1>7. FetchFirst' /\ EventsOnce'
  BY <1>1, <1>4, <1>5 DEF TableInv, FetchFirst, EventsOnce, Asked, Vital
<1>8. NothingLinked'
  BY <1>1, <1>2, <1>4 DEF TableInv, NothingLinked, Vital
<1>9. LinkedOnce' /\ TaskedOnce'
  <2>1. \A u \in todo', f \in Events : u.what = Linked[f] =>
          \/ u \in todo
          \/ u = Task(Linked[e], k, sdSocket) /\ f = e /\ u.attempt = k /\ k \in locals[e]
    BY <1>2, <1>4, LinkedNames DEF Asked
  <2>2. LinkedOnce'
    BY <1>1, <1>2 DEF TableInv, LinkedOnce, Asked
  <2>3. TaskedOnce'
    BY <1>1, <1>2, <2>1 DEF TableInv, TaskedOnce
  <2> QED
    BY <2>2, <2>3
<1>10. LinkedRegistered'
  BY <1>1, <1>4, LinkedNames, ZenonT(60) DEF TableInv, LinkedRegistered
<1>11. OwnLinkStays'
  BY <1>1, <1>4, <1>5 DEF TableInv, OwnLinkStays, Vital
<1> QED
  BY <1>6, <1>7, <1>8, <1>9, <1>10, <1>11 DEF TableInv

\* Storing a link: the promise is kept when both links are held, and each of those that
\* the attempt relies on is registered.
LEMMA LinkKeeps ==
  ASSUME ClientAssumption, TypeOK, TodoTyped, TableInv, NEW t \in todo, Link(t)
  PROVE  TableInv'
<1> USE DEF state, users, futures, sockets, network, object, table
<1> DEFINE k == t.attempt
<1>1. PICK e \in Events :
        /\ t.what = Linked[e] /\ links' = [links EXCEPT ![e] = k]
        /\ todo' = (todo \ {t}) \cup (IF \A f \in Events : links'[f] # NoSocket
                                        THEN {Task("ready", k, t.socket)} ELSE {})
        /\ UNCHANGED <<sdSocket, remote, calls, meta, awaiting, registering, prom, locals, shared,
                       shares, unlinking, registered>>
  BY DEF Link
<1>2. /\ k \in Attempts /\ k \in locals[e] /\ links[e] # k
      /\ <<e, k>> \notin unlinking /\ <<e, k>> \notin awaiting
      /\ \A u \in todo : u.what = Linked[e] /\ u.attempt = k => u = t
      /\ shares[<<"serviceRemoved", k>>] # NoSocket /\ shares[<<e, k>>] # NoRemote
      /\ registering[<<e, shares[<<e, k>>]>>] = "value"
  <2>1. k \in Attempts /\ t.what \in {"added", "removed"}
    BY <1>1, LinkedNames DEF TodoTyped
  <2> QED
    BY <1>1, <2>1 DEF TableInv, TaskedOnce, LinkedRegistered, NothingLinked
<1>3. /\ links'[e] = k /\ \A f \in Events : f # e => links'[f] = links[f]
  BY <1>1 DEF TypeOK
<1>4. \A u \in todo' : \/ u \in todo /\ u # t
                       \/ /\ u.what = "ready" /\ u.attempt = k
                          /\ \A f \in Events : links'[f] # NoSocket
  BY <1>1, TaskFields
<1>5. \A f \in Events : Linked[f] # "ready"
  BY DEF Linked, Events
<1>6. OneSocket' /\ CallsRun' /\ NoLinkYet' /\ TableShared'
  BY <1>1 DEF TableInv, OneSocket, CallsRun, NoLinkYet, TableShared
<1>7. FetchFirst' /\ EventsOnce'
  BY <1>1, <1>4 DEF TableInv, FetchFirst, EventsOnce, Asked, Events
<1>8. NothingLinked'
  BY <1>1, <1>2, <1>3, <1>4 DEF TableInv, NothingLinked
<1>9. LinkedOnce'
  BY <1>1, <1>2, <1>3, ZenonT(60) DEF TableInv, LinkedOnce, Asked
<1>10. TaskedOnce'
  BY <1>1, <1>2, <1>3, <1>4, <1>5, LinkedNames DEF TableInv, TaskedOnce
<1>11. LinkedRegistered'
  <2> SUFFICES ASSUME NEW f \in Events, NEW j \in Attempts,
                      \/ links'[f] = j \/ <<f, j>> \in unlinking
                      \/ \E u \in todo' : u.what = Linked[f] /\ u.attempt = j
               PROVE  shares[<<f, j>>] # NoRemote /\ registering[<<f, shares[<<f, j>>]>>] = "value"
    BY <1>1 DEF LinkedRegistered
  <2>1. CASE f = e /\ j = k
    BY <1>2, <2>1
  <2>2. CASE f # e \/ j # k
    <3>1. links[f] = j \/ <<f, j>> \in unlinking \/ \E u \in todo : u.what = Linked[f] /\ u.attempt = j
      BY <1>3, <1>4, <1>5, <2>2
    <3> QED
      BY <3>1 DEF TableInv, LinkedRegistered
  <2> QED
    BY <2>1, <2>2
<1>12. OwnLinkStays'
  <2>1. ASSUME NEW f \in Events, sdSocket = k, shares[<<f, k>>] = k,
               \A g \in Events : links'[g] # NoSocket
        PROVE  registering[<<f, k>>] = "value"
    <3>1. CASE f = e
      BY <1>2, <2>1, <3>1
    <3>2. CASE f # e
      <4> DEFINE j == links[f]
      <4>1. j \in Attempts
        BY <1>3, <2>1, <3>2 DEF TypeOK
      <4>2. /\ j \in locals[f] /\ shares[<<f, j>>] # NoRemote
            /\ registering[<<f, shares[<<f, j>>]>>] = "value"
        BY <4>1 DEF TableInv, LinkedOnce, LinkedRegistered
      <4>3. k \in locals[f]
        BY <1>2, <2>1 DEF TableInv, OwnLinkStays
      <4>4. shares[<<f, j>>] = shares[<<f, k>>]
        <5>1. k # NoRemote
          BY <1>2 DEF NoRemote, ClientAssumption
        <5>2. /\ shares[<<f, j>>] \in {shared[f], NoRemote}
              /\ shares[<<f, k>>] \in {shared[f], NoRemote}
          BY <2>1, <4>2, <4>3, Zenon DEF TableInv, TableShared
        <5> QED
          BY <2>1, <4>2, <5>1, <5>2
      <4> QED
        BY <2>1, <4>2, <4>4
    <3> QED
      BY <3>1, <3>2
  <2> QED
    BY <1>1, <1>4, <2>1 DEF TableInv, OwnLinkStays
<1> QED
  BY <1>6, <1>7, <1>8, <1>9, <1>10, <1>11, <1>12 DEF TableInv

\* The promise is set for an attempt that is ready.
LEMMA ReadyKeeps ==
  ASSUME TypeOK, TodoTyped, TableInv, NEW t \in todo, Ready(t)
  PROVE  TableInv'
<1> USE DEF state, users, futures, sockets, network, object, table
<1>1. /\ t.what = "ready" /\ t.attempt \in Attempts /\ todo' = todo \ {t}
      /\ UNCHANGED <<sdSocket, links, remote, calls, meta, awaiting, registering, locals, shared,
                     shares, unlinking, registered>>
      /\ \A j \in Attempts : prom'[j] = "value" => prom[j] = "value" \/ j = t.attempt
  BY DEF Ready, TypeOK
<1>2. OneSocket' /\ CallsRun' /\ NoLinkYet' /\ TableShared' /\ FetchFirst' /\ EventsOnce'
  BY <1>1 DEF TableInv, OneSocket, CallsRun, NoLinkYet, TableShared, FetchFirst, EventsOnce, Asked
<1>3. NothingLinked'
  BY <1>1 DEF TableInv, NothingLinked
<1>4. LinkedOnce' /\ TaskedOnce' /\ LinkedRegistered'
  BY <1>1 DEF TableInv, LinkedOnce, Asked, TaskedOnce, LinkedRegistered
<1>5. OwnLinkStays'
  BY <1>1 DEF TableInv, OwnLinkStays
<1> QED
  BY <1>2, <1>3, <1>4, <1>5 DEF TableInv

\* metaDisconnect() takes the remote link away with the last local one, never that of the
\* current attempt.
LEMMA UnlinkKeeps ==
  ASSUME ClientAssumption, TypeOK, TableInv, NEW k \in Attempts, NEW e \in Events, metaDisconnect(e, k)
  PROVE  TableInv'
<1> USE DEF state, users, futures, sockets, network, object, table
<1>1. /\ <<e, k>> \in unlinking /\ unlinking' = unlinking \ {<<e, k>>}
      /\ UNCHANGED <<sdSocket, links, remote, calls, meta, awaiting, registering, prom, todo, shares>>
  BY DEF metaDisconnect
<1>2. k \in locals[e] /\ links[e] # k /\ <<e, k>> \notin awaiting /\ shares[<<"serviceRemoved", k>>] # NoSocket
  BY <1>1 DEF TableInv, LinkedOnce, NothingLinked
<1>3. /\ locals'[e] = locals[e] \ {k} /\ \A f \in Events : f # e => locals'[f] = locals[f]
      /\ \A f \in Events : f # e => shared'[f] = shared[f]
      /\ shared'[e] = IF locals'[e] = {} THEN NoSocket ELSE shared[e]
      /\ \A f \in Events, s \in Attempts, j \in Attempts :
           f # e /\ <<f, s, j>> \in registered => <<f, s, j>> \in registered'
  BY <1>2 DEF metaDisconnect, TypeOK
<1>4. OneSocket' /\ CallsRun' /\ FetchFirst' /\ NothingLinked' /\ NoLinkYet'
  <2>1. OneSocket' /\ CallsRun' /\ FetchFirst' /\ NothingLinked'
    BY <1>1 DEF TableInv, OneSocket, CallsRun, FetchFirst, NothingLinked
  <2>2. NoLinkYet'
    BY <1>1, <1>3 DEF TableInv, NoLinkYet
  <2> QED
    BY <2>1, <2>2
<1>5. EventsOnce'
  <2>1. \A t \in todo : t.what = "serviceRemoved" => t.attempt # k
    BY <1>2 DEF TableInv, EventsOnce, Events
  <2> QED
    BY <1>1, <1>3, <2>1 DEF TableInv, EventsOnce, Asked, Events
<1>6. TableShared'
  BY <1>1, <1>2, <1>3 DEF TableInv, TableShared
<1>7. LinkedOnce' /\ TaskedOnce' /\ LinkedRegistered'
  <2>1. LinkedOnce'
    BY <1>1, <1>2, <1>3 DEF TableInv, LinkedOnce, Asked
  <2>2. TaskedOnce'
    BY <1>1, <1>3 DEF TableInv, TaskedOnce
  <2>3. LinkedRegistered'
    BY <1>1 DEF TableInv, LinkedRegistered
  <2> QED
    BY <2>1, <2>2, <2>3
<1>8. OwnLinkStays'
  <2>1. \A f \in Events, j \in Attempts : sdSocket = j /\ shares[<<f, j>>] = j => f # e
    BY <1>1 DEF TableInv, OwnLinkStays
  <2> QED
    BY <1>1, <1>3, <2>1 DEF TableInv, OwnLinkStays
<1> QED
  BY <1>4, <1>5, <1>6, <1>7, <1>8 DEF TableInv

\* metaConnect(): the first local link of an event brings a remote one, which the others
\* share.  Nothing else of the attempt has to do with the event before.
LEMMA MetaConnectKeeps ==
  ASSUME ClientAssumption, TypeOK, TodoTyped, TableInv, NEW t \in todo, metaConnect(t)
  PROVE  TableInv'
<1> USE DEF state, users, futures, sockets, network, object, table
<1> DEFINE e == t.what  k == t.attempt
<1>1. /\ e \in Events /\ k \in Attempts /\ <<e, k>> \in Pairs
      /\ UNCHANGED <<sdSocket, links, remote, meta, prom, unlinking, registered>>
  BY DEF metaConnect, TypeOK, Pairs
<1>2. /\ shares[<<e, k>>] = NoSocket /\ shares[<<"serviceRemoved", k>>] = NoSocket
      /\ meta[k] = "handled" /\ k \notin locals[e] /\ registering[<<e, k>>] = "none"
      /\ e = "serviceRemoved" => Asked("serviceAdded", k)
      /\ \A u \in todo : u.what \in Events /\ u.attempt = k => u = t
  <2>1. shares[<<e, k>>] = NoSocket /\ meta[k] = "handled"
    BY <1>1 DEF TableInv, EventsOnce, FetchFirst
  <2>2. e \in {"serviceAdded", "serviceRemoved"}
    BY <1>1 DEF Events
  <2>3. shares[<<"serviceRemoved", k>>] = NoSocket
    BY <1>1, <2>1, <2>2 DEF TableInv, EventsOnce
  <2>4. /\ e = "serviceRemoved" => Asked("serviceAdded", k)
        /\ \A u \in todo : u.what \in Events /\ u.attempt = k => u = t
    BY <1>1 DEF TableInv, EventsOnce
  <2>5. k \notin locals[e] /\ registering[<<e, k>>] = "none"
    BY <1>1, <2>1 DEF TableInv, NoLinkYet
  <2> QED
    BY <2>1, <2>3, <2>4, <2>5
<1>3. /\ prom[k] # "value"
      /\ \A u \in todo : u.attempt = k => u.what \notin {"added", "removed", "ready"}
      /\ \A f \in Events : <<f, k>> \notin awaiting /\ links[f] # k /\ <<f, k>> \notin unlinking
  BY <1>1, <1>2 DEF TableInv, NothingLinked
<1>4. /\ locals'[e] = locals[e] \cup {k} /\ \A f \in Events : f # e => locals'[f] = locals[f]
      /\ \A f \in Events : f # e => shared'[f] = shared[f]
      /\ shared'[e] = IF shared[e] = NoSocket THEN k ELSE shared[e]
  BY <1>1 DEF metaConnect, TypeOK
<1>5. /\ shares'[<<e, k>>] = shared'[e]
      /\ \A f \in Events, j \in Attempts : <<f, j>> # <<e, k>> => shares'[<<f, j>>] = shares[<<f, j>>]
  <2>1. shares' = [shares EXCEPT ![<<e, k>>] = shared'[e]]
    BY <1>1, <1>4 DEF metaConnect, TypeOK
  <2>2. \A f \in Events, j \in Attempts : <<f, j>> \in Pairs
    BY DEF Pairs
  <2> QED
    BY <1>1, <2>1, <2>2 DEF TypeOK
<1>6. /\ shared[e] # NoSocket => registering' = registering /\ calls' = calls
      /\ shared[e] = NoSocket => registering' = [registering EXCEPT ![<<e, k>>] = CallState]
                                 /\ calls' = Called(e, k)
  BY DEF metaConnect
<1>7. /\ registering'[<<e, k>>] # "value"
      /\ \A f \in Events, j \in Attempts :
           <<f, j>> # <<e, k>> => registering'[<<f, j>>] = registering[<<f, j>>]
  <2>1. \A f \in Events, j \in Attempts : <<f, j>> \in Pairs
    BY DEF Pairs
  <2> QED
    BY <1>1, <1>2, <1>6, <2>1 DEF TypeOK, CallState
<1>8. \A u \in todo' : \/ u \in todo /\ u # t
                       \/ e = "serviceAdded" /\ u = Task("serviceRemoved", k, t.socket)
  BY DEF metaConnect, EventConnects
<1>9. \A u \in todo' : \/ u \in todo /\ u # t
                       \/ e = "serviceAdded" /\ u.what = "serviceRemoved" /\ u.attempt = k
  BY <1>8, TaskFields
<1>10. /\ e = "serviceAdded" => awaiting' = awaiting
       /\ \A f \in Events, j \in Attempts : <<f, j>> \in awaiting' => <<f, j>> \in awaiting \/ j = k
  BY DEF metaConnect, EventConnects
<1>11. k # NoSocket /\ shared'[e] # NoSocket
  BY <1>1, <1>4 DEF ClientAssumption, NoSocket
<1>12. OneSocket' /\ CallsRun'
  <2>1. \/ calls' = calls
        \/ calls' = calls \cup {<<e, k, remote>>} /\ registering'[<<e, k>>] = "running"
    <3>1. CASE shared[e] = NoSocket /\ Up(remote)
      BY <1>1, <1>6, <3>1 DEF Called, CallState, TypeOK
    <3>2. CASE ~(shared[e] = NoSocket /\ Up(remote))
      BY <1>6, <3>2 DEF Called
    <3> QED
      BY <3>1, <3>2
  <2>2. \A d \in calls : d[1] \in Events \cup {"metaObject"} /\ d[2] \in Attempts
    BY DEF TypeOK
  <2>3. \A d \in calls : d[1] \in Events => <<d[1], d[2]>> # <<e, k>>
    BY <1>2, <2>2 DEF TableInv, CallsRun, Events
  <2>4. \A d \in calls : d[1] # "metaObject" => registering'[<<d[1], d[2]>>] = "running"
    BY <1>7, <2>2, <2>3 DEF TableInv, CallsRun
  <2>5. e # "metaObject"
    BY <1>1 DEF Events
  <2> QED
    BY <1>1, <2>1, <2>4, <2>5 DEF TableInv, OneSocket, CallsRun
<1>13. FetchFirst'
  BY <1>1, <1>2, <1>5, <1>9 DEF TableInv, FetchFirst
<1>14. EventsOnce'
  <2>1. \A u, v \in todo' : u.what \in Events /\ v.what \in Events /\ u.attempt = v.attempt => u = v
    <3>1. \A u, v \in todo : u.what \in Events /\ v.what \in Events /\ u.attempt = v.attempt => u = v
      BY DEF TableInv, EventsOnce
    <3>2. \A u \in todo' : u.what \in Events /\ u.attempt = k => u = Task("serviceRemoved", k, t.socket)
      BY <1>2, <1>8
    <3> QED
      BY <1>9, <3>1, <3>2
  <2>2. \A u \in todo' : u.what \in Events => shares'[<<u.what, u.attempt>>] = NoSocket
    <3>1. \A u \in todo : u.attempt \in Attempts
      BY DEF TodoTyped
    <3>2. \A u \in todo : u.what \in Events /\ u # t => u.attempt # k
      BY <1>2
    <3> QED
      BY <1>1, <1>2, <1>5, <1>9, <3>1, <3>2, ZenonT(60) DEF TableInv, EventsOnce, Events
  <2>3. \A u \in todo' : u.what = "serviceRemoved" => Asked("serviceAdded", u.attempt)'
    <3>1. \A u \in todo : u.attempt \in Attempts
      BY DEF TodoTyped
    <3>2. \A u \in todo : u.what = "serviceRemoved" => Asked("serviceAdded", u.attempt)
      BY DEF TableInv, EventsOnce, Events
    <3>3. \A j \in Attempts : Asked("serviceAdded", j) => Asked("serviceAdded", j)'
      BY <1>1, <1>2, <1>4, <1>5 DEF Asked, Events, NoRemote, NoSocket
    <3> QED
      BY <1>1, <1>4, <1>9, <3>1, <3>2, <3>3 DEF Asked
  <2>4. \A j \in Attempts :
          shares'[<<"serviceAdded", j>>] = NoSocket => shares'[<<"serviceRemoved", j>>] = NoSocket
    <3>1. e = "serviceRemoved" => shares[<<"serviceAdded", k>>] # NoSocket
      <4>1. NoRemote # NoSocket /\ "serviceAdded" \in Events
        BY DEF NoRemote, NoSocket, Events
      <4> QED
        BY <1>1, <1>2, <4>1 DEF TableInv, NoLinkYet, Asked
    <3> QED
      BY <1>1, <1>5, <1>11, <3>1 DEF TableInv, EventsOnce, Events
  <2> QED
    BY <2>1, <2>2, <2>3, <2>4 DEF EventsOnce
<1>15. NoLinkYet'
  <2> SUFFICES ASSUME NEW f \in Events, NEW j \in Attempts, shares'[<<f, j>>] = NoSocket
               PROVE  j \notin locals'[f] /\ registering'[<<f, j>>] = "none"
    BY DEF NoLinkYet
  <2>1. <<f, j>> # <<e, k>> /\ shares[<<f, j>>] = NoSocket
    BY <1>5, <1>11
  <2>2. j \notin locals[f] /\ registering[<<f, j>>] = "none"
    BY <2>1 DEF TableInv, NoLinkYet
  <2> QED
    BY <1>4, <1>7, <2>1, <2>2
<1>16. NothingLinked'
  BY <1>1, <1>3, <1>5, <1>9, <1>10, <1>11 DEF TableInv, NothingLinked, Events
<1>17. TableShared'
  <2>1. ASSUME NEW f \in Events
        PROVE  /\ locals'[f] = {} => shared'[f] = NoSocket
               /\ \A j \in locals'[f] : shares'[<<f, j>>] \in {shared'[f], NoRemote}
               /\ shared'[f] # NoSocket => shares'[<<f, shared'[f]>>] = shared'[f]
    <3>1. locals[f] \subseteq Attempts /\ shared[f] \in Attempts \cup {NoSocket}
      BY DEF TypeOK
    <3>2. /\ locals[f] = {} => shared[f] = NoSocket
          /\ \A j \in locals[f] : shares[<<f, j>>] \in {shared[f], NoRemote}
          /\ shared[f] # NoSocket => shares[<<f, shared[f]>>] = shared[f]
      BY DEF TableInv, TableShared
    <3>3. CASE f # e
      BY <1>4, <1>5, <3>1, <3>2, <3>3, ZenonT(60)
    <3>4. CASE f = e
      <4>1. locals'[e] # {} /\ shared'[e] # NoSocket
        BY <1>4, <1>11
      <4>2. \A j \in locals'[e] : shares'[<<e, j>>] \in {shared'[e], NoRemote}
        <5>1. CASE shared[e] = NoSocket
          <6>1. \A j \in locals[e] : j # k => shares[<<e, j>>] = NoRemote
            BY <3>1, <3>2, <3>4, <5>1 DEF TableInv, NoLinkYet
          <6>2. \A j \in locals[e] : j # k => shares'[<<e, j>>] = NoRemote
            BY <1>5, <3>1, <3>4, <6>1
          <6> QED
            BY <1>4, <1>5, <6>2
        <5>2. CASE shared[e] # NoSocket
          <6>1. shared'[e] = shared[e]
            BY <1>4, <5>2
          <6>2. \A j \in locals[e] : j # k => shares'[<<e, j>>] \in {shared[e], NoRemote}
            BY <1>5, <3>1, <3>2, <3>4
          <6> QED
            BY <1>1, <1>4, <1>5, <6>1, <6>2
        <5> QED
          BY <5>1, <5>2
      <4>3. shares'[<<e, shared'[e]>>] = shared'[e]
        <5>1. CASE shared[e] = NoSocket
          BY <1>1, <1>4, <1>5, <5>1
        <5>2. CASE shared[e] # NoSocket
          <6>1. shared[e] # k /\ shared[e] \in Attempts
            BY <1>2, <1>11, <3>1, <3>2, <3>4, <5>2
          <6>2. shared'[e] = shared[e]
            BY <1>4, <5>2
          <6>3. shares'[<<e, shared[e]>>] = shares[<<e, shared[e]>>]
            BY <1>1, <1>5, <6>1
          <6>4. shares[<<e, shared[e]>>] = shared[e]
            BY <3>2, <3>4, <5>2
          <6> QED
            BY <6>2, <6>3, <6>4
        <5> QED
          BY <5>1, <5>2
      <4> QED
        BY <3>4, <4>1, <4>2, <4>3
    <3> QED
      BY <3>3, <3>4
  <2> QED
    BY <2>1 DEF TableShared
<1>18. LinkedOnce'
  <2>1. \A f \in Events, j \in Attempts : Asked(f, j) => Asked(f, j)'
    BY <1>1, <1>2, <1>4, <1>5, ZenonT(60) DEF Asked, NoRemote, NoSocket
  <2>4. e = "serviceRemoved" => \A f \in Events : Asked(f, k)'
    BY <1>1, <1>2, <1>4, <2>1 DEF Asked, Events
  <2>2. \A f \in Events : locals[f] \subseteq locals'[f]
    BY <1>4
  <2>3. \A f \in Events : e = f => f \in {"serviceAdded", "serviceRemoved"}
    BY DEF Events
  <2> QED
    BY <1>1, <1>3, <1>10, <2>1, <2>2, <2>3, <2>4 DEF TableInv, LinkedOnce
<1>19. TaskedOnce'
  <2>1. \A u \in todo', f \in Events : u.what = Linked[f] => u \in todo /\ u.attempt \in Attempts /\ u.attempt # k
    BY <1>3, <1>9, LinkedNames DEF TodoTyped
  <2> QED
    <3>1. \A f \in Events : locals[f] \subseteq locals'[f]
      BY <1>4
    <3>2. \A u \in todo', f \in Events : u.what = Linked[f] => <<f, u.attempt>> \notin awaiting'
      <4>1. \A u \in todo, f \in Events : u.what = Linked[f] => <<f, u.attempt>> \notin awaiting
        BY DEF TableInv, TaskedOnce
      <4>2. \A f \in Events, j \in Attempts : j # k /\ <<f, j>> \notin awaiting => <<f, j>> \notin awaiting'
        BY <1>10
      <4> QED
        BY <2>1, <4>1, <4>2
    <3> QED
      BY <1>1, <2>1, <3>1, <3>2 DEF TableInv, TaskedOnce
<1>20. LinkedRegistered'
  <2> SUFFICES ASSUME NEW f \in Events, NEW j \in Attempts,
                      \/ links[f] = j \/ <<f, j>> \in unlinking
                      \/ \E u \in todo : u.what = Linked[f] /\ u.attempt = j
               PROVE  shares'[<<f, j>>] # NoRemote /\ registering'[<<f, shares'[<<f, j>>]>>] = "value"
    <3>1. \A u \in todo', g \in Events : u.what = Linked[g] => u \in todo
      BY <1>9, LinkedNames
    <3> QED
      BY <1>1, <3>1 DEF LinkedRegistered
  <2>1. /\ j \in locals[f] /\ shares[<<f, j>>] # NoRemote
        /\ registering[<<f, shares[<<f, j>>]>>] = "value"
    BY DEF TableInv, LinkedOnce, TaskedOnce, LinkedRegistered
  <2>2. shares[<<f, j>>] \in Attempts /\ <<f, j>> # <<e, k>>
    BY <1>2, <2>1, LocalsShare
  <2> QED
    BY <1>2, <1>5, <1>7, <2>1, <2>2, ZenonT(60)
<1>21. OwnLinkStays'
  <2>1. shares'[<<e, k>>] = k => \A j \in Attempts : <<e, j>> \notin unlinking
    <3>1. shared[e] # k
      BY <1>1, <1>2, <1>11 DEF TableInv, TableShared
    <3>2. \A j \in Attempts : <<e, j>> \in unlinking => shared[e] # NoSocket
      <4> SUFFICES ASSUME NEW j \in Attempts, <<e, j>> \in unlinking PROVE shared[e] # NoSocket
        OBVIOUS
      <4>1. j \in locals[e] /\ shares[<<e, j>>] # NoRemote
        BY <1>1 DEF TableInv, LinkedOnce, LinkedRegistered
      <4>2. shares[<<e, j>>] # NoSocket /\ shares[<<e, j>>] = shared[e]
        BY <1>1, <4>1 DEF TableInv, NoLinkYet, TableShared
      <4> QED
        BY <4>2
    <3> QED
      BY <1>1, <1>4, <1>5, <3>1, <3>2
  <2>2. \A u \in todo' : u.what = "ready" => u \in todo /\ u.attempt # k
    BY <1>3, <1>9
  <2>3. ASSUME NEW f \in Events, NEW j \in Attempts, sdSocket = j, shares'[<<f, j>>] = j,
               <<f, j>> # <<e, k>>
        PROVE  /\ j \in locals'[f] /\ \A i \in Attempts : <<f, i>> \notin unlinking'
               /\ prom'[j] = "value" \/ (\E u \in todo' : u.what = "ready" /\ u.attempt = j)
                    => registering'[<<f, j>>] = "value"
               /\ registering'[<<f, j>>] = "value" => <<f, j, j>> \in registered'
    <3>1. shares[<<f, j>>] = j
      BY <1>5, <2>3
    <3>2. /\ j \in locals[f] /\ \A i \in Attempts : <<f, i>> \notin unlinking
          /\ prom[j] = "value" \/ (\E u \in todo : u.what = "ready" /\ u.attempt = j)
               => registering[<<f, j>>] = "value"
          /\ registering[<<f, j>>] = "value" => <<f, j, j>> \in registered
      BY <2>3, <3>1 DEF TableInv, OwnLinkStays
    <3>3. registering'[<<f, j>>] = registering[<<f, j>>]
      BY <1>7, <2>3
    <3>4. j \in locals'[f]
      BY <1>4, <3>2
    <3>5. (\E u \in todo' : u.what = "ready" /\ u.attempt = j) => \E u \in todo : u.what = "ready" /\ u.attempt = j
      BY <2>2
    <3> QED
      BY <1>1, <3>2, <3>3, <3>4, <3>5
  <2>4. ASSUME sdSocket = k, shares'[<<e, k>>] = k
        PROVE  /\ k \in locals'[e] /\ \A i \in Attempts : <<e, i>> \notin unlinking'
               /\ prom'[k] = "value" \/ (\E u \in todo' : u.what = "ready" /\ u.attempt = k)
                    => registering'[<<e, k>>] = "value"
               /\ registering'[<<e, k>>] = "value" => <<e, k, k>> \in registered'
    BY <1>1, <1>3, <1>4, <1>7, <2>1, <2>2, <2>4
  <2> QED
    BY <1>1, <2>3, <2>4 DEF OwnLinkStays
<1> QED
  BY <1>12, <1>13, <1>14, <1>15, <1>16, <1>17, <1>18, <1>19, <1>20, <1>21 DEF TableInv

\* When an event is refused there is at most a local link without a remote one, which the
\* client never holds.
LEMMA MetaFailKeeps ==
  ASSUME ClientAssumption, TypeOK, TodoTyped, TableInv, NEW t \in todo, metaConnectFails(t)
  PROVE  TableInv'
<1> USE DEF state, users, futures, sockets, network, object, table
<1> DEFINE e == t.what  k == t.attempt
<1>1. /\ e \in Events /\ k \in Attempts /\ <<e, k>> \in Pairs
      /\ UNCHANGED <<sdSocket, links, remote, calls, registering, meta, prom, shared, unlinking, registered>>
  BY DEF metaConnectFails, TypeOK, Pairs
<1>2. /\ shares[<<e, k>>] = NoSocket /\ shares[<<"serviceRemoved", k>>] = NoSocket
      /\ meta[k] = "handled" /\ k \notin locals[e]
      /\ e = "serviceRemoved" => Asked("serviceAdded", k)
      /\ \A u \in todo : u.what \in Events /\ u.attempt = k => u = t
  <2>1. shares[<<e, k>>] = NoSocket /\ meta[k] = "handled"
    BY <1>1 DEF TableInv, EventsOnce, FetchFirst
  <2>2. e \in {"serviceAdded", "serviceRemoved"}
    BY <1>1 DEF Events
  <2>3. shares[<<"serviceRemoved", k>>] = NoSocket
    BY <1>1, <2>1, <2>2 DEF TableInv, EventsOnce
  <2>4. /\ e = "serviceRemoved" => Asked("serviceAdded", k)
        /\ \A u \in todo : u.what \in Events /\ u.attempt = k => u = t
    BY <1>1 DEF TableInv, EventsOnce
  <2>5. k \notin locals[e]
    BY <1>1, <2>1 DEF TableInv, NoLinkYet
  <2> QED
    BY <2>1, <2>3, <2>4, <2>5
<1>3. /\ prom[k] # "value"
      /\ \A u \in todo : u.attempt = k => u.what \notin {"added", "removed", "ready"}
      /\ \A f \in Events : <<f, k>> \notin awaiting /\ links[f] # k /\ <<f, k>> \notin unlinking
  BY <1>1, <1>2 DEF TableInv, NothingLinked
<1>4. /\ \A f \in Events : f # e => locals'[f] = locals[f]
      /\ locals'[e] = locals[e] \/ (shared[e] = NoSocket /\ locals'[e] = locals[e] \cup {k})
  BY <1>1 DEF metaConnectFails, TypeOK
<1>5. /\ shares'[<<e, k>>] = NoRemote
      /\ \A f \in Events, j \in Attempts : <<f, j>> # <<e, k>> => shares'[<<f, j>>] = shares[<<f, j>>]
  <2>1. shares' = [shares EXCEPT ![<<e, k>>] = NoRemote]
    BY DEF metaConnectFails
  <2>2. \A f \in Events, j \in Attempts : <<f, j>> \in Pairs
    BY DEF Pairs
  <2> QED
    BY <1>1, <2>1, <2>2 DEF TypeOK
<1>6. NoRemote # NoSocket /\ NoRemote \notin Attempts
  BY DEF NoRemote, NoSocket, ClientAssumption
<1>7. \A u \in todo' : \/ u \in todo /\ u # t
                       \/ e = "serviceAdded" /\ u = Task("serviceRemoved", k, t.socket)
  BY DEF metaConnectFails, EventConnects
<1>8. \A u \in todo' : \/ u \in todo /\ u # t
                       \/ e = "serviceAdded" /\ u.what = "serviceRemoved" /\ u.attempt = k
  BY <1>7, TaskFields
<1>9. /\ e = "serviceAdded" => awaiting' = awaiting
      /\ \A f \in Events, j \in Attempts : <<f, j>> \in awaiting' => <<f, j>> \in awaiting \/ j = k
  BY DEF metaConnectFails, EventConnects
<1>10. \A f \in Events, j \in Attempts : Asked(f, j) => Asked(f, j)'
  BY <1>1, <1>4, <1>5 DEF Asked
<1>11. \A u \in todo : u.attempt \in Attempts
  BY DEF TodoTyped
<1>12. OneSocket' /\ CallsRun'
  BY <1>1 DEF TableInv, OneSocket, CallsRun
<1>13. FetchFirst'
  BY <1>1, <1>2, <1>5, <1>8 DEF TableInv, FetchFirst
<1>14. EventsOnce'
  <2>1. \A u, v \in todo' : u.what \in Events /\ v.what \in Events /\ u.attempt = v.attempt => u = v
    <3>1. \A u, v \in todo : u.what \in Events /\ v.what \in Events /\ u.attempt = v.attempt => u = v
      BY DEF TableInv, EventsOnce
    <3>2. \A u \in todo' : u.what \in Events /\ u.attempt = k => u = Task("serviceRemoved", k, t.socket)
      BY <1>2, <1>7
    <3> QED
      BY <1>8, <3>1, <3>2
  <2>2. \A u \in todo' : u.what \in Events => shares'[<<u.what, u.attempt>>] = NoSocket
    <3>1. \A u \in todo : u.what \in Events /\ u # t => u.attempt # k
      BY <1>2
    <3> QED
      BY <1>1, <1>2, <1>5, <1>8, <1>11, <3>1, ZenonT(60) DEF TableInv, EventsOnce, Events
  <2>3. \A u \in todo' : u.what = "serviceRemoved" => Asked("serviceAdded", u.attempt)'
    <3>1. \A u \in todo : u.what = "serviceRemoved" => Asked("serviceAdded", u.attempt)
      BY DEF TableInv, EventsOnce, Events
    <3>2. e = "serviceAdded" => Asked("serviceAdded", k)'
      BY <1>5 DEF Asked
    <3>3. "serviceAdded" \in Events
      BY DEF Events
    <3> QED
      BY <1>1, <1>8, <1>10, <1>11, <3>1, <3>2, <3>3
  <2>4. \A j \in Attempts :
          shares'[<<"serviceAdded", j>>] = NoSocket => shares'[<<"serviceRemoved", j>>] = NoSocket
    <3>1. e = "serviceRemoved" => shares[<<"serviceAdded", k>>] # NoSocket
      BY <1>1, <1>2, <1>6 DEF TableInv, NoLinkYet, Asked, Events
    <3> QED
      BY <1>1, <1>5, <1>6, <3>1 DEF TableInv, EventsOnce, Events
  <2> QED
    BY <2>1, <2>2, <2>3, <2>4 DEF EventsOnce
<1>15. NoLinkYet'
  BY <1>1, <1>4, <1>5, <1>6 DEF TableInv, NoLinkYet
<1>16. NothingLinked'
  BY <1>1, <1>3, <1>5, <1>6, <1>8, <1>9 DEF TableInv, NothingLinked, Events
<1>17. TableShared'
  <2> SUFFICES ASSUME NEW f \in Events
               PROVE  /\ locals'[f] = {} => shared[f] = NoSocket
                      /\ \A j \in locals'[f] : shares'[<<f, j>>] \in {shared[f], NoRemote}
                      /\ shared[f] # NoSocket => shares'[<<f, shared[f]>>] = shared[f]
    BY <1>1 DEF TableShared
  <2>1. /\ locals[f] \subseteq Attempts /\ shared[f] \in Attempts \cup {NoSocket}
        /\ locals[f] \subseteq locals'[f]
    BY <1>4 DEF TypeOK
  <2>2. /\ locals[f] = {} => shared[f] = NoSocket
        /\ \A j \in locals[f] : shares[<<f, j>>] \in {shared[f], NoRemote}
        /\ shared[f] # NoSocket => shares[<<f, shared[f]>>] = shared[f]
    BY DEF TableInv, TableShared
  <2>3. \A j \in locals'[f] : j \in locals[f] \/ (f = e /\ j = k)
    BY <1>4
  <2>4. \A j \in locals'[f] : shares'[<<f, j>>] \in {shared[f], NoRemote}
    BY <1>5, <2>1, <2>2, <2>3
  <2>5. ASSUME shared[f] # NoSocket PROVE shares'[<<f, shared[f]>>] = shared[f]
    <3>1. shared[f] \in Attempts /\ shares[<<f, shared[f]>>] = shared[f]
      BY <2>1, <2>2, <2>5
    <3>2. <<f, shared[f]>> # <<e, k>>
      BY <1>2, <2>5, <3>1
    <3> QED
      BY <1>5, <3>1, <3>2
  <2> QED
    BY <2>1, <2>2, <2>4, <2>5
<1>18. LinkedOnce'
  <2>1. \A f \in Events : locals[f] \subseteq locals'[f]
    BY <1>4
  <2>2. e = "serviceRemoved" => \A f \in Events : Asked(f, k)'
    <3>1. e = "serviceRemoved" => Asked("serviceAdded", k)' /\ Asked("serviceRemoved", k)'
      BY <1>1, <1>2, <1>5, <1>10 DEF Asked, Events
    <3> QED
      BY <3>1 DEF Events
  <2>3. \A f \in Events : e = f => f \in {"serviceAdded", "serviceRemoved"}
    BY DEF Events
  <2> QED
    BY <1>1, <1>3, <1>9, <1>10, <2>1, <2>2, <2>3 DEF TableInv, LinkedOnce
<1>19. \A u \in todo', f \in Events : u.what = Linked[f] => u \in todo /\ u.attempt \in Attempts /\ u.attempt # k
  BY <1>3, <1>8, <1>11, LinkedNames
<1>20. TaskedOnce'
  <2>1. \A f \in Events : locals[f] \subseteq locals'[f]
    BY <1>4
  <2>2. \A u \in todo', f \in Events : u.what = Linked[f] => <<f, u.attempt>> \notin awaiting'
    <3>1. \A u \in todo, f \in Events : u.what = Linked[f] => <<f, u.attempt>> \notin awaiting
      BY DEF TableInv, TaskedOnce
    <3> QED
      BY <1>9, <1>19, <3>1
  <2> QED
    BY <1>1, <1>19, <2>1, <2>2 DEF TableInv, TaskedOnce
<1>21. LinkedRegistered'
  <2> SUFFICES ASSUME NEW f \in Events, NEW j \in Attempts,
                      \/ links[f] = j \/ <<f, j>> \in unlinking
                      \/ \E u \in todo : u.what = Linked[f] /\ u.attempt = j /\ j # k
               PROVE  shares'[<<f, j>>] # NoRemote /\ registering[<<f, shares'[<<f, j>>]>>] = "value"
    BY <1>1, <1>19 DEF LinkedRegistered
  <2>1. shares[<<f, j>>] # NoRemote /\ registering[<<f, shares[<<f, j>>]>>] = "value"
    BY DEF TableInv, LinkedRegistered
  <2>2. <<f, j>> # <<e, k>>
    BY <1>3
  <2> QED
    BY <1>5, <2>1, <2>2
<1>22. OwnLinkStays'
  <2> SUFFICES ASSUME NEW f \in Events, NEW j \in Attempts, sdSocket = j, shares'[<<f, j>>] = j
               PROVE  /\ j \in locals'[f] /\ \A i \in Attempts : <<f, i>> \notin unlinking
                      /\ prom[j] = "value" \/ (\E u \in todo' : u.what = "ready" /\ u.attempt = j)
                           => registering[<<f, j>>] = "value"
                      /\ registering[<<f, j>>] = "value" => <<f, j, j>> \in registered
    BY <1>1 DEF OwnLinkStays
  <2>1. shares[<<f, j>>] = j
    BY <1>5, <1>6
  <2>2. \A u \in todo' : u.what = "ready" => u \in todo
    BY <1>8
  <2>3. locals[f] \subseteq locals'[f]
    BY <1>4
  <2> QED
    BY <2>1, <2>2, <2>3 DEF TableInv, OwnLinkStays
<1> QED
  BY <1>12, <1>13, <1>14, <1>15, <1>16, <1>17, <1>18, <1>20, <1>21, <1>22 DEF TableInv

\* A failure closes the current connection, or leaves all of it alone.
LEMMA FailureKeeps ==
  ASSUME ClientAssumption, TypeOK, TodoTyped, TableInv, NEW t \in todo, onSocketFailure(t)
  PROVE  TableInv'
<1> USE DEF state, users, futures, sockets, network, object
<1>1. UNCHANGED <<remote, calls, meta, registering, awaiting>>
  BY DEF onSocketFailure
<1>2. \A u \in todo' : \/ u \in todo \/ u = Task("wait", t.attempt, sdSocket)
                       \/ u = Task("error", t.attempt, sdSocket)
  BY DEF onSocketFailure
<1>3. \A u \in todo' : u.what \in Vital => u \in todo
  BY <1>2, TaskFields DEF Vital, Events
<1>4. CASE closeImpl /\ prom' = prom
  BY <1>1, <1>3, <1>4, CloseKeeps
<1>5. CASE /\ Cleanup(t.socket, t.attempt)
           /\ UNCHANGED <<state, sock, hears, auths, lost, shut, table>>
  <2>1. \A j \in Attempts : prom'[j] = "value" => prom[j] = "value"
    BY <1>5, CleanupEffect DEF TodoTyped
  <2>2. Quiet
    BY <1>1, <1>3, <1>5, <2>1 DEF Quiet
  <2> QED
    BY <2>2, QuietKeeps
<1> QED
  BY <1>4, <1>5 DEF onSocketFailure

\* Every step keeps what the table of links goes through.
LEMMA TableKept ==
  ASSUME ClientAssumption, TypeOK, TodoTyped, NotStarted, TableInv, Next
  PROVE  TableInv'
<1>1. ASSUME NEW k \in Attempts,
             \/ ConnectCheck(k) \/ ConnectReturns(k) \/ onSocketConnected(k) \/ Break(k)
             \/ Connects(k) \/ Ends(k) \/ LostClient(k) \/ LostEvent(k)
             \/ \E a \in {"done", "next", "invalid", "refused"} : ReadAuth(k, a)
      PROVE  TableInv'
  BY <1>1, UsersAreQuiet, QuietKeeps
<1>2. ASSUME NEW k \in Attempts, connect(k) PROVE TableInv'
  BY <1>2, FailKeeps
<1>3. ASSUME NEW k \in Attempts, onSocketDisconnected(k) PROVE TableInv'
  <2>1. CASE remote = k
    BY <1>3, <2>1, FailKeeps
  <2>2. CASE remote # k
    <3>1. Quiet
      BY <1>3, <2>2 DEF onSocketDisconnected, Quiet, state, users, object
    <3> QED
      BY <3>1, QuietKeeps
  <2> QED
    BY <2>1, <2>2
<1>4. ASSUME NEW k \in Attempts, onMetaObjectFetched(k) PROVE TableInv'
  BY <1>4, FetchedKeeps
<1>5. ASSUME NEW k \in Attempts, NEW e \in Events, onSDEventConnected(e, k) PROVE TableInv'
  BY <1>5, EventConnectedKeeps
<1>6. ASSUME NEW k \in Attempts, NEW e \in Events, metaDisconnect(e, k) PROVE TableInv'
  BY <1>6, UnlinkKeeps
<1>7. ASSUME NEW t \in todo,
             Hello(t) \/ FailureDone(t) \/ HelloThrows(t) \/ onAuthenticationThrows(t)
      PROVE  TableInv'
  BY <1>7, TasksAreQuiet, QuietKeeps
<1>8. ASSUME NEW t \in todo, onAuthentication(t) PROVE TableInv'
  BY <1>8, AuthenticationKeeps
<1>9. ASSUME NEW t \in todo, metaConnect(t) PROVE TableInv'
  BY <1>9, MetaConnectKeeps
<1>10. ASSUME NEW t \in todo, Link(t) PROVE TableInv'
  BY <1>10, LinkKeeps
<1>11. ASSUME NEW t \in todo, Ready(t) PROVE TableInv'
  BY <1>11, ReadyKeeps
<1>12. ASSUME NEW t \in todo, onSocketFailure(t) PROVE TableInv'
  BY <1>12, FailureKeeps
<1>13. ASSUME NEW c \in calls, NEW a \in {"value", "error"}, ReadReply(c, a) PROVE TableInv'
  BY <1>13, ReplyKeeps
<1>14. ASSUME close PROVE TableInv'
  <2>1. closeImpl /\ UNCHANGED <<prom, remote, calls, meta, registering, awaiting, todo>>
    BY <1>14 DEF close, futures, object
  <2> QED
    BY <2>1, CloseKeeps
<1>15. ASSUME NEW t \in todo, metaConnectFails(t) PROVE TableInv'
  BY <1>15, MetaFailKeeps
<1>16. ASSUME NEW k \in Attempts, Unanswered(k) PROVE TableInv'
  <2>1. Quiet
    BY <1>16 DEF Unanswered, Quiet, state, users, futures, object
  <2> QED
    BY <2>1, QuietKeeps
<1>17. ASSUME NEW x \in shut, Shut(x) PROVE TableInv'
  <2>1. Quiet
    BY <1>17 DEF Shut, Quiet, state, users, futures, object
  <2> QED
    BY <2>1, QuietKeeps
<1> QED
  BY <1>1, <1>2, <1>3, <1>4, <1>5, <1>6, <1>7, <1>8, <1>9, <1>10, <1>11, <1>12, <1>13, <1>14,
     <1>15, <1>16, <1>17 DEF Next, Handle, Fails

-----------------------------------------------------------------------------
\* The invariant holds for any attempts, overlapping or not (connect, onSocketFailure,
\* onMetaObjectFetched, onSDEventConnected and closeImpl of ServiceDirectoryClient).
THEOREM ClientInvariant == ASSUME ClientAssumption PROVE Spec => []CInv
<1>1. Init => CInv
  BY InitCInv
<1>2. CInv /\ [Next]_vars => CInv'
  <2> SUFFICES ASSUME CInv, [Next]_vars PROVE CInv'
    OBVIOUS
  <2>1. CASE Next
    BY <2>1, TypeKept, NotStartedKept, TableKept DEF CInv
  <2>2. CASE UNCHANGED vars
    <3> USE <2>2 DEF vars, state, users, futures, sockets, network, object, table
    <3>1. TypeOK' /\ TodoTyped' /\ NotStarted'
      BY DEF CInv, TypeOK, TodoTyped, NotStarted
    <3>2. Quiet
      BY DEF Quiet
    <3> QED
      BY <3>1, <3>2, QuietKeeps DEF CInv
  <2> QED
    BY <2>1, <2>2
<1> QED
  BY <1>1, <1>2, PTL DEF Spec

\* When the promise of connect() is kept on the current socket, the directory sends that
\* socket both of its events, if the links are the attempt's own: no failure, close or
\* metaDisconnect() of another attempt takes them away (onSDEventConnected, and the links
\* of RemoteObject::metaConnect and metaDisconnect).
THEOREM ClientReady == ASSUME ClientAssumption PROVE Spec => []ReadyWithOwnLinks
<1>1. CInv => ReadyWithOwnLinks
  <2> SUFFICES ASSUME CInv, NEW k \in Attempts, prom[k] = "value", sdSocket = k,
                      \A e \in Events : shares[<<e, k>>] = k
               PROVE  Listens(k)
    BY DEF ReadyWithOwnLinks
  <2>1. \A e \in Events : <<e, k, k>> \in registered
    BY DEF CInv, TableInv, OwnLinkStays
  <2> QED
    BY <2>1 DEF Listens
<1> QED
  BY <1>1, ClientInvariant, PTL

\* The futures, tasks, calls and links of the client are what their types say
\* (ServiceDirectoryClient's _sdSocket, its futures and RemoteObject's tables).
THEOREM ClientTypes == ASSUME ClientAssumption PROVE Spec => []TypeOK
<1>1. CInv => TypeOK
  BY DEF CInv
<1> QED
  BY <1>1, ClientInvariant, PTL

=============================================================================
