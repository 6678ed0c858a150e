---------------------------- MODULE SocketCache ----------------------------
(***************************************************************************)
(* TransportSocketCache (src/messaging/transportsocketcache.cpp): the      *)
(* sockets of a session to the processes of one machine, by URI.  A        *)
(* request tries every endpoint of its service at once and keeps the first *)
(* connection; requests that share a URI share the attempt.                *)
(*                                                                         *)
(* One action is one critical section of _socketMutex, or one turn of the  *)
(* loops that close() runs without it.  URIs are numbers, in the order of  *)
(* std::map<Uri, ConnectionAttemptPtr>.                                    *)
(***************************************************************************)
EXTENDS Integers, Sequences, FiniteSets, FiniteSetsExt, Functions

CONSTANTS
  Uris,        \* the URIs of the machine
  Infos,       \* the ServiceInfos requested
  Endpoints,   \* info -> its endpoints
  RelUri,      \* info -> the relative URI "qi:<name>" of the service
  Loopback,    \* the endpoints on a loopback address
  Supported,   \* the URIs whose scheme is one of ours over TCP
  SdUris,      \* the two URIs the socket to the service directory is put under
  Requests,    \* calls of socket(), each made at most once
  Cases,       \* is the machine this one, the infos of the requests, is the
               \* service directory on the machine; bounds: how often the
               \* cache is opened again, how many sockets users or the other
               \* side disconnect
  Attempts,    \* bound: ConnectionAttempts, as numbers from 1
  Sockets      \* bound: sockets, as numbers from 1

NoUri == 0
NoAttempt == 0
NoSocket == 0

\* A future holds a socket, or one of these.
NotAsked == -3
Running == -2
Failed == -1

ASSUME CacheAssumption ==
  /\ Uris \subseteq Nat \ {0} /\ IsFiniteSet(Uris)
  /\ Endpoints \in [Infos -> SUBSET Uris] /\ RelUri \in [Infos -> Uris \ Supported]
  /\ Loopback \subseteq Uris /\ Supported \subseteq Uris
  /\ Cases \subseteq BOOLEAN \X [Requests -> Infos] \X BOOLEAN \X Nat \X Nat
  /\ SdUris \in Seq(Uris) \ {<<>>}
  /\ Attempts \subseteq Nat \ {0} /\ Sockets \subseteq Nat \ {0}
  /\ IsFiniteSet(Attempts) /\ IsFiniteSet(Sockets)

VARIABLES
  local,    \* the machine is this one
  wants,    \* request -> its info
  hasSd,    \* the service directory is to be inserted, once
  dying,    \* _dying
  opens,    \* how often the cache may be opened again
  drops,    \* how many sockets users or the other side may still disconnect
  looping,  \* close() has left the lock and runs its loops
  taken,    \* the pending connections that it took
  left,     \* the sockets that it dropped when an exception left it
  conns,    \* _connections of the machine: uri -> attempt
  swapped,  \* the map that close() took, as far as it has not gone through it
  att,      \* attempt -> ConnectionAttempt
  pending,  \* _allPendingConnections
  sock,     \* socket -> its state, the URI and the service it was made for
  result,   \* socket -> the future of its connect(), until it is handled
  inserts,  \* socket -> the URIs it has still to be inserted under
  subs,     \* socket -> the URIs of its callbacks on `disconnected`, except those
            \* connected after it was emitted
  calls,    \* socket -> those among them that are still to be called
  waits,    \* request -> its attempt
  fut,      \* request -> its future
  removal   \* socket -> the promise of disconnect(); released is set by close(),
            \* which leaves its entry where it is

table == <<conns, swapped, att, waits, fut>>
signals == <<inserts, subs, calls>>
cases == <<local, wants>>
closer == <<looping, taken, left>>
life == <<dying, opens, drops, hasSd, closer>>
vars == <<cases, life, table, pending, sock, result, signals, removal>>

Keys == {u \in Uris : conns[u] # NoAttempt}

\* Only the loopback endpoints when the service is on this machine and has some.
Candidates(i) ==
  LET here == Endpoints[i] \cap Loopback
  IN  IF local /\ here # {} THEN here ELSE Endpoints[i]

Tried(i) == {u \in Candidates(i) \cap Supported : local \/ u \notin Loopback}

NoneAttempt == [state |-> "none", count |-> 0, endpoint |-> NoSocket, uris |-> {},
                prom |-> Running, link |-> NoUri, tried |-> {}, skips |-> FALSE]

ConnectionAttempt ==
  [state : {"none", "pending", "connected", "error"},
   count : Int, endpoint : Sockets \cup {NoSocket},
   uris : SUBSET Uris, prom : {Running, Failed} \cup Sockets,
   link : Uris \cup {NoUri}, tried : SUBSET Uris, skips : BOOLEAN]

TypeOK ==
  /\ local \in BOOLEAN /\ dying \in BOOLEAN /\ looping \in BOOLEAN
  /\ wants \in [Requests -> Infos]
  /\ opens \in Nat /\ drops \in Nat /\ hasSd \in BOOLEAN
  /\ conns \in [Uris -> Attempts \cup {NoAttempt}]
  /\ swapped \in [Uris -> Attempts \cup {NoAttempt}]
  /\ att \in [Attempts -> ConnectionAttempt]
  /\ pending \subseteq Sockets /\ taken \subseteq Sockets /\ left \subseteq Sockets
  /\ sock \in [Sockets -> [state : {"none", "connecting", "up", "closing", "down"},
                           uri : Uris \cup {NoUri}, rel : Uris \cup {NoUri}]]
  /\ result \in [Sockets -> {"none", "running", "value", "error", "handled"}]
  /\ inserts \in [Sockets -> Seq(Uris)]
  /\ subs \in [Sockets -> Seq(Uris)] /\ calls \in [Sockets -> Seq(Uris)]
  /\ waits \in [Requests -> Attempts \cup {NoAttempt}]
  /\ fut \in [Requests -> {NotAsked, Running, Failed} \cup Sockets]
  /\ removal \in [Sockets -> {"none", "waiting", "released", "removed"}]

Init ==
  /\ \E k \in Cases : /\ local = k[1] /\ wants = k[2] /\ hasSd = k[3]
                       /\ opens = k[4] /\ drops = k[5]
  /\ dying = FALSE /\ looping = FALSE /\ taken = {} /\ left = {}
  /\ conns = [u \in Uris |-> NoAttempt] /\ swapped = [u \in Uris |-> NoAttempt]
  /\ att = [a \in Attempts |-> NoneAttempt]
  /\ pending = {}
  /\ sock = [s \in Sockets |-> [state |-> "none", uri |-> NoUri, rel |-> NoUri]]
  /\ result = [s \in Sockets |-> "none"]
  /\ inserts = [s \in Sockets |-> <<>>]
  /\ subs = [s \in Sockets |-> <<>>] /\ calls = [s \in Sockets |-> <<>>]
  /\ waits = [r \in Requests |-> NoAttempt] /\ fut = [r \in Requests |-> NotAsked]
  /\ removal = [s \in Sockets |-> "none"]

-----------------------------------------------------------------------------
FreeAttempts == {a \in Attempts : att[a].state = "none"}
FreeSockets == {s \in Sockets : sock[s].state = "none"}

\* The map, the one close() has taken and the attempts are c, h and t, and w the
\* attempts requests wait for.  An attempt that leaves the maps is destroyed, and
\* its promise set in error.
Update(c, h, t, w) ==
  LET Dead == {a \in Attempts : \A u \in Uris : c[u] # a /\ h[u] # a}
      Outcome(a) == IF a \in Dead /\ t[a].prom = Running THEN Failed ELSE t[a].prom
  IN  /\ conns' = c /\ swapped' = h
      /\ att' = [a \in Attempts |-> IF a \in Dead THEN NoneAttempt ELSE t[a]]
      /\ fut' = [r \in Requests |->
                   IF w[r] = NoAttempt THEN fut[r] ELSE Outcome(w[r])]
      /\ waits' = [r \in Requests |-> IF fut'[r] = Running THEN w[r] ELSE NoAttempt]

\* checkClear(): a failed attempt leaves the map, under all its related URIs.
checkClear(c, t, a) ==
  IF t[a].state = "error" \/ (t[a].count <= 0 /\ t[a].state # "connected")
    THEN [u \in Uris |-> IF u \in t[a].uris THEN NoAttempt ELSE c[u]]
    ELSE c

\* disconnect() of the sockets of S.  The connection of one that is still
\* connecting fails.
Closing(S) ==
  /\ sock' = [s \in Sockets |->
       IF s \notin S THEN sock[s]
       ELSE CASE sock[s].state = "up" -> [sock[s] EXCEPT !.state = "closing"]
              [] sock[s].state = "connecting" -> [sock[s] EXCEPT !.state = "down"]
              [] OTHER -> sock[s]]
  /\ result' = [s \in Sockets |->
       IF s \in S /\ sock[s].state = "connecting" THEN "error" ELSE result[s]]

\* The result of the socket has been handled: it is not needed any more.
Reject(s) ==
  /\ pending' = pending \ {s}
  /\ sock' = [sock EXCEPT ![s].state = IF @ = "up" THEN "closing" ELSE @]
  /\ result' = [result EXCEPT ![s] = "handled"]
  /\ UNCHANGED <<signals, removal>>

-----------------------------------------------------------------------------
(* Faulty variants of operations below, each of which breaks a property.   *)

\* The request waits for all the endpoints, not for the candidates.
NewAttemptAll(i) ==
  [state |-> "pending", count |-> Cardinality(Endpoints[i]), endpoint |-> NoSocket,
   uris |-> Endpoints[i], prom |-> Running, link |-> NoUri,
   tried |-> Tried(i), skips |-> Tried(i) # Candidates(i)]

\* The connections that are pending are not disconnected.
ClosePendingLeft ==
  /\ looping /\ swapped = [u \in Uris |-> NoAttempt] /\ taken # {} /\ taken' = {}
  /\ UNCHANGED <<cases, dying, opens, drops, hasSd, looping, left, table, pending, sock, result, signals, removal>>

-----------------------------------------------------------------------------
(* The sockets of the cache: what MessageSocket shows of them.             *)

\* A callback is connected to `disconnected`: too late, if it was emitted.
Subscribed(s, u) ==
  IF sock[s].state = "down" THEN subs ELSE [subs EXCEPT ![s] = Append(@, u)]

\* connect() ends.
ConnectEnds(s, r) ==
  /\ sock[s].state = "connecting"
  /\ sock' = [sock EXCEPT ![s].state = IF r = "value" THEN "up" ELSE "down"]
  /\ result' = [result EXCEPT ![s] = r]
  /\ UNCHANGED <<cases, life, table, pending, signals, removal>>

\* The socket is disconnected, by this side or by the other: its callbacks are called.
Disconnects(s) ==
  /\ \/ sock[s].state = "closing" /\ drops' = drops
     \/ sock[s].state = "up" /\ drops > 0 /\ drops' = drops - 1
  /\ sock' = [sock EXCEPT ![s].state = "down"]
  /\ calls' = [calls EXCEPT ![s] = subs[s]]
  /\ UNCHANGED <<cases, dying, opens, hasSd, closer, table, pending, result, inserts, subs, removal>>

-----------------------------------------------------------------------------
\* The attempts under a URI that the service lists.
Matching(i) == {conns[u] : u \in Keys \cap Endpoints[i]}

\* The attempt socket() makes.
NewAttempt(i) ==
  [state |-> "pending", count |-> Cardinality(Candidates(i)), endpoint |-> NoSocket,
   uris |-> Endpoints[i], prom |-> Running, link |-> NoUri,
   tried |-> Tried(i), skips |-> Tried(i) # Candidates(i)]

Refused(r) ==
  /\ dying /\ fut[r] = NotAsked /\ fut' = [fut EXCEPT ![r] = Failed]
  /\ UNCHANGED <<cases, life, conns, swapped, att, waits, pending, sock, result,
                 signals, removal>>

\* socket(): the service has a connection, or one under way.
Found(r) ==
  /\ ~dying /\ fut[r] = NotAsked
  /\ \E a \in Matching(wants[r]) : Update(conns, swapped, att, [waits EXCEPT ![r] = a])
  /\ UNCHANGED <<cases, life, pending, sock, result, signals, removal>>

\* socket(): every endpoint that can be tried is.
Connect(r) ==
  /\ ~dying /\ fut[r] = NotAsked /\ Matching(wants[r]) = {}
  /\ FreeAttempts # {} /\ Cardinality(Tried(wants[r])) <= Cardinality(FreeSockets)
  /\ LET a == Min(FreeAttempts)
         t == [att EXCEPT ![a] = NewAttempt(wants[r])]
         c == [u \in Uris |-> IF u \in Tried(wants[r]) THEN a ELSE conns[u]]
         s == CHOOSE f \in Injection(Tried(wants[r]), FreeSockets) : TRUE
         New == Range(s)
     IN  /\ Update(c, swapped, t, [waits EXCEPT ![r] = a])
         /\ pending' = pending \cup New
         /\ sock' = [x \in Sockets |->
              IF x \in New
                THEN [state |-> "connecting", uri |-> Inverse(s, Tried(wants[r]), New)[x],
                      rel |-> RelUri[wants[r]]]
                ELSE sock[x]]
         /\ result' = [x \in Sockets |-> IF x \in New THEN "running" ELSE result[x]]
  /\ UNCHANGED <<cases, life, signals, removal>>

socket(r) == Refused(r) \/ Found(r) \/ Connect(r)

\* onSocketParallelConnectionAttempt() once the cache is closed.
ResultDying(s) ==
  /\ dying /\ result[s] \in {"value", "error"}
  /\ IF result[s] = "value"
       THEN Reject(s)
       ELSE /\ result' = [result EXCEPT ![s] = "handled"]
            /\ UNCHANGED <<pending, sock, signals, removal>>
  /\ UNCHANGED <<cases, life, table>>

\* The URI has left the map.
ResultGone(s) ==
  /\ ~dying /\ result[s] \in {"value", "error"} /\ conns[sock[s].uri] = NoAttempt
  /\ Reject(s)
  /\ UNCHANGED <<cases, life, table>>

\* The attempt the URI leads to, with one connection less to wait for.
Counted(s) == [att EXCEPT ![conns[sock[s].uri]].count = @ - 1]

ResultLate(s) ==
  /\ ~dying /\ result[s] \in {"value", "error"}
  /\ LET a == conns[sock[s].uri] IN
       /\ a # NoAttempt /\ att[a].state # "pending"
       /\ Update(checkClear(conns, Counted(s), a), swapped, Counted(s), waits)
  /\ Reject(s)
  /\ UNCHANGED <<cases, life>>

\* "It's a critical error if we've exhausted all available endpoints."
ResultError(s) ==
  /\ ~dying /\ result[s] = "error"
  /\ LET a == conns[sock[s].uri]
         t == Counted(s)
         e == [t EXCEPT ![a].state = "error", ![a].prom = Failed]
     IN  /\ a # NoAttempt /\ att[a].state = "pending"
         /\ IF t[a].count = 0 THEN Update(checkClear(conns, e, a), swapped, e, waits)
                              ELSE Update(conns, swapped, t, waits)
  /\ pending' = pending \ {s} /\ result' = [result EXCEPT ![s] = "handled"]
  /\ UNCHANGED <<cases, life, sock, signals, removal>>

\* The first connection of the attempt: the other ones will be rejected.  The
\* relative URI of the service is inserted next, in a section of its own.
ResultConnected(s) ==
  /\ ~dying /\ result[s] = "value"
  /\ LET a == conns[sock[s].uri]
         t == [Counted(s) EXCEPT ![a].state = "connected", ![a].endpoint = s,
                                 ![a].prom = s, ![a].link = sock[s].uri]
     IN  /\ a # NoAttempt /\ att[a].state = "pending"
         /\ Update(conns, swapped, t, waits)
  /\ subs' = Subscribed(s, sock[s].uri)
  /\ inserts' = [inserts EXCEPT ![s] = <<sock[s].rel>>]
  /\ result' = [result EXCEPT ![s] = "handled"]
  /\ UNCHANGED <<cases, life, pending, sock, calls, removal>>

onSocketParallelConnectionAttempt(s) ==
  ResultDying(s) \/ ResultGone(s) \/ ResultLate(s) \/ ResultError(s) \/ ResultConnected(s)

\* insert(): the attempt under the URI, pending or not, takes the socket; there
\* is a new one if there is none.
insert(s) ==
  /\ inserts[s] # <<>> /\ inserts' = [inserts EXCEPT ![s] = Tail(@)]
  /\ LET u == Head(inserts[s])
         a == conns[u]
         n == Min(FreeAttempts)
         owned == [att EXCEPT ![a].state = "connected", ![a].endpoint = s,
                              ![a].prom = s, ![a].link = u]
         made == [att EXCEPT ![n] = [state |-> "connected", count |-> 0, endpoint |-> s,
                                     uris |-> {u}, prom |-> s, link |-> NoUri,
                                     tried |-> {}, skips |-> FALSE]]
     IN  IF dying THEN UNCHANGED <<table, subs>>
         ELSE /\ subs' = Subscribed(s, u)
              /\ IF a # NoAttempt
                   THEN Update(conns, swapped, owned, waits)
                   ELSE FreeAttempts # {} /\ Update([conns EXCEPT ![u] = n], swapped, made, waits)
  /\ UNCHANGED <<cases, life, pending, sock, result, calls, removal>>

\* addSdSocketToCache(): the session puts the socket to the service directory.
addSdSocketToCache ==
  /\ hasSd /\ hasSd' = FALSE /\ FreeSockets # {}
  /\ LET s == Min(FreeSockets) IN
       /\ sock' = [sock EXCEPT ![s] = [state |-> "up", uri |-> Head(SdUris), rel |-> NoUri]]
       /\ result' = [result EXCEPT ![s] = "handled"]
       /\ inserts' = [inserts EXCEPT ![s] = SdUris]
  /\ UNCHANGED <<cases, dying, opens, drops, closer, table, pending, subs, calls, removal>>

\* onSocketDisconnected(): whatever the URI now leads to is removed.
onSocketDisconnected(s) ==
  /\ calls[s] # <<>> /\ calls' = [calls EXCEPT ![s] = Tail(@)]
  /\ LET a == conns[Head(calls[s])]
         t == [att EXCEPT ![a].state = "error"]
     IN  IF a = NoAttempt THEN UNCHANGED <<table, removal>>
         ELSE /\ Update(checkClear(conns, t, a), swapped, t, waits)
              /\ removal' = [x \in Sockets |->
                   IF x = att[a].endpoint /\ removal[x] # "none" THEN "removed"
                                                                ELSE removal[x]]
  /\ UNCHANGED <<cases, life, pending, sock, result, inserts, subs>>

\* disconnect(): answered once the signal of the socket has reached the cache.
disconnect(s) ==
  /\ \E r \in Requests : fut[r] = s
  /\ drops > 0 /\ drops' = drops - 1
  /\ removal[s] = "none" /\ removal' = [removal EXCEPT ![s] = "waiting"]
  /\ Closing({s})
  /\ UNCHANGED <<cases, dying, opens, hasSd, closer, table, pending, signals>>

\* Some promises of disconnect() can be set: none has been by an earlier close(), whose
\* entries are still there, come first and throw.
Releasable ==
  /\ \E s \in Sockets : removal[s] = "waiting"
  /\ \A s \in Sockets : removal[s] # "released"

\* close(), under the lock: the map and the pending connections are taken.  When the
\* cache is closed already, all that is left for it is to set those promises.
close ==
  /\ ~looping /\ looping' = TRUE
  /\ ~dying \/ Releasable
  /\ dying' = TRUE
  /\ Update([u \in Uris |-> NoAttempt], conns, att, waits)
  /\ taken' = pending /\ pending' = {}
  /\ UNCHANGED <<cases, opens, drops, hasSd, left, sock, result, signals, removal>>

\* The loop over the map is at its next URI.
NextUri == Min({u \in Uris : swapped[u] # NoAttempt})

AtAttempt == looping /\ \E u \in Uris : swapped[u] # NoAttempt

\* The attempt has a socket: it is disconnected, and its callback taken off.
CloseConnected ==
  /\ AtAttempt
  /\ LET a == swapped[NextUri]
         s == att[a].endpoint
         Off(q) == [q EXCEPT ![s] = SelectSeq(@, LAMBDA u : u # att[a].link)]
     IN  /\ s # NoSocket
         /\ Closing({s})
         /\ subs' = Off(subs) /\ calls' = Off(calls)
         /\ Update(conns, [swapped EXCEPT ![NextUri] = NoAttempt],
                   [att EXCEPT ![a].link = NoUri], waits)
  /\ UNCHANGED <<cases, life, pending, inserts, removal>>

\* The attempt has none: its promise is set in error.
CloseAttempt ==
  /\ AtAttempt
  /\ LET a == swapped[NextUri] IN
       /\ att[a].endpoint = NoSocket /\ att[a].prom = Running
       /\ Update(conns, [swapped EXCEPT ![NextUri] = NoAttempt],
                 [att EXCEPT ![a].state = "error", ![a].prom = Failed], waits)
  /\ UNCHANGED <<cases, life, pending, sock, result, signals, removal>>

\* It has been set under an earlier URI: setting it again throws, and close() drops
\* what it has not gone through.
CloseThrows ==
  /\ AtAttempt
  /\ LET a == swapped[NextUri] IN att[a].endpoint = NoSocket /\ att[a].prom # Running
  /\ left' = left \cup taken \cup
       ({att[swapped[u]].endpoint : u \in {v \in Uris : swapped[v] # NoAttempt}} \ {NoSocket})
  /\ looping' = FALSE /\ taken' = {}
  /\ Update(conns, [u \in Uris |-> NoAttempt], att, waits)
  /\ UNCHANGED <<cases, dying, opens, drops, hasSd, pending, sock, result, signals, removal>>

\* The loop over the pending connections.
ClosePending ==
  /\ looping /\ ~AtAttempt /\ taken # {}
  /\ Closing({Min(taken)}) /\ taken' = taken \ {Min(taken)}
  /\ UNCHANGED <<cases, dying, opens, drops, hasSd, looping, left, table, pending, signals, removal>>

\* releaseDisconnectInfoPromises().
CloseReleases ==
  /\ looping /\ ~AtAttempt /\ taken = {} /\ looping' = FALSE
  /\ removal' = [s \in Sockets |->
       IF Releasable /\ removal[s] = "waiting" THEN "released" ELSE removal[s]]
  /\ UNCHANGED <<cases, dying, opens, drops, hasSd, taken, left, table, pending, sock, result, signals>>

CloseLoops == CloseConnected \/ CloseAttempt \/ CloseThrows \/ ClosePending \/ CloseReleases

\* init(): the session connects again, even while close() runs its loops.
init ==
  /\ dying /\ opens > 0
  /\ dying' = FALSE /\ opens' = opens - 1
  /\ UNCHANGED <<cases, drops, hasSd, closer, table, pending, sock, result, signals, removal>>

Next ==
  \/ \E r \in Requests : socket(r)
  \/ \E s \in Sockets :
       \/ \E r \in {"value", "error"} : ConnectEnds(s, r)
       \/ Disconnects(s) \/ onSocketParallelConnectionAttempt(s) \/ insert(s)
       \/ onSocketDisconnected(s) \/ disconnect(s)
  \/ addSdSocketToCache \/ close \/ CloseLoops \/ init

Spec == Init /\ [][Next]_vars

\* What is under way: the callbacks that the event loop calls, the sockets that are
\* being disconnected, and the thread in close().
Work ==
  \/ CloseLoops
  \/ \E s \in Sockets :
       \/ sock[s].state = "closing" /\ Disconnects(s)
       \/ onSocketParallelConnectionAttempt(s) \/ onSocketDisconnected(s)

\* There is some: Work is enabled.
WorkLeft ==
  looping \/ \E s \in Sockets : \/ sock[s].state = "closing" \/ result[s] \in {"value", "error"}
                               \/ calls[s] # <<>>

\* WF_vars(Work): work goes on as long as some is left.  A connect() may wait for ever
\* for the other side.
Fairness == []<>~WorkLeft \/ []<><<Work>>_vars

FairSpec == Spec /\ Fairness

-----------------------------------------------------------------------------

\* Provided that the connections it waits for end, a request does, whatever becomes of
\* the attempt it shares and of the close() that took it, unless the attempt waits for a
\* result it cannot get: a candidate was skipped, which is counted all the same, or
\* another attempt has erased one of its URIs from the map.
RequestSettles ==
  (\A s \in Sockets : []<>(sock[s].state # "connecting")) =>
    \A r \in Requests :
      fut[r] = Running
        ~> \/ fut[r] # Running
           \/ att[waits[r]].skips
           \/ \E u \in att[waits[r]].tried : waits[r] \notin {conns[u], swapped[u]}

\* Once the cache is closed every socket it made is disconnected, one that is still
\* connecting and one whose connection ends while close() runs its loops too, and
\* whether or not the session connects again meanwhile; but for the sockets that a
\* close() left by an exception has dropped.
CloseDisconnects ==
  \A s \in Sockets :
    (dying /\ sock[s].rel # NoUri) ~> (sock[s].state = "down" \/ s \in left)

\* A request whose future runs waits for an attempt whose promise is not set, in the map or
\* in the one that close() goes through: a connection, the end of the attempt or close() will set it.
NoneStranded ==
  \A r \in Requests : fut[r] = Running =>
    /\ att[waits[r]].prom = Running
    /\ \E u \in Uris : waits[r] \in {conns[u], swapped[u]}

\* When close() is over no request waits, not even when an exception left it.
CloseAnswers == dying /\ ~looping => \A r \in Requests : fut[r] # Running

\* No request gets a socket that is still connecting.
AnswersConnected ==
  \A r \in Requests : fut[r] \in Sockets => sock[fut[r]].state \notin {"none", "connecting"}

\* When close() is over it has disconnected every socket that the cache has made, but
\* for those that a close() left by an exception has dropped.
CloseLeavesNone ==
  dying /\ ~looping =>
    \A s \in Sockets : sock[s].rel # NoUri /\ s \notin left => sock[s].state \notin {"connecting", "up"}

\* "It's a critical error if we've exhausted all available endpoints": an
\* attempt is pending only as long as one of its connections is.
ExhaustedIsError ==
  \A u \in Keys : att[conns[u]].state = "pending" =>
    \E s \in Sockets : /\ result[s] \in {"running", "value", "error"}
                       /\ conns[sock[s].uri] = conns[u]

=============================================================================
