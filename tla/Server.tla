------------------------------- MODULE Server -------------------------------
(***************************************************************************)
(* Server and BoundObjectSocketBinder (src/messaging/server.cpp): the      *)
(* sockets and the objects of a session, which objects receive the         *)
(* messages of which sockets, and the authentication of clients.           *)
(*                                                                         *)
(* The operations are tasks of a strand: they are posted, and run one at a *)
(* time; close() takes the strand away.  The sockets and the clients are   *)
(* outside, see MessageSocket and SessionService.                          *)
(***************************************************************************)
EXTENDS Integers, Sequences, FiniteSets, SequencesExt

CONSTANTS
  Objects,    \* the bound objects of services, by their service id
  Clients,    \* the sockets accepted by the transport server
  Outgoing,   \* the sockets connected to a service directory
  MaxQueue,   \* bound: tasks posted to the strand
  MaxOpens,   \* bound: how often the server is opened again
  MaxMessages \* bound: messages a client sends to the server

ASSUME ServerAssumption ==
  /\ IsFiniteSet(Objects) /\ IsFiniteSet(Clients) /\ IsFiniteSet(Outgoing)
  /\ Clients \cap Outgoing = {}
  /\ MaxQueue \in Nat /\ MaxOpens \in Nat /\ MaxMessages \in Nat

Sockets == Clients \cup Outgoing

VARIABLES
  enforce,    \* _enforceAuth
  strand,     \* _strand is not null
  closing,    \* what close() is to clear, after it has taken the strand
  raced,      \* the server was opened again while close() was clearing
  opens,      \* how often the server was opened again
  queue,      \* the tasks of the strand
  objects,    \* _boundObjects
  known,      \* _socketsInfo
  authenticated, \* those whose SocketInfo is authenticated
  bindings,   \* _bindings: <<object, socket>>
  offered,    \* objects and sockets that were given to the server
  serverSock, \* socket -> its state
  linked,     \* the sockets whose `disconnected` the server is connected to
  asking,     \* client -> the message it waits for an answer to
  told,       \* client -> the last answer
  messages    \* client -> how many messages it has sent

life == <<enforce, strand, closing, raced, opens>>
binder == <<objects, known, authenticated, bindings>>
clients == <<asking, told, messages>>
serverVars == <<life, queue, binder, offered, serverSock, linked, clients>>

Tasks ==
  [op : {"addObject", "removeObject"}, of : Objects]
    \cup [op : {"addIncomingSocket", "addOutgoingSocket", "removeSocket", "message"}, of : Sockets]

TypeOK ==
  /\ enforce \in BOOLEAN /\ strand \in BOOLEAN /\ raced \in BOOLEAN
  /\ closing \in {"no", "sockets", "bindings"}
  /\ opens \in 0 .. MaxOpens /\ queue \in Seq(Tasks)
  /\ objects \subseteq Objects /\ known \subseteq Sockets /\ authenticated \subseteq known
  /\ bindings \subseteq Objects \X Sockets
  /\ offered \subseteq Objects \cup Sockets /\ linked \subseteq Sockets
  /\ serverSock \in [Sockets -> {"none", "up", "closing", "down"}]
  /\ asking \in [Clients -> {"none", "auth", "other"}]
  /\ told \in [Clients -> {"none", "done", "cont", "error", "capabilities", "nothing"}]
  /\ messages \in [Clients -> 0 .. MaxMessages]

ServerInit ==
  /\ enforce \in BOOLEAN /\ strand = TRUE /\ closing = "no" /\ raced = FALSE /\ opens = 0
  /\ queue = <<>>
  /\ objects = {} /\ known = {} /\ authenticated = {} /\ bindings = {}
  /\ offered = {} /\ linked = {}
  /\ serverSock = [k \in Sockets |-> "none"]
  /\ asking = [k \in Clients |-> "none"] /\ told = [k \in Clients |-> "none"]
  /\ messages = [k \in Clients |-> 0]

-----------------------------------------------------------------------------
\* disconnect() of the sockets of S.
Disconnecting(S) ==
  [k \in Sockets |-> IF k \in S /\ serverSock[k] = "up" THEN "closing" ELSE serverSock[k]]

\* safeCall(): the task is posted to the strand, if there is one.
Post(op, x) ==
  IF strand THEN Len(queue) < MaxQueue /\ queue' = Append(queue, [op |-> op, of |-> x])
            ELSE queue' = queue

\* The next task of the strand.
Runs(op, x) ==
  /\ strand /\ queue # <<>> /\ Head(queue) = [op |-> op, of |-> x]
  /\ queue' = Tail(queue)

\* Pairs that SocketBinding::make() does not find bound already.
bindSocket(k) == bindings \cup (objects \X {k})
bindObject(o) == bindings \cup ({o} \X known)
unbindSocket(k) == {p \in bindings : p[2] # k}
unbindObject(o) == {p \in bindings : p[1] # o}

-----------------------------------------------------------------------------
(* Faulty variants of operations below, each of which breaks a property.   *)

\* The socket is authenticated, and bound to the objects that come.
FinalizeUnbound(k, a) ==
  /\ bindings' = bindings /\ authenticated' = authenticated \cup {k}
  /\ told' = [told EXCEPT ![k] = a] /\ asking' = [asking EXCEPT ![k] = "none"]
  /\ UNCHANGED <<known, objects, serverSock>>

\* A socket that could not be given to the strand is left open.
NewConnectionLeaks(k) ==
  /\ serverSock[k] = "none" /\ k \notin offered /\ offered' = offered \cup {k}
  /\ serverSock' = [serverSock EXCEPT ![k] = "up"]
  /\ Post("addIncomingSocket", k)
  /\ UNCHANGED <<life, binder, linked, clients>>

\* A client that is already authenticated gets no answer.
IgnoreSilently(k) ==
  /\ asking' = [asking EXCEPT ![k] = "none"]
  /\ UNCHANGED <<told, binder, serverSock>>

-----------------------------------------------------------------------------
addObject(o) ==
  /\ o \notin offered /\ offered' = offered \cup {o}
  /\ Post("addObject", o)
  /\ UNCHANGED <<life, binder, serverSock, linked, clients>>

removeObject(o) ==
  /\ o \in objects /\ Post("removeObject", o)
  /\ [op |-> "removeObject", of |-> o] \notin Range(queue)
  /\ UNCHANGED <<life, binder, offered, serverSock, linked, clients>>

DoAddObject(o) ==
  /\ Runs("addObject", o)
  /\ objects' = objects \cup {o}
  /\ bindings' = IF o \in objects THEN bindings ELSE bindObject(o)
  /\ UNCHANGED <<life, known, authenticated, offered, serverSock, linked, clients>>

DoRemoveObject(o) ==
  /\ Runs("removeObject", o)
  /\ objects' = objects \ {o} /\ bindings' = unbindObject(o)
  /\ UNCHANGED <<life, known, authenticated, offered, serverSock, linked, clients>>

\* The transport server accepts a connection.  A socket that no task takes is
\* destroyed, and so disconnected.
newConnection(k) ==
  /\ serverSock[k] = "none" /\ k \notin offered /\ offered' = offered \cup {k}
  /\ serverSock' = [serverSock EXCEPT ![k] = IF strand THEN "up" ELSE "down"]
  /\ Post("addIncomingSocket", k)
  /\ UNCHANGED <<life, binder, linked, clients>>

\* The session connects to a service directory.
addOutgoingSocket(k) ==
  /\ serverSock[k] = "none" /\ k \notin offered /\ offered' = offered \cup {k}
  /\ serverSock' = [serverSock EXCEPT ![k] = "up"]
  /\ Post("addOutgoingSocket", k)
  /\ UNCHANGED <<life, binder, linked, clients>>

\* addSocket(): it is removed at its `disconnected`, which may have been emitted.
addSocket(k) ==
  /\ known' = known \cup {k}
  /\ linked' = IF serverSock[k] = "down" THEN linked ELSE linked \cup {k}
  /\ UNCHANGED <<objects, authenticated, bindings>>

\* The socket is disconnected if newProvider() throws, or if it cannot be read.
addIncomingSocket(k) ==
  /\ Runs("addIncomingSocket", k) /\ addSocket(k)
  /\ serverSock' \in {serverSock, Disconnecting({k})}
  /\ UNCHANGED <<life, offered, clients>>

DoAddOutgoingSocket(k) ==
  /\ Runs("addOutgoingSocket", k) /\ addSocket(k)
  /\ UNCHANGED <<life, offered, serverSock, clients>>

\* removeSocket(): ~SocketInfo() disconnects the socket.
removeSocket(k) ==
  /\ Runs("removeSocket", k)
  /\ known' = known \ {k} /\ authenticated' = authenticated \ {k}
  /\ bindings' = IF k \in known THEN unbindSocket(k) ELSE bindings
  /\ linked' = IF k \in known THEN linked \ {k} ELSE linked
  /\ serverSock' = Disconnecting({k})
  /\ UNCHANGED <<life, objects, offered, clients>>

-----------------------------------------------------------------------------
\* A client sends a message to the server, an authentication request or not.  The
\* socket reads no other one until it is handled.
Send(k, m) ==
  /\ k \in known /\ serverSock[k] = "up" /\ asking[k] = "none" /\ messages[k] < MaxMessages
  /\ strand /\ Post("message", k)
  /\ asking' = [asking EXCEPT ![k] = m] /\ messages' = [messages EXCEPT ![k] = @ + 1]
  /\ told' = [told EXCEPT ![k] = "none"]
  /\ UNCHANGED <<life, binder, offered, serverSock, linked>>

sendAuthReply(k, a) ==
  /\ told' = [told EXCEPT ![k] = a] /\ asking' = [asking EXCEPT ![k] = "none"]

\* finalizeSocketAuthentication(), and the reply: the objects are bound first.
finalizeSocketAuthentication(k, a) ==
  /\ bindings' = bindSocket(k) /\ authenticated' = authenticated \cup {k}
  /\ sendAuthReply(k, a) /\ UNCHANGED <<known, objects, serverSock>>

\* sendAuthError()
sendAuthError(k) ==
  /\ sendAuthReply(k, "error") /\ serverSock' = Disconnecting({k})
  /\ UNCHANGED <<binder>>

\* The socket is authenticated already: authentication requests are answered.
Ignore(k) ==
  /\ IF asking[k] = "auth" THEN sendAuthReply(k, "done")
     ELSE told' = told /\ asking' = [asking EXCEPT ![k] = "none"]
  /\ UNCHANGED <<binder, serverSock>>

\* authenticateSocket(): what the AuthProvider says.  It, or a conversion, may throw:
\* the handler catches the exception, and there is no reply.
authenticateSocket(k) ==
  \/ \E a \in {"cont", "nothing"} : sendAuthReply(k, a) /\ UNCHANGED <<binder, serverSock>>
  \/ \E a \in {"done", "nothing"} : finalizeSocketAuthentication(k, a)
  \/ sendAuthError(k)

handleServerMessageAuth(k) ==
  \/ asking[k] = "other" /\ sendAuthError(k)
  \/ asking[k] = "auth" /\ authenticateSocket(k)

handleServerMessageNoAuth(k) ==
  finalizeSocketAuthentication(k, IF asking[k] = "auth" THEN "done" ELSE "capabilities")

\* handleServerMessage(): nothing once the SocketInfo is destroyed.
handleServerMessage(k) ==
  /\ Runs("message", k)
  /\ \/ /\ k \notin known /\ asking' = [asking EXCEPT ![k] = "none"]
        /\ UNCHANGED <<binder, serverSock, told>>
     \/ k \in authenticated /\ Ignore(k)
     \/ k \in known \ authenticated /\ enforce /\ handleServerMessageAuth(k)
     \/ k \in known \ authenticated /\ ~enforce /\ handleServerMessageNoAuth(k)
  /\ UNCHANGED <<life, offered, linked, messages>>

-----------------------------------------------------------------------------
\* A socket is disconnected, by this side or the other: the callback posts its removal.
SocketDown(k) ==
  /\ serverSock[k] \in {"up", "closing"} /\ serverSock' = [serverSock EXCEPT ![k] = "down"]
  /\ IF k \in linked THEN Post("removeSocket", k) ELSE queue' = queue
  /\ UNCHANGED <<life, binder, offered, linked, clients>>

\* close() takes the strand and joins it: a task that runs ends, the other ones
\* are dropped, and the sockets they hold destroyed.  Bound: one close() at a time.
closeImpl ==
  /\ strand /\ closing = "no"
  /\ strand' = FALSE /\ closing' = "sockets" /\ queue' = <<>>
  /\ asking' = [k \in Clients |-> "none"]
  /\ serverSock' = Disconnecting({k \in Clients :
                              [op |-> "addIncomingSocket", of |-> k] \in Range(queue)})
  /\ UNCHANGED <<enforce, raced, opens, binder, offered, linked, told, messages>>

\* Then it removes the sockets and the bindings, outside any strand; the objects stay.
clearSockets ==
  /\ closing = "sockets" /\ closing' = "bindings"
  /\ known' = {} /\ authenticated' = {} /\ linked' = linked \ known
  /\ serverSock' = Disconnecting(known)
  /\ UNCHANGED <<enforce, strand, raced, opens, queue, objects, bindings, offered, clients>>

clearBindings ==
  /\ closing = "bindings" /\ closing' = "no" /\ bindings' = {}
  /\ UNCHANGED <<enforce, strand, raced, opens, queue, objects, known, authenticated, offered,
                 serverSock, linked, clients>>

\* A new strand, whose tasks do not wait for a close() that is clearing.
open ==
  /\ ~strand /\ opens < MaxOpens /\ strand' = TRUE /\ opens' = opens + 1
  /\ raced' = (raced \/ closing # "no")
  /\ UNCHANGED <<enforce, closing, queue, binder, offered, serverSock, linked, clients>>

ServerNext ==
  \/ \E o \in Objects : addObject(o) \/ removeObject(o) \/ DoAddObject(o) \/ DoRemoveObject(o)
  \/ \E k \in Clients :
       \/ newConnection(k) \/ addIncomingSocket(k) \/ handleServerMessage(k)
       \/ \E m \in {"auth", "other"} : Send(k, m)
  \/ \E k \in Outgoing : addOutgoingSocket(k) \/ DoAddOutgoingSocket(k)
  \/ \E k \in Sockets : removeSocket(k) \/ SocketDown(k)
  \/ closeImpl \/ clearSockets \/ clearBindings \/ open

ServerSpec == ServerInit /\ [][ServerNext]_serverVars

\* The strand runs its tasks, a socket that is being disconnected is in the end,
\* and close() returns.
Fairness ==
  /\ \A o \in Objects : WF_serverVars(DoAddObject(o)) /\ WF_serverVars(DoRemoveObject(o))
  /\ \A k \in Clients : WF_serverVars(addIncomingSocket(k)) /\ WF_serverVars(handleServerMessage(k))
  /\ \A k \in Outgoing : WF_serverVars(DoAddOutgoingSocket(k))
  /\ \A k \in Sockets : /\ WF_serverVars(removeSocket(k))
                        /\ WF_serverVars(serverSock[k] = "closing" /\ SocketDown(k))
  /\ WF_serverVars(clearSockets) /\ WF_serverVars(clearBindings)

ServerFairSpec == ServerSpec /\ Fairness

-----------------------------------------------------------------------------
\* Objects are bound to the sockets of the server only, through every order of
\* additions and removals, and no object that was removed is bound: but for those that
\* close() is about to clear.
BindingsExact == closing = "bindings" \/ bindings \subseteq objects \X known

\* A client that was told that it is authenticated reaches every object, also those that
\* are added later: no request of its is left dangling.  Unless the server was opened
\* again while close() was clearing, which may take the bindings of new sockets.
DoneIsServed == raced \/ objects \X authenticated \subseteq bindings

\* The same without the exception.  Does not hold: clearSockets() is not a task of the strand.
ReopenedIsServed == objects \X authenticated \subseteq bindings

\* "The server is responsible for disconnecting its sockets": a client's is in
\* the server, or about to be, or disconnected.
NoneLeftOpen ==
  \A k \in Clients :
    (serverSock[k] = "up" /\ [op |-> "addIncomingSocket", of |-> k] \notin Range(queue)) => k \in known

\* An authentication request is handled to its end: it is answered unless an exception came
\* out of its handler ("nothing"), or its socket is not there any more.
AuthAnswered ==
  \A k \in Clients :
    (asking[k] = "auth") ~> (told[k] # "none" \/ k \notin known \/ ~strand)

\* It is answered in any case.  Does not hold: the exceptions are swallowed.
AlwaysAnswered ==
  \A k \in Clients :
    (asking[k] = "auth") ~> (told[k] \notin {"none", "nothing"} \/ k \notin known \/ ~strand)

\* addOutgoingSocket(): "This allows service bounds objects to process messages
\* coming from such sockets."
OutgoingServed ==
  \A k \in Outgoing \cap known : objects \X {k} \subseteq bindings

=============================================================================
