-------------------------------- MODULE Rpc --------------------------------
(***************************************************************************)
(* A remote call: RemoteObject::metaCall on the client                     *)
(* (src/messaging/remoteobject.cpp), BoundObject::onMessage on the server  *)
(* (src/messaging/boundobject.cpp), their cancellation, and the end of the *)
(* connection they share.                                                  *)
(*                                                                         *)
(* Each end dispatches its messages one by one in the strand of its socket *)
(* (MessageDispatcher); the threads that call, cancel and close, and the   *)
(* event loop that runs methods and callbacks, run beside it.  The future  *)
(* the server answers from is the one GenericObject::metaCall unwraps:     *)
(* a method may return a value, or a future that finishes later.           *)
(***************************************************************************)
EXTENDS Integers, Sequences

CONSTANTS
  Calls,    \* the calls made through the remote object
  Deferred, \* the calls of methods that return a future
  Canceled, \* the calls that somebody may cancel
  Closers   \* who may close the remote object

ASSUME RpcAssumption ==
  Deferred \subseteq Calls /\ Canceled \subseteq Calls /\ Closers # {}

VARIABLES
  up,          \* is the connection whole?
  toServer,    \* messages for the server, up to the head of its strand
  toClient,    \* messages for the client, up to the head of its strand
  clientConn,  \* is the client's socket in its connected state?
  serverConn,  \* is the server's?
  \* the client
  sock,        \* is RemoteObject::_socket set?
  promises,    \* _promises
  caller,      \* call -> where its thread is in metaCall
  fut,         \* call -> the state of the future metaCall returns
  onCancelled, \* the calls whose future has onFutureCancelled to call
  reply,       \* the message in RemoteObject::onMessagePending, if any
  close,       \* closer -> where it is in RemoteObject::close
  taken,       \* closer -> the promises it took and has not set yet
  \* the server
  bound,       \* is the bound object connected to the socket's dispatcher?
  request,     \* the message in BoundObject::onMessage, if any
  cancelables, \* _cancelables of this socket
  unwrapped,   \* call -> the future of GenericObject::metaCall
  adapter,     \* call -> where handleFuture is with the future the method returned
  innerCancel, \* the calls whose returned future was asked to cancel
  toCancel,    \* call -> the cancel callback of that future
  cancelReq,   \* the calls of which that future was asked to cancel
  answered     \* the calls serverResultAdapter has run for

network == <<up, toServer, toClient, clientConn, serverConn>>
client == <<sock, promises, caller, fut, onCancelled, reply, close, taken>>
service == <<unwrapped, adapter, innerCancel, toCancel, cancelReq>>
server == <<bound, request, cancelables, answered, service>>
vars == <<network, client, server>>

Results == {"value", "error", "canceled"}
Futures == {"none", "running"} \cup Results

Requests == [type : {"call", "cancel"}, call : Calls]
Replies == [call : Calls, result : Results]
Nothing == [call |-> "none"]

\* A value that cannot be converted, before it is sent or when it is received,
\* becomes an error.
Converted(r) == {r} \cup {e \in {"error"} : r = "value"}

RpcTypeOK ==
  /\ up \in BOOLEAN /\ clientConn \in BOOLEAN /\ serverConn \in BOOLEAN
  /\ toServer \in Seq(Requests)
  /\ toClient \in Seq(Replies)
  /\ sock \in BOOLEAN
  /\ promises \subseteq Calls
  /\ caller \in [Calls -> {"idle", "added", "sent", "failing", "erasing", "returned", "threw"}]
  /\ fut \in [Calls -> Futures]
  /\ onCancelled \subseteq Calls
  /\ reply \in {Nothing} \cup Replies
  /\ close \in [Closers -> {"no", "reset", "took", "threw"}]
  /\ taken \in [Closers -> SUBSET Calls]
  /\ bound \in BOOLEAN
  /\ request \in {Nothing} \cup Requests
  /\ cancelables \subseteq Calls
  /\ innerCancel \subseteq Calls
  /\ adapter \in [Calls -> {"none", "connected", "set"}]
  /\ unwrapped \in [Calls -> Futures]
  /\ toCancel \in [Calls -> {"none", "raw", "inner"}]
  /\ cancelReq \subseteq Calls
  /\ answered \subseteq Calls

\* A remote object whose socket is connected, and the service it stands for.
Init ==
  /\ up = TRUE /\ clientConn = TRUE /\ serverConn = TRUE
  /\ sock = TRUE /\ bound = TRUE
  /\ toServer = <<>> /\ toClient = <<>>
  /\ promises = {} /\ onCancelled = {} /\ cancelables = {}
  /\ innerCancel = {} /\ cancelReq = {} /\ answered = {}
  /\ caller = [c \in Calls |-> "idle"]
  /\ fut = [c \in Calls |-> "none"]
  /\ reply = Nothing /\ request = Nothing
  /\ close = [k \in Closers |-> "no"]
  /\ taken = [k \in Closers |-> {}]
  /\ adapter = [c \in Calls |-> "none"]
  /\ unwrapped = [c \in Calls |-> "none"]
  /\ toCancel = [c \in Calls |-> "none"]

-----------------------------------------------------------------------------
(* The connection.                                                         *)

\* MessageSocket::send puts the message on the wire, whole or not; a socket that
\* is not connected refuses it.
SendRequest(m) == toServer' = IF clientConn /\ up THEN Append(toServer, m) ELSE toServer
SendReply(m) == toClient' = IF serverConn /\ up THEN Append(toClient, m) ELSE toClient

LinkLost ==
  /\ up
  /\ up' = FALSE
  /\ UNCHANGED <<toServer, toClient, clientConn, serverConn, client, server>>

\* Of a queue, what has reached the strand when its socket disconnects.
Arrived(q, rest) == \E n \in 0 .. Len(q) : rest = SubSeq(q, 1, n)

ClientDisconnected ==
  /\ ~up /\ clientConn
  /\ clientConn' = FALSE
  /\ Arrived(toClient, toClient')
  /\ UNCHANGED <<up, toServer, serverConn, client, server>>

ServerDisconnected ==
  /\ ~up /\ serverConn
  /\ serverConn' = FALSE
  /\ Arrived(toServer, toServer')
  /\ UNCHANGED <<up, toClient, clientConn, client, server>>

-----------------------------------------------------------------------------
(* The client.                                                             *)

\* metaCall up to the two locks: the promise is added while _socket is held.
MetaCall(c) ==
  /\ caller[c] = "idle"
  /\ \/ /\ sock /\ clientConn
        /\ promises' = promises \cup {c}
        /\ fut' = [fut EXCEPT ![c] = "running"]
        /\ caller' = [caller EXCEPT ![c] = "added"]
     \/ /\ ~(sock /\ clientConn)
        /\ fut' = [fut EXCEPT ![c] = "error"]
        /\ caller' = [caller EXCEPT ![c] = "returned"]
        /\ UNCHANGED promises
  /\ UNCHANGED <<network, sock, onCancelled, reply, close, taken, server>>

\* The arguments cannot be encoded: the exception leaves metaCall, the promise stays,
\* and GenericObject::metaCallNoUnwrap returns a future in error.
EncodeFails(c) ==
  /\ caller[c] = "added"
  /\ caller' = [caller EXCEPT ![c] = "threw"]
  /\ UNCHANGED <<network, sock, promises, fut, onCancelled, reply, close, taken, server>>

\* The message is sent, or the socket refuses it.
SendCall(c) ==
  /\ caller[c] = "added"
  /\ caller' = [caller EXCEPT ![c] = IF clientConn THEN "sent" ELSE "failing"]
  /\ SendRequest([type |-> "call", call |-> c])
  /\ UNCHANGED <<up, toClient, clientConn, serverConn, sock, promises, fut, onCancelled,
                 reply, close, taken, server>>

\* Somebody else than the thread in metaCall holds the promise of the call.
HeldElsewhere(c) == c \in promises \/ \E k \in Closers : c \in taken[k]

\* setOnCancel, and metaCall returns: its promise goes, and when it was the last
\* one the future is broken.
SetOnCancel(c) ==
  /\ caller[c] = "sent"
  /\ caller' = [caller EXCEPT ![c] = "returned"]
  /\ onCancelled' = onCancelled \cup {c}
  /\ fut' = IF fut[c] = "running" /\ ~HeldElsewhere(c)
            THEN [fut EXCEPT ![c] = "error"] ELSE fut
  /\ UNCHANGED <<network, sock, promises, reply, close, taken, server>>

\* out.setError after a refused message; a promise that is already set throws,
\* and that leaves metaCall too.
SendFailed(c) ==
  /\ caller[c] = "failing"
  /\ caller' = [caller EXCEPT ![c] = IF fut[c] = "running" THEN "erasing" ELSE "threw"]
  /\ fut' = [fut EXCEPT ![c] = IF @ = "running" THEN "error" ELSE @]
  /\ UNCHANGED <<network, sock, promises, onCancelled, reply, close, taken, server>>

ErasePromise(c) ==
  /\ caller[c] = "erasing"
  /\ caller' = [caller EXCEPT ![c] = "returned"]
  /\ promises' = promises \ {c}
  /\ UNCHANGED <<network, sock, fut, onCancelled, reply, close, taken, server>>

\* Future::cancel, which calls onFutureCancelled once.
Cancel(c) ==
  /\ c \in Canceled \cap onCancelled /\ fut[c] = "running"
  /\ onCancelled' = onCancelled \ {c}
  /\ IF sock THEN SendRequest([type |-> "cancel", call |-> c]) ELSE UNCHANGED toServer
  /\ UNCHANGED <<up, toClient, clientConn, serverConn, sock, promises, caller, fut, reply,
                 close, taken, server>>

\* The dispatcher copies its handlers: after close has disconnected the remote
\* object there is none.
DispatchReply ==
  /\ reply = Nothing /\ toClient # <<>>
  /\ toClient' = Tail(toClient)
  /\ reply' = IF sock THEN Head(toClient) ELSE Nothing
  /\ UNCHANGED <<up, toServer, clientConn, serverConn, sock, promises, caller, fut,
                 onCancelled, close, taken, server>>

\* A mistake: Type_Canceled handled like Type_Reply.
HandleReplyAsValue ==
  /\ reply # Nothing
  /\ reply' = Nothing
  /\ promises' = promises \ {reply.call}
  /\ fut' = [fut EXCEPT ![reply.call] =
               IF reply.call \notin promises THEN @
               ELSE IF reply.result = "error" THEN "error" ELSE "value"]
  /\ UNCHANGED <<network, sock, caller, onCancelled, close, taken, server>>

\* onMessagePending takes the promise of the message out of _promises and sets it.
HandleReply ==
  /\ reply # Nothing
  /\ reply' = Nothing
  /\ promises' = promises \ {reply.call}
  /\ IF reply.call \in promises
     THEN \E r \in Converted(reply.result) :
            fut' = [fut EXCEPT ![reply.call] = IF @ = "running" THEN r ELSE @]
     ELSE UNCHANGED fut
  /\ UNCHANGED <<network, sock, caller, onCancelled, close, taken, server>>

\* close: reset _socket and leave the dispatcher.  The socket's disconnected signal
\* calls it, or a thread does, which also disconnects that signal.
CloseSocket(k) ==
  /\ close[k] = "no"
  /\ close' = [close EXCEPT ![k] = "reset"]
  /\ sock' = FALSE
  /\ UNCHANGED <<network, promises, caller, fut, onCancelled, reply, taken, server>>

\* close: copy and clear _promises.
ClosePromises(k) ==
  /\ close[k] = "reset"
  /\ close' = [close EXCEPT ![k] = "took"]
  /\ taken' = [taken EXCEPT ![k] = promises]
  /\ promises' = {}
  /\ UNCHANGED <<network, sock, caller, fut, onCancelled, reply, server>>

\* close: report the error to one request.  A promise that is already set throws
\* out of the loop; the copies of the others are dropped, which breaks the
\* futures nobody else holds a promise of.
ReportError(k, c) ==
  /\ close[k] = "took" /\ c \in taken[k]
  /\ \/ /\ fut[c] = "running"
        /\ fut' = [fut EXCEPT ![c] = "error"]
        /\ taken' = [taken EXCEPT ![k] = @ \ {c}]
        /\ UNCHANGED close
     \/ /\ fut[c] # "running"
        /\ fut' = [d \in Calls |->
                     IF d \in taken[k] /\ fut[d] = "running" /\ caller[d] \in {"returned", "threw"}
                     THEN "error" ELSE fut[d]]
        /\ taken' = [taken EXCEPT ![k] = {}]
        /\ close' = [close EXCEPT ![k] = "threw"]
  /\ UNCHANGED <<network, sock, promises, caller, onCancelled, reply, server>>

-----------------------------------------------------------------------------
(* The server.                                                             *)

\* The server destroys the binding, because the socket has disconnected or the
\* service is removed: unbindFromSocket.
Unbind ==
  /\ bound
  /\ bound' = FALSE
  /\ cancelables' = {}
  /\ UNCHANGED <<network, client, request, answered, service>>

\* A mistake: a call that nobody handles is dropped.
DispatchRequestSilent ==
  /\ request = Nothing /\ toServer # <<>>
  /\ toServer' = Tail(toServer)
  /\ request' = IF bound THEN Head(toServer) ELSE Nothing
  /\ UNCHANGED <<up, toClient, clientConn, serverConn, client, bound, cancelables, answered,
                 service>>

\* The dispatcher copies its handlers; dispatchOrSendError answers a call that
\* nobody handles.
DispatchRequest ==
  /\ request = Nothing /\ toServer # <<>>
  /\ toServer' = Tail(toServer)
  /\ request' = IF bound THEN Head(toServer) ELSE Nothing
  /\ IF ~bound /\ Head(toServer).type = "call"
     THEN SendReply([call |-> Head(toServer).call, result |-> "error"])
     ELSE UNCHANGED toClient
  /\ UNCHANGED <<up, clientConn, serverConn, client, bound, cancelables, answered, service>>

\* onMessage of a call: the method is posted, its future recorded in _cancelables
\* and then connected to serverResultAdapter.
HandleCall ==
  /\ request # Nothing /\ request.type = "call"
  /\ LET c == request.call IN
       /\ unwrapped' = [unwrapped EXCEPT ![c] = "running"]
       /\ toCancel' = [toCancel EXCEPT ![c] = "raw"]
       /\ cancelables' = cancelables \cup {c}
  /\ request' = Nothing
  /\ UNCHANGED <<network, client, bound, answered, adapter, innerCancel, cancelReq>>

\* onMessage of a call that cannot be made: no such method, or arguments that
\* cannot be read.
RefuseCall ==
  /\ request # Nothing /\ request.type = "call"
  /\ SendReply([call |-> request.call, result |-> "error"])
  /\ request' = Nothing
  /\ UNCHANGED <<up, toServer, clientConn, serverConn, client, bound, cancelables, answered,
                 service>>

\* cancelCall: cancel the future if it is recorded and still running.  Its cancel
\* callback, taken once, cancels the future of the method, which has no callback
\* of its own, or the future the method returned.
HandleCancel ==
  /\ request # Nothing /\ request.type = "cancel"
  /\ LET c == request.call
         running == c \in cancelables /\ unwrapped[c] = "running"
     IN  /\ cancelReq' = IF running THEN cancelReq \cup {c} ELSE cancelReq
         /\ innerCancel' = IF running /\ toCancel[c] = "inner"
                           THEN innerCancel \cup {c} ELSE innerCancel
         /\ toCancel' = IF running THEN [toCancel EXCEPT ![c] = "none"] ELSE toCancel
         /\ cancelables' = IF unwrapped[c] = "value" THEN cancelables \ {c} ELSE cancelables
  /\ request' = Nothing
  /\ UNCHANGED <<network, client, bound, answered, adapter, unwrapped>>

\* The event loop runs the method, and futureAdapter forwards its result or
\* connects to the future it returned (handleFuture).
RunMethod(c) ==
  /\ unwrapped[c] = "running" /\ adapter[c] = "none"
  /\ \/ /\ c \in Deferred
        /\ adapter' = [adapter EXCEPT ![c] = "connected"]
        /\ UNCHANGED unwrapped
     \/ /\ \E r \in {"error"} \cup (IF c \in Deferred THEN {} ELSE {"value"}) :
             unwrapped' = [unwrapped EXCEPT ![c] = r]
        /\ UNCHANGED adapter
  /\ UNCHANGED <<network, client, bound, request, cancelables, answered, innerCancel,
                 toCancel, cancelReq>>

\* A mistake: a cancel request made before the callback is set is forgotten.
AdaptOnCancelForgets(c) ==
  /\ adapter[c] = "connected"
  /\ adapter' = [adapter EXCEPT ![c] = "set"]
  /\ toCancel' = [toCancel EXCEPT ![c] = "inner"]
  /\ UNCHANGED <<network, client, bound, request, cancelables, answered, unwrapped,
                 innerCancel, cancelReq>>

\* handleFuture: setOnCancel, which cancels at once when that was asked before.
AdaptOnCancel(c) ==
  /\ adapter[c] = "connected"
  /\ adapter' = [adapter EXCEPT ![c] = "set"]
  /\ LET now == c \in cancelReq /\ unwrapped[c] = "running"
     IN  /\ innerCancel' = IF now THEN innerCancel \cup {c} ELSE innerCancel
         /\ toCancel' = [toCancel EXCEPT ![c] = IF now THEN "none" ELSE "inner"]
  /\ UNCHANGED <<network, client, bound, request, cancelables, answered, unwrapped,
                 cancelReq>>

\* The future the method returned finishes, canceled only when asked to, and
\* futureAdapterGeneric forwards its result.
FinishInner(c) ==
  /\ unwrapped[c] = "running" /\ adapter[c] # "none"
  /\ \E r \in Results : /\ r = "canceled" => c \in innerCancel
                        /\ unwrapped' = [unwrapped EXCEPT ![c] = r]
  /\ UNCHANGED <<network, client, bound, request, cancelables, answered, adapter,
                 innerCancel, toCancel, cancelReq>>

\* A mistake: a call is forgotten only when it can be answered.
AnswerKeepsLost(c) ==
  /\ unwrapped[c] \in Results /\ c \notin answered
  /\ answered' = answered \cup {c}
  /\ cancelables' = IF serverConn THEN cancelables \ {c} ELSE cancelables
  /\ SendReply([call |-> c, result |-> unwrapped[c]])
  /\ UNCHANGED <<up, toServer, clientConn, serverConn, client, bound, request, service>>

\* serverResultAdapter forgets the call and sends its result.
Answer(c) ==
  /\ unwrapped[c] \in Results /\ c \notin answered
  /\ answered' = answered \cup {c}
  /\ cancelables' = cancelables \ {c}
  /\ \E r \in Converted(unwrapped[c]) : SendReply([call |-> c, result |-> r])
  /\ UNCHANGED <<up, toServer, clientConn, serverConn, client, bound, request, service>>

-----------------------------------------------------------------------------
ClientStep(c) ==
  EncodeFails(c) \/ SendCall(c) \/ SetOnCancel(c) \/ SendFailed(c) \/ ErasePromise(c)

ClientStrand == DispatchReply \/ HandleReply

CloseStep(k) ==
  ClosePromises(k) \/ (\E c \in Calls : ReportError(k, c))

ServerStrand == DispatchRequest \/ HandleCall \/ RefuseCall \/ HandleCancel

ServiceStep(c) ==
  RunMethod(c) \/ AdaptOnCancel(c) \/ FinishInner(c) \/ Answer(c)

Next ==
  \/ LinkLost \/ ClientDisconnected \/ ServerDisconnected \/ Unbind
  \/ ClientStrand \/ ServerStrand
  \/ \E c \in Calls : MetaCall(c) \/ Cancel(c) \/ ClientStep(c) \/ ServiceStep(c)
  \/ \E k \in Closers : CloseSocket(k) \/ CloseStep(k)

Spec == Init /\ [][Next]_vars

\* Threads go on with what they have begun, strands and the event loop run what is
\* posted to them, sockets notice a lost link and signal it, and methods and the futures they
\* return finish.  Nobody has to call, cancel or close, and no link has to be lost.
FairSpec ==
  /\ Spec
  /\ WF_vars(ClientDisconnected \/ ServerDisconnected)
  /\ WF_vars(ClientStrand) /\ WF_vars(ServerStrand)
  /\ \A c \in Calls : WF_vars(ClientStep(c)) /\ WF_vars(ServiceStep(c))
  /\ \A k \in Closers : WF_vars(CloseStep(k) \/ (~clientConn /\ CloseSocket(k)))

-----------------------------------------------------------------------------
(* Properties.                                                             *)

\* "Nobody should be able to add anything to promises at this point": once close
\* has taken the promises, no call adds one that nothing would ever set.
NoneAfterClose ==
  (\E k \in Closers : close[k] \in {"took", "threw"}) => promises = {}

\* Every reply meets its promise, unless the remote object was closed: one answer
\* per call, sent after metaCall has recorded the call ("no promise found").
ReplyExpected ==
  sock =>
    /\ \A i \in DOMAIN toClient :
         /\ toClient[i].call \in promises
         /\ \A j \in DOMAIN toClient : toClient[j].call = toClient[i].call => j = i
    /\ reply # Nothing =>
         /\ reply.call \in promises
         /\ \A i \in DOMAIN toClient : toClient[i].call # reply.call

\* The method of a call is started at most once: onMessage() never meets a second message
\* of a call whose method it has posted.
AtMostOnce == [][HandleCall => unwrapped[request.call] = "none"]_vars

\* The caller's future has a value, or is canceled, only when the method or the
\* future it returned ended that way.
ResultsAgree ==
  \A c \in Calls :
    fut[c] \in {"value", "canceled"} => unwrapped[c] = fut[c]

\* A cancel request recorded by cancelCall reaches the future the method returned
\* as soon as that is known, whichever came first, unless it is over by then.
CancelReaches ==
  \A c \in cancelReq :
    adapter[c] = "set" => c \in innerCancel \/ unwrapped[c] \in Results

\* Every call ends: with an answer, with an error when the link is lost or the remote
\* object closed, or at once when metaCall throws.  There are finitely many, so again
\* and again none is left.
CallsFinish ==
  []<>(\A c \in Calls : caller[c] \notin {"idle", "threw"} => fut[c] \in Results)

\* The server forgets every call it has recorded, also one that it records after
\* the client has gone.
CancelablesDrain == []<>(cancelables = {})

=============================================================================
