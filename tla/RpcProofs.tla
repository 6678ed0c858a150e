----------------------------- MODULE RpcProofs -----------------------------
(***************************************************************************)
(* A closed remote object takes no further promise, the caller's result is *)
(* the method's, a cancel request reaches the method's future, and every   *)
(* reply meets its promise, for any number of calls and closers.  The      *)
(* second part is about the server that holds the bound objects.           *)
(***************************************************************************)
EXTENDS Rpc, Server, TLAPS

\* Whoever has begun to close has reset the socket.
ClosedHasNoSocket == (\E k \in Closers : close[k] # "no") => ~sock

\* A call is handled at most once: before it is sent there is no message of it, and
\* while its only message is on its way or in onMessage, it has no future on the
\* server yet.
CallOf(m, c) == m.type = "call" /\ m.call = c
InHand(c) == request # Nothing /\ CallOf(request, c)

HandledOnce ==
  \A c \in Calls :
    /\ caller[c] \in {"idle", "added"} =>
         /\ unwrapped[c] = "none" /\ ~InHand(c)
         /\ \A i \in DOMAIN toServer : ~CallOf(toServer[i], c)
    /\ \A i \in DOMAIN toServer : CallOf(toServer[i], c) =>
         /\ unwrapped[c] = "none" /\ ~InHand(c)
         /\ \A j \in DOMAIN toServer : CallOf(toServer[j], c) => j = i
    /\ InHand(c) => unwrapped[c] = "none"

\* A reply that is not an error carries the result of the method.
Truthful(m) == m.result # "error" => unwrapped[m.call] = m.result

RepliesTruthful ==
  /\ \A i \in DOMAIN toClient : Truthful(toClient[i])
  /\ reply # Nothing => Truthful(reply)

\* The future of a method that is not called yet has no adapter, and one that may be
\* canceled passes that on to the future the method returned, or has done so.
CancelArmed ==
  \A c \in Calls :
    /\ unwrapped[c] = "none" => adapter[c] = "none"
    /\ (adapter[c] = "set" /\ unwrapped[c] = "running") => toCancel[c] = "inner" \/ c \in innerCancel

\* Where the one thing that stands for a call is: its message, its future on the server,
\* or its reply.
Asked(c) == InHand(c) \/ \E i \in DOMAIN toServer : CallOf(toServer[i], c)
Working(c) == unwrapped[c] # "none" /\ c \notin answered
Replied(c) ==
  \/ reply # Nothing /\ reply.call = c
  \/ \E i \in DOMAIN toClient : toClient[i].call = c

\* A call that is not sent, or whose message was refused, is nowhere; one that is on
\* its way or at work has no reply.
RepliedOnce ==
  \A c \in Calls :
    /\ caller[c] \in {"idle", "added", "failing", "erasing"} =>
         ~Asked(c) /\ unwrapped[c] = "none" /\ ~Replied(c)
    /\ Asked(c) => unwrapped[c] = "none" /\ ~Replied(c)
    /\ Working(c) => ~Replied(c)
    /\ c \in answered => unwrapped[c] # "none"

RepliesDistinct ==
  /\ \A i, j \in DOMAIN toClient : toClient[i].call = toClient[j].call => i = j
  /\ reply # Nothing => \A i \in DOMAIN toClient : toClient[i].call # reply.call

\* Until its reply is handled, the promise of a call stays, unless close takes it.
PromiseKept ==
  sock => \A c \in Calls :
            caller[c] = "added" \/ Asked(c) \/ Working(c) \/ Replied(c) => c \in promises

IInv ==
  /\ RpcTypeOK
  /\ ClosedHasNoSocket
  /\ NoneAfterClose
  /\ HandledOnce
  /\ RepliesTruthful
  /\ ResultsAgree
  /\ CancelArmed
  /\ CancelReaches
  /\ RepliedOnce
  /\ RepliesDistinct
  /\ PromiseKept

-----------------------------------------------------------------------------

\* What a disconnected socket leaves in the strand is a prefix of what was coming.
LEMMA ArrivedIsPrefix ==
  ASSUME NEW S, NEW q \in Seq(S), NEW rest, Arrived(q, rest)
  PROVE  /\ rest \in Seq(S)
         /\ DOMAIN rest \subseteq DOMAIN q
         /\ \A i \in DOMAIN rest : rest[i] = q[i]
<1>1. PICK n \in 0 .. Len(q) : rest = SubSeq(q, 1, n)
  BY DEF Arrived
<1>2. /\ SubSeq(q, 1, n) \in Seq(S)
      /\ Len(SubSeq(q, 1, n)) = n
      /\ \A i \in 1 .. n : SubSeq(q, 1, n)[i] = q[i]
  OBVIOUS
<1> QED
  BY <1>1, <1>2

\* Every variable keeps its type, whatever step is taken.
LEMMA TypeStep == RpcTypeOK /\ [Next]_vars => RpcTypeOK'
<1> SUFFICES ASSUME RpcTypeOK, [Next]_vars PROVE RpcTypeOK'
  OBVIOUS
<1> USE RpcAssumption DEF RpcTypeOK, Results, Futures
<1>0. ASSUME NEW c \in Calls, EncodeFails(c) PROVE RpcTypeOK'
  BY <1>0 DEF EncodeFails, network, server, service
<1>1. ASSUME NEW c \in Calls, MetaCall(c) PROVE RpcTypeOK'
  BY <1>1, SMTT(30) DEF MetaCall, network, server, service
<1>2. ASSUME NEW c \in Calls, SendCall(c) PROVE RpcTypeOK'
  <2>1. [type |-> "call", call |-> c] \in Requests
    BY DEF Requests
  <2> QED
    BY <1>2, <2>1 DEF SendCall, SendRequest, server, service
<1>3. ASSUME NEW c \in Calls, SetOnCancel(c) PROVE RpcTypeOK'
  BY <1>3 DEF SetOnCancel, network, server, service
<1>4. ASSUME NEW c \in Calls, SendFailed(c) PROVE RpcTypeOK'
  BY <1>4 DEF SendFailed, network, server, service
<1>5. ASSUME NEW c \in Calls, ErasePromise(c) PROVE RpcTypeOK'
  BY <1>5 DEF ErasePromise, network, server, service
<1>6. ASSUME NEW c \in Calls, Cancel(c) PROVE RpcTypeOK'
  <2>1. [type |-> "cancel", call |-> c] \in Requests
    BY DEF Requests
  <2>2. toServer' \in Seq(Requests)
    <3>1. CASE sock
      <4>1. SendRequest([type |-> "cancel", call |-> c])
        BY <1>6, <3>1, Zenon DEF Cancel
      <4> QED
        BY <4>1, <2>1 DEF SendRequest
    <3>2. CASE ~sock
      BY <1>6, <3>2 DEF Cancel
    <3> QED
      BY <3>1, <3>2
  <2> QED
    BY <1>6, <2>2 DEF Cancel, server, service
<1>7. ASSUME DispatchReply PROVE RpcTypeOK'
  BY <1>7 DEF DispatchReply, server, service
<1>8. ASSUME HandleReply PROVE RpcTypeOK'
  <2>1. reply.call \in Calls /\ reply.result \in Results
    BY <1>8 DEF HandleReply, Replies
  <2> QED
    BY <1>8, <2>1 DEF HandleReply, Converted, network, server, service
<1>9. ASSUME NEW k \in Closers, CloseSocket(k) PROVE RpcTypeOK'
  BY <1>9 DEF CloseSocket, network, server, service
<1>10. ASSUME NEW k \in Closers, ClosePromises(k) PROVE RpcTypeOK'
  BY <1>10 DEF ClosePromises, network, server, service
<1>11. ASSUME NEW k \in Closers, NEW c \in Calls, ReportError(k, c) PROVE RpcTypeOK'
  <2>1. CASE fut[c] = "running"
    BY <1>11, <2>1 DEF ReportError, network, server, service
  <2>2. CASE fut[c] # "running"
    <3>1. fut' \in [Calls -> Futures]
      BY <1>11, <2>2 DEF ReportError
    <3>2. taken' = [taken EXCEPT ![k] = {}] /\ close' = [close EXCEPT ![k] = "threw"]
      BY <1>11, <2>2 DEF ReportError
    <3> QED
      BY <1>11, <3>1, <3>2 DEF ReportError, network, server, service
  <2> QED
    BY <2>1, <2>2
<1>12. ASSUME LinkLost PROVE RpcTypeOK'
  BY <1>12 DEF LinkLost, client, server, service
<1>13. ASSUME ClientDisconnected PROVE RpcTypeOK'
  <2>1. toClient' \in Seq(Replies)
    BY <1>13, ArrivedIsPrefix DEF ClientDisconnected
  <2> QED
    BY <1>13, <2>1 DEF ClientDisconnected, client, server, service
<1>14. ASSUME ServerDisconnected PROVE RpcTypeOK'
  <2>1. toServer' \in Seq(Requests)
    BY <1>14, ArrivedIsPrefix DEF ServerDisconnected
  <2> QED
    BY <1>14, <2>1 DEF ServerDisconnected, client, server, service
<1>15. ASSUME Unbind PROVE RpcTypeOK'
  BY <1>15 DEF Unbind, network, client, service
<1>16. ASSUME DispatchRequest PROVE RpcTypeOK'
  <2>1. Head(toServer) \in Requests
    BY <1>16 DEF DispatchRequest
  <2>2. [call |-> Head(toServer).call, result |-> "error"] \in Replies
    BY <2>1 DEF Requests, Replies
  <2>3. toClient' \in Seq(Replies)
    <3>1. CASE ~bound /\ Head(toServer).type = "call"
      <4>1. SendReply([call |-> Head(toServer).call, result |-> "error"])
        BY <1>16, <3>1, Zenon DEF DispatchRequest
      <4> QED
        BY <4>1, <2>2 DEF SendReply
    <3>2. CASE ~(~bound /\ Head(toServer).type = "call")
      BY <1>16, <3>2 DEF DispatchRequest
    <3> QED
      BY <3>1, <3>2
  <2>4. toServer' \in Seq(Requests) /\ request' \in {Nothing} \cup Requests
    BY <1>16, <2>1 DEF DispatchRequest
  <2> QED
    BY <1>16, <2>3, <2>4 DEF DispatchRequest, client, service
<1>17. ASSUME HandleCall PROVE RpcTypeOK'
  <2>1. request.call \in Calls
    BY <1>17 DEF HandleCall, Requests
  <2> QED
    BY <1>17, <2>1 DEF HandleCall, network, client
<1>18. ASSUME RefuseCall PROVE RpcTypeOK'
  <2>1. [call |-> request.call, result |-> "error"] \in Replies
    BY <1>18 DEF RefuseCall, Requests, Replies
  <2> QED
    BY <1>18, <2>1 DEF RefuseCall, SendReply, client, service
<1>19. ASSUME HandleCancel PROVE RpcTypeOK'
  <2>1. request.call \in Calls
    BY <1>19 DEF HandleCancel, Requests
  <2> QED
    BY <1>19, <2>1 DEF HandleCancel, network, client
<1>20. ASSUME NEW c \in Calls, RunMethod(c) PROVE RpcTypeOK'
  <2>1. adapter' \in [Calls -> {"none", "connected", "set"}]
    BY <1>20 DEF RunMethod
  <2>2. unwrapped' \in [Calls -> Futures]
    BY <1>20 DEF RunMethod
  <2> QED
    BY <1>20, <2>1, <2>2 DEF RunMethod, network, client
<1>21. ASSUME NEW c \in Calls, AdaptOnCancel(c) PROVE RpcTypeOK'
  BY <1>21 DEF AdaptOnCancel, network, client
<1>22. ASSUME NEW c \in Calls, FinishInner(c) PROVE RpcTypeOK'
  BY <1>22 DEF FinishInner, network, client
<1>23. ASSUME NEW c \in Calls, Answer(c) PROVE RpcTypeOK'
  <2>1. PICK r \in Converted(unwrapped[c]) : SendReply([call |-> c, result |-> r])
    BY <1>23 DEF Answer
  <2>2. [call |-> c, result |-> r] \in Replies
    BY <1>23 DEF Answer, Replies, Converted
  <2> QED
    BY <1>23, <2>1, <2>2 DEF Answer, SendReply, client, service
<1>24. ASSUME UNCHANGED vars PROVE RpcTypeOK'
  BY <1>24 DEF vars, network, client, server, service
<1> QED
  BY <1>0, <1>1, <1>2, <1>3, <1>4, <1>5, <1>6, <1>7, <1>8, <1>9, <1>10, <1>11, <1>12, <1>13,
     <1>14, <1>15, <1>16, <1>17, <1>18, <1>19, <1>20, <1>21, <1>22, <1>23, <1>24
     DEF Next, ClientStep, ClientStrand, CloseStep, ServerStrand, ServiceStep

-----------------------------------------------------------------------------

\* close resets the socket before it takes the promises, and metaCall adds one only
\* while it holds the socket.
LEMMA CloseInvStep ==
  RpcTypeOK /\ ClosedHasNoSocket /\ NoneAfterClose /\ [Next]_vars
    => ClosedHasNoSocket' /\ NoneAfterClose'
<1> SUFFICES ASSUME RpcTypeOK, ClosedHasNoSocket, NoneAfterClose, [Next]_vars
             PROVE  ClosedHasNoSocket' /\ NoneAfterClose'
  OBVIOUS
<1> USE DEF RpcTypeOK, ClosedHasNoSocket, NoneAfterClose
<1>1. ASSUME NEW c \in Calls, MetaCall(c) PROVE ClosedHasNoSocket' /\ NoneAfterClose'
  BY <1>1 DEF MetaCall
<1>2. ASSUME NEW c \in Calls, ErasePromise(c) PROVE ClosedHasNoSocket' /\ NoneAfterClose'
  BY <1>2 DEF ErasePromise
<1>3. ASSUME HandleReply PROVE ClosedHasNoSocket' /\ NoneAfterClose'
  BY <1>3 DEF HandleReply
<1>4. ASSUME NEW k \in Closers, CloseSocket(k) PROVE ClosedHasNoSocket' /\ NoneAfterClose'
  BY <1>4 DEF CloseSocket
<1>5. ASSUME NEW k \in Closers, ClosePromises(k) PROVE ClosedHasNoSocket' /\ NoneAfterClose'
  BY <1>5 DEF ClosePromises
<1>6. ASSUME NEW k \in Closers, NEW c \in Calls, ReportError(k, c)
      PROVE  ClosedHasNoSocket' /\ NoneAfterClose'
  BY <1>6 DEF ReportError
<1>7. ASSUME UNCHANGED <<sock, promises, close>> PROVE ClosedHasNoSocket' /\ NoneAfterClose'
  BY <1>7
<1>8. ASSUME NEW c \in Calls, EncodeFails(c) \/ SendCall(c) \/ SetOnCancel(c) \/ SendFailed(c) \/ Cancel(c)
      PROVE  UNCHANGED <<sock, promises, close>>
  BY <1>8 DEF EncodeFails, SendCall, SetOnCancel, SendFailed, Cancel
<1>9. ASSUME NEW c \in Calls, ServiceStep(c) PROVE UNCHANGED <<sock, promises, close>>
  BY <1>9 DEF ServiceStep, RunMethod, AdaptOnCancel, FinishInner, Answer, client
<1>10. ASSUME \/ LinkLost \/ ClientDisconnected \/ ServerDisconnected \/ Unbind
              \/ ServerStrand \/ DispatchReply \/ UNCHANGED vars
       PROVE  UNCHANGED <<sock, promises, close>>
  BY <1>10 DEF LinkLost, ClientDisconnected, ServerDisconnected, Unbind, ServerStrand,
               DispatchRequest, HandleCall, RefuseCall, HandleCancel, DispatchReply, vars, client
<1> QED
  BY <1>1, <1>2, <1>3, <1>4, <1>5, <1>6, <1>7, <1>8, <1>9, <1>10
     DEF Next, ClientStep, ClientStrand, CloseStep

\* Sending puts a message last; dispatching takes the first.
LEMMA AppendTail ==
  ASSUME NEW S, NEW q \in Seq(S), NEW m \in S
  PROVE  /\ DOMAIN Append(q, m) = DOMAIN q \cup {Len(q) + 1}
         /\ Len(q) + 1 \notin DOMAIN q
         /\ Append(q, m)[Len(q) + 1] = m
         /\ \A i \in DOMAIN q : Append(q, m)[i] = q[i]
         /\ q # <<>> =>
              /\ 1 \in DOMAIN q /\ Head(q) = q[1]
              /\ \A i \in DOMAIN Tail(q) : i + 1 \in DOMAIN q /\ i + 1 # 1 /\ Tail(q)[i] = q[i + 1]
              /\ \A i, j \in DOMAIN Tail(q) : i + 1 = j + 1 => i = j
<1>1. /\ DOMAIN Append(q, m) = DOMAIN q \cup {Len(q) + 1}
      /\ Len(q) + 1 \notin DOMAIN q
      /\ Append(q, m)[Len(q) + 1] = m
      /\ \A i \in DOMAIN q : Append(q, m)[i] = q[i]
  OBVIOUS
<1>2. ASSUME q # <<>>
      PROVE  /\ 1 \in DOMAIN q /\ Head(q) = q[1]
             /\ \A i \in DOMAIN Tail(q) : i + 1 \in DOMAIN q /\ i + 1 # 1 /\ Tail(q)[i] = q[i + 1]
             /\ \A i, j \in DOMAIN Tail(q) : i + 1 = j + 1 => i = j
  BY <1>2
<1> QED
  BY <1>1, <1>2

\* A message is on its way at most once per call, and gone when the call is handled.
LEMMA HandledOnceStep == RpcTypeOK /\ HandledOnce /\ [Next]_vars => HandledOnce'
<1> SUFFICES ASSUME RpcTypeOK, HandledOnce, [Next]_vars PROVE HandledOnce'
  OBVIOUS
<1> USE DEF RpcTypeOK
<1>1. ASSUME NEW c \in Calls, MetaCall(c) PROVE HandledOnce'
  BY <1>1 DEF MetaCall, HandledOnce, InHand, CallOf, network, server, service
<1>2. ASSUME NEW c \in Calls, SendCall(c) PROVE HandledOnce'
  <2> DEFINE m == [type |-> "call", call |-> c]
  <2>1. m \in Requests /\ \A d \in Calls : CallOf(m, d) <=> d = c
    BY DEF Requests, CallOf
  <2>2. /\ UNCHANGED <<unwrapped, request>>
        /\ caller[c] = "added"
        /\ \A d \in Calls : d # c => caller'[d] = caller[d]
        /\ caller'[c] \notin {"idle", "added"}
    BY <1>2 DEF SendCall, server, service
  <2>3. \/ toServer' = toServer
        \/ toServer' = Append(toServer, m)
    BY <1>2 DEF SendCall, SendRequest
  <2>4. CASE toServer' = toServer
    BY <2>2, <2>4 DEF HandledOnce, InHand
  <2>5. CASE toServer' = Append(toServer, m)
    <3> HIDE DEF m
    <3>1. /\ DOMAIN toServer' = DOMAIN toServer \cup {Len(toServer) + 1}
          /\ toServer'[Len(toServer) + 1] = m
          /\ \A i \in DOMAIN toServer : toServer'[i] = toServer[i]
      BY <2>1, <2>5, AppendTail
    <3> QED
      BY <2>1, <2>2, <3>1, Zenon DEF HandledOnce, InHand
  <2> QED
    BY <2>3, <2>4, <2>5
<1>3. ASSUME NEW c \in Calls,
             EncodeFails(c) \/ SetOnCancel(c) \/ SendFailed(c) \/ ErasePromise(c)
      PROVE  HandledOnce'
  BY <1>3 DEF EncodeFails, SetOnCancel, SendFailed, ErasePromise, HandledOnce, InHand, CallOf,
              network, server, service
<1>4. ASSUME NEW c \in Calls, Cancel(c) PROVE HandledOnce'
  <2> DEFINE m == [type |-> "cancel", call |-> c]
  <2>1. m \in Requests /\ \A d \in Calls : ~CallOf(m, d)
    BY DEF Requests, CallOf
  <2>2. UNCHANGED <<unwrapped, request, caller>>
    BY <1>4 DEF Cancel, server, service
  <2>3. \/ toServer' = toServer
        \/ toServer' = Append(toServer, m)
    <3>1. CASE sock
      <4>1. SendRequest(m)
        BY <1>4, <3>1, Zenon DEF Cancel
      <4> QED
        BY <4>1 DEF SendRequest
    <3>2. CASE ~sock
      BY <1>4, <3>2 DEF Cancel
    <3> QED
      BY <3>1, <3>2
  <2>4. CASE toServer' = toServer
    BY <2>2, <2>4 DEF HandledOnce, InHand
  <2>5. CASE toServer' = Append(toServer, m)
    <3> HIDE DEF m
    <3>1. /\ DOMAIN toServer' = DOMAIN toServer \cup {Len(toServer) + 1}
          /\ toServer'[Len(toServer) + 1] = m
          /\ \A i \in DOMAIN toServer : toServer'[i] = toServer[i]
      BY <2>1, <2>5, AppendTail
    <3> QED
      BY <2>1, <2>2, <3>1, Zenon DEF HandledOnce, InHand
  <2> QED
    BY <2>3, <2>4, <2>5
<1>5. ASSUME ServerDisconnected PROVE HandledOnce'
  <2>1. /\ DOMAIN toServer' \subseteq DOMAIN toServer
        /\ \A i \in DOMAIN toServer' : toServer'[i] = toServer[i]
    BY <1>5, ArrivedIsPrefix DEF ServerDisconnected
  <2>2. UNCHANGED <<unwrapped, request, caller>>
    BY <1>5 DEF ServerDisconnected, client, server, service
  <2> QED
    BY <2>1, <2>2, Zenon DEF HandledOnce, InHand
<1>6. ASSUME DispatchRequest PROVE HandledOnce'
  <2>1. /\ 1 \in DOMAIN toServer /\ Head(toServer) = toServer[1]
        /\ \A i \in DOMAIN toServer' :
             i + 1 \in DOMAIN toServer /\ i + 1 # 1 /\ toServer'[i] = toServer[i + 1]
        /\ \A i, j \in DOMAIN toServer' : i + 1 = j + 1 => i = j
    <3>1. toServer # <<>> /\ toServer' = Tail(toServer) /\ toServer[1] \in Requests
      BY <1>6 DEF DispatchRequest
    <3> QED
      BY <3>1, AppendTail
  <2>2. UNCHANGED <<unwrapped, caller>>
    BY <1>6 DEF DispatchRequest, client, service
  <2>3. request = Nothing /\ (request' = toServer[1] \/ request' = Nothing)
    BY <1>6, <2>1 DEF DispatchRequest
  <2>4. ASSUME NEW d \in Calls, InHand(d)' PROVE CallOf(toServer[1], d)
    BY <2>3, <2>4, Zenon DEF InHand
  <2>5. ASSUME NEW d \in Calls, NEW i \in DOMAIN toServer', CallOf(toServer'[i], d)
        PROVE  CallOf(toServer[i + 1], d)
    BY <2>1, <2>5
  <2>6. ASSUME NEW d \in Calls, NEW i \in DOMAIN toServer', CallOf(toServer'[i], d)
        PROVE  /\ ~CallOf(toServer[1], d)
               /\ \A j \in DOMAIN toServer' : CallOf(toServer'[j], d) => j = i
    <3>1. i + 1 \in DOMAIN toServer /\ CallOf(toServer[i + 1], d)
      BY <2>1, <2>5, <2>6
    <3>2. \A n \in DOMAIN toServer : CallOf(toServer[n], d) => n = i + 1
      BY <3>1, Zenon DEF HandledOnce
    <3>3. ASSUME NEW j \in DOMAIN toServer', CallOf(toServer'[j], d) PROVE j = i
      <4>1. j + 1 \in DOMAIN toServer /\ CallOf(toServer[j + 1], d)
        BY <2>1, <2>5, <3>3
      <4> QED
        BY <4>1, <3>2, <2>1
    <3>4. i + 1 # 1 /\ 1 \in DOMAIN toServer
      BY <2>1
    <3> QED
      BY <3>2, <3>3, <3>4
  <2>7. \A d \in Calls : \A i \in DOMAIN toServer :
          CallOf(toServer[i], d) => unwrapped[d] = "none" /\ caller[d] \notin {"idle", "added"}
    BY Zenon DEF HandledOnce
  <2> QED
    BY <2>1, <2>2, <2>4, <2>5, <2>6, <2>7, Zenon DEF HandledOnce
<1>7. ASSUME HandleCall PROVE HandledOnce'
  <2>1. request.call \in Calls /\ InHand(request.call)
    BY <1>7 DEF HandleCall, InHand, CallOf, Requests
  <2>2. /\ UNCHANGED <<toServer, caller>>
        /\ request' = Nothing
        /\ \A d \in Calls : d # request.call => unwrapped'[d] = unwrapped[d]
    BY <1>7 DEF HandleCall, network, client
  <2>3. /\ caller[request.call] \notin {"idle", "added"}
        /\ \A i \in DOMAIN toServer : ~CallOf(toServer[i], request.call)
    BY <2>1, Zenon DEF HandledOnce
  <2> QED
    <3> SUFFICES ASSUME NEW d \in Calls
                 PROVE  /\ caller[d] \in {"idle", "added"} =>
                             /\ unwrapped'[d] = "none"
                             /\ \A i \in DOMAIN toServer : ~CallOf(toServer[i], d)
                        /\ \A i \in DOMAIN toServer : CallOf(toServer[i], d) =>
                             /\ unwrapped'[d] = "none"
                             /\ \A j \in DOMAIN toServer : CallOf(toServer[j], d) => j = i
      BY <2>2, Zenon DEF HandledOnce, InHand
    <3>1. CASE d = request.call
      BY <2>3, <3>1, Zenon
    <3>2. CASE d # request.call
      BY <2>2, <3>2, Zenon DEF HandledOnce
    <3> QED
      BY <3>1, <3>2
<1>8. ASSUME RefuseCall \/ HandleCancel PROVE HandledOnce'
  <2>1. UNCHANGED <<toServer, caller, unwrapped>> /\ request' = Nothing
    BY <1>8 DEF RefuseCall, HandleCancel, network, client, service
  <2> QED
    BY <2>1, Zenon DEF HandledOnce, InHand
<1>9. ASSUME NEW c \in Calls, RunMethod(c) \/ FinishInner(c) PROVE HandledOnce'
  <2>1. /\ UNCHANGED <<toServer, caller, request>>
        /\ unwrapped[c] # "none"
        /\ \A d \in Calls : d # c => unwrapped'[d] = unwrapped[d]
    BY <1>9 DEF RunMethod, FinishInner, network, client
  <2> QED
    BY <2>1, Zenon DEF HandledOnce, InHand
<1>10. ASSUME UNCHANGED <<caller, unwrapped, toServer, request>> PROVE HandledOnce'
  BY <1>10 DEF HandledOnce, InHand
<1>11. ASSUME NEW c \in Calls, AdaptOnCancel(c) \/ Answer(c)
       PROVE  UNCHANGED <<caller, unwrapped, toServer, request>>
  BY <1>11 DEF AdaptOnCancel, Answer, network, client, service
<1>12. ASSUME NEW k \in Closers, CloseSocket(k) \/ CloseStep(k)
       PROVE  UNCHANGED <<caller, unwrapped, toServer, request>>
  BY <1>12 DEF CloseSocket, CloseStep, ClosePromises, ReportError, network, server, service
<1>13. ASSUME LinkLost \/ ClientDisconnected \/ Unbind \/ ClientStrand \/ UNCHANGED vars
       PROVE  UNCHANGED <<caller, unwrapped, toServer, request>>
  BY <1>13 DEF LinkLost, ClientDisconnected, Unbind, ClientStrand, DispatchReply, HandleReply,
               vars, network, client, server, service
<1> QED
  BY <1>1, <1>2, <1>3, <1>4, <1>5, <1>6, <1>7, <1>8, <1>9, <1>10, <1>11, <1>12, <1>13
     DEF Next, ClientStep, ServerStrand, ServiceStep

\* A future of the server that has its result keeps it: its call is not handled again.
LEMMA ResultStays ==
  ASSUME RpcTypeOK, HandledOnce, [Next]_vars, NEW c \in Calls, unwrapped[c] \in Results
  PROVE  unwrapped'[c] = unwrapped[c]
<1> USE DEF RpcTypeOK
<1>1. CASE HandleCall
  <2>1. request.call \in Calls /\ InHand(request.call)
    BY <1>1 DEF HandleCall, InHand, CallOf, Requests
  <2>2. unwrapped[request.call] = "none"
    BY <2>1, Zenon DEF HandledOnce
  <2>3. request.call # c
    BY <2>2 DEF Results
  <2> QED
    BY <1>1, <2>1, <2>3 DEF HandleCall
<1>2. ASSUME NEW d \in Calls, RunMethod(d) \/ FinishInner(d) PROVE unwrapped'[c] = unwrapped[c]
  BY <1>2 DEF RunMethod, FinishInner, Results
<1>3. ASSUME NEW d \in Calls, MetaCall(d) \/ ClientStep(d) \/ Cancel(d) \/ AdaptOnCancel(d) \/ Answer(d)
      PROVE  unwrapped' = unwrapped
  BY <1>3 DEF MetaCall, ClientStep, EncodeFails, SendCall, SetOnCancel, SendFailed, ErasePromise, Cancel,
              AdaptOnCancel, Answer, server, service
<1>4. ASSUME NEW k \in Closers, CloseSocket(k) \/ CloseStep(k) PROVE unwrapped' = unwrapped
  BY <1>4 DEF CloseSocket, CloseStep, ClosePromises, ReportError, server, service
<1>5. ASSUME \/ LinkLost \/ ClientDisconnected \/ ServerDisconnected \/ Unbind
             \/ ClientStrand \/ DispatchRequest \/ RefuseCall \/ HandleCancel \/ UNCHANGED vars
      PROVE  unwrapped' = unwrapped
  BY <1>5 DEF LinkLost, ClientDisconnected, ServerDisconnected, Unbind, ClientStrand,
              DispatchReply, HandleReply, DispatchRequest, RefuseCall, HandleCancel,
              vars, server, service
<1> QED
  BY <1>1, <1>2, <1>3, <1>4, <1>5 DEF Next, ServerStrand, ServiceStep

\* A step that sends at most a true reply and takes at most what was there keeps the
\* replies true.
LEMMA RepliesKept ==
  ASSUME RpcTypeOK, HandledOnce, RepliesTruthful, [Next]_vars,
         \/ toClient' = toClient
         \/ \E m \in Replies : toClient' = Append(toClient, m) /\ Truthful(m),
         reply' = reply
  PROVE  RepliesTruthful'
<1> USE DEF RpcTypeOK
<1>1. ASSUME NEW m \in Replies, Truthful(m) PROVE Truthful(m)'
  <2>1. m.call \in Calls /\ m.result \in Results
    BY DEF Replies
  <2> QED
    BY <1>1, <2>1, ResultStays DEF Truthful
<1>2. \A i \in DOMAIN toClient : toClient[i] \in Replies
  OBVIOUS
<1>3. CASE toClient' = toClient
  BY <1>1, <1>2, <1>3, Zenon DEF RepliesTruthful, Truthful
<1>4. ASSUME NEW m \in Replies, toClient' = Append(toClient, m), Truthful(m)
      PROVE  RepliesTruthful'
  <2>1. /\ DOMAIN toClient' = DOMAIN toClient \cup {Len(toClient) + 1}
        /\ toClient'[Len(toClient) + 1] = m
        /\ \A i \in DOMAIN toClient : toClient'[i] = toClient[i]
    BY <1>4, AppendTail
  <2>2. Truthful(m)' /\ \A i \in DOMAIN toClient : Truthful(toClient[i]) /\ toClient[i] \in Replies
    BY <1>1, <1>2, <1>4, Zenon DEF RepliesTruthful
  <2> QED
    BY <1>1, <2>1, <2>2, Zenon DEF RepliesTruthful, Truthful
<1> QED
  BY <1>3, <1>4

\* The replies on their way and in hand stay true.
LEMMA RepliesStep ==
  RpcTypeOK /\ HandledOnce /\ RepliesTruthful /\ [Next]_vars => RepliesTruthful'
<1> SUFFICES ASSUME RpcTypeOK, HandledOnce, RepliesTruthful, [Next]_vars
             PROVE  RepliesTruthful'
  OBVIOUS
<1> USE DEF RpcTypeOK
<1>1. ASSUME NEW m \in Replies, Truthful(m) PROVE Truthful(m)'
  <2>1. m.call \in Calls /\ m.result \in Results
    BY DEF Replies
  <2> QED
    BY <1>1, <2>1, ResultStays DEF Truthful
<1>2. \A i \in DOMAIN toClient : toClient[i] \in Replies /\ Truthful(toClient[i])
  BY DEF RepliesTruthful
<1>3. ASSUME DispatchReply PROVE RepliesTruthful'
  <2>1. toClient # <<>> /\ toClient' = Tail(toClient) /\ toClient[1] \in Replies
    BY <1>3 DEF DispatchReply
  <2>2. /\ 1 \in DOMAIN toClient /\ Head(toClient) = toClient[1]
        /\ \A i \in DOMAIN toClient' : i + 1 \in DOMAIN toClient /\ toClient'[i] = toClient[i + 1]
    BY <2>1, AppendTail
  <2>3. reply' = toClient[1] \/ reply' = Nothing
    BY <1>3, <2>2 DEF DispatchReply
  <2> DEFINE Still(m) == m.result # "error" => unwrapped'[m.call] = m.result
  <2>4. \A i \in DOMAIN toClient : Still(toClient[i])
    BY <1>1, <1>2, Zenon DEF Truthful
  <2>5. \A i \in DOMAIN toClient' : Still(toClient'[i])
    BY <2>2, <2>4
  <2>6. reply' # Nothing => Still(reply')
    BY <2>2, <2>3, <2>4
  <2> QED
    BY <2>5, <2>6, Zenon DEF RepliesTruthful, Truthful
<1>4. ASSUME HandleReply PROVE RepliesTruthful'
  <2>1. toClient' = toClient /\ reply' = Nothing
    BY <1>4 DEF HandleReply, network
  <2> QED
    BY <1>1, <1>2, <2>1, Zenon DEF RepliesTruthful, Truthful
<1>5. ASSUME ClientDisconnected PROVE RepliesTruthful'
  <2>1. /\ DOMAIN toClient' \subseteq DOMAIN toClient
        /\ \A i \in DOMAIN toClient' : toClient'[i] = toClient[i]
    BY <1>5, ArrivedIsPrefix DEF ClientDisconnected
  <2>2. reply' = reply
    BY <1>5 DEF ClientDisconnected, client
  <2> QED
    BY <1>1, <1>2, <2>1, <2>2, Zenon DEF RepliesTruthful, Truthful
<1>6. ASSUME DispatchRequest PROVE RepliesTruthful'
  <2> DEFINE m == [call |-> Head(toServer).call, result |-> "error"]
  <2>1. m \in Replies /\ Truthful(m)
    <3>1. Head(toServer) \in Requests
      BY <1>6 DEF DispatchRequest
    <3> QED
      BY <3>1 DEF Requests, Replies, Results, Truthful
  <2>2. toClient' = toClient \/ toClient' = Append(toClient, m)
    <3>1. CASE ~bound /\ Head(toServer).type = "call"
      <4>1. SendReply(m)
        BY <1>6, <3>1, Zenon DEF DispatchRequest
      <4> QED
        BY <4>1 DEF SendReply
    <3>2. CASE ~(~bound /\ Head(toServer).type = "call")
      BY <1>6, <3>2 DEF DispatchRequest
    <3> QED
      BY <3>1, <3>2
  <2>3. reply' = reply
    BY <1>6 DEF DispatchRequest, client
  <2> HIDE DEF m
  <2> QED
    BY <2>1, <2>2, <2>3, RepliesKept
<1>7. ASSUME RefuseCall PROVE RepliesTruthful'
  <2> DEFINE m == [call |-> request.call, result |-> "error"]
  <2>1. m \in Replies /\ Truthful(m)
    BY <1>7 DEF RefuseCall, Requests, Replies, Results, Truthful
  <2>2. toClient' = toClient \/ toClient' = Append(toClient, m)
    BY <1>7 DEF RefuseCall, SendReply
  <2>3. reply' = reply
    BY <1>7 DEF RefuseCall, client
  <2> HIDE DEF m
  <2> QED
    BY <2>1, <2>2, <2>3, RepliesKept
<1>8. ASSUME NEW c \in Calls, Answer(c) PROVE RepliesTruthful'
  <2>0. PICK r \in Converted(unwrapped[c]) : SendReply([call |-> c, result |-> r])
    BY <1>8 DEF Answer
  <2> DEFINE m == [call |-> c, result |-> r]
  <2>1. m \in Replies /\ Truthful(m)
    BY <1>8 DEF Answer, Converted, Replies, Results, Truthful
  <2>2. toClient' = toClient \/ toClient' = Append(toClient, m)
    BY <2>0 DEF SendReply
  <2>3. reply' = reply
    BY <1>8 DEF Answer, client
  <2> HIDE DEF m
  <2> QED
    BY <2>1, <2>2, <2>3, RepliesKept
<1>9. ASSUME UNCHANGED <<toClient, reply>> PROVE RepliesTruthful'
  BY <1>9, RepliesKept
<1>10. ASSUME NEW c \in Calls,
              MetaCall(c) \/ ClientStep(c) \/ Cancel(c) \/ RunMethod(c) \/ AdaptOnCancel(c) \/ FinishInner(c)
       PROVE  UNCHANGED <<toClient, reply>>
  BY <1>10 DEF MetaCall, ClientStep, EncodeFails, SendCall, SetOnCancel, SendFailed, ErasePromise, Cancel,
               RunMethod, AdaptOnCancel, FinishInner, network, client
<1>11. ASSUME NEW k \in Closers, CloseSocket(k) \/ CloseStep(k) PROVE UNCHANGED <<toClient, reply>>
  BY <1>11 DEF CloseSocket, CloseStep, ClosePromises, ReportError, network
<1>12. ASSUME LinkLost \/ ServerDisconnected \/ Unbind \/ HandleCall \/ HandleCancel \/ UNCHANGED vars
       PROVE  UNCHANGED <<toClient, reply>>
  BY <1>12 DEF LinkLost, ServerDisconnected, Unbind, HandleCall, HandleCancel, vars, network, client
<1> QED
  BY <1>3, <1>4, <1>5, <1>6, <1>7, <1>8, <1>9, <1>10, <1>11, <1>12
     DEF Next, ClientStrand, ServerStrand, ServiceStep

\* Only a reply gives the caller's future a value or cancels it.
LEMMA ResultsStep ==
  RpcTypeOK /\ HandledOnce /\ RepliesTruthful /\ ResultsAgree /\ [Next]_vars => ResultsAgree'
<1> SUFFICES ASSUME RpcTypeOK, HandledOnce, RepliesTruthful, ResultsAgree, [Next]_vars,
                    NEW d \in Calls, fut'[d] \in {"value", "canceled"}
             PROVE  unwrapped'[d] = fut'[d]
  BY DEF ResultsAgree
<1> USE DEF RpcTypeOK
<1>1. ASSUME fut'[d] = fut[d] PROVE unwrapped'[d] = fut'[d]
  <2>1. unwrapped[d] = fut[d] /\ unwrapped[d] \in Results
    BY <1>1 DEF ResultsAgree, Results
  <2> QED
    BY <1>1, <2>1, ResultStays
<1>2. ASSUME HandleReply PROVE unwrapped'[d] = fut'[d]
  <2>1. CASE fut'[d] = fut[d]
    BY <2>1, <1>1
  <2>2. CASE fut'[d] # fut[d]
    <3>1. reply.call = d /\ fut'[d] = reply.result /\ reply # Nothing
      BY <1>2, <2>2 DEF HandleReply, Converted, Replies
    <3>2. unwrapped[d] = fut'[d] /\ unwrapped[d] \in Results
      BY <3>1 DEF RepliesTruthful, Truthful, Results
    <3> QED
      BY <3>2, ResultStays
  <2> QED
    BY <2>1, <2>2
<1>3. ASSUME NEW c \in Calls, MetaCall(c) \/ SetOnCancel(c) \/ SendFailed(c) PROVE fut'[d] = fut[d]
  BY <1>3 DEF MetaCall, SetOnCancel, SendFailed
<1>4. ASSUME NEW k \in Closers, NEW c \in Calls, ReportError(k, c) PROVE fut'[d] = fut[d]
  BY <1>4 DEF ReportError
<1>5. ASSUME NEW c \in Calls,
             EncodeFails(c) \/ SendCall(c) \/ ErasePromise(c) \/ Cancel(c) \/ ServiceStep(c)
      PROVE  fut' = fut
  BY <1>5 DEF EncodeFails, SendCall, ErasePromise, Cancel, ServiceStep, RunMethod, AdaptOnCancel, FinishInner,
              Answer, client
<1>6. ASSUME NEW k \in Closers, CloseSocket(k) \/ ClosePromises(k) PROVE fut' = fut
  BY <1>6 DEF CloseSocket, ClosePromises
<1>7. ASSUME \/ LinkLost \/ ClientDisconnected \/ ServerDisconnected \/ Unbind
             \/ DispatchReply \/ ServerStrand \/ UNCHANGED vars
      PROVE  fut' = fut
  BY <1>7 DEF LinkLost, ClientDisconnected, ServerDisconnected, Unbind, DispatchReply, ServerStrand,
              DispatchRequest, HandleCall, RefuseCall, HandleCancel, vars, client
<1> QED
  BY <1>1, <1>2, <1>3, <1>4, <1>5, <1>6, <1>7 DEF Next, ClientStep, ClientStrand, CloseStep

\* cancelCall() and handleFuture() in either order, and the end of the future between them.
LEMMA CancelStep ==
  RpcTypeOK /\ HandledOnce /\ CancelArmed /\ CancelReaches /\ [Next]_vars
    => CancelArmed' /\ CancelReaches'
<1> SUFFICES ASSUME RpcTypeOK, HandledOnce, CancelArmed, CancelReaches, [Next]_vars
             PROVE  CancelArmed' /\ CancelReaches'
  OBVIOUS
<1> USE DEF RpcTypeOK
<1>1. CASE HandleCall
  <2> DEFINE c == request.call
  <2>1. c \in Calls /\ InHand(c)
    BY <1>1 DEF HandleCall, InHand, CallOf, Requests
  <2>2. unwrapped[c] = "none" /\ adapter[c] = "none"
    BY <2>1, Zenon DEF HandledOnce, CancelArmed
  <2>3. /\ unwrapped' = [unwrapped EXCEPT ![c] = "running"] /\ toCancel' = [toCancel EXCEPT ![c] = "raw"]
        /\ UNCHANGED <<adapter, innerCancel, cancelReq>>
    BY <1>1 DEF HandleCall
  <2> HIDE DEF c
  <2>4. QED
    BY <2>1, <2>2, <2>3 DEF CancelArmed, CancelReaches
<1>2. CASE HandleCancel
  <2> DEFINE c == request.call
             running == c \in cancelables /\ unwrapped[c] = "running"
  <2>1. c \in Calls
    BY <1>2 DEF HandleCancel, Requests
  <2>2. /\ cancelReq' = IF running THEN cancelReq \cup {c} ELSE cancelReq
        /\ innerCancel' = IF running /\ toCancel[c] = "inner" THEN innerCancel \cup {c} ELSE innerCancel
        /\ toCancel' = IF running THEN [toCancel EXCEPT ![c] = "none"] ELSE toCancel
        /\ UNCHANGED <<adapter, unwrapped>>
    BY <1>2 DEF HandleCancel
  <2>3. CASE running
    BY <2>1, <2>2, <2>3 DEF CancelArmed, CancelReaches
  <2>4. CASE ~running
    BY <2>2, <2>4 DEF CancelArmed, CancelReaches
  <2>5. QED
    BY <2>3, <2>4
<1>3. ASSUME NEW c \in Calls, RunMethod(c) \/ FinishInner(c) PROVE CancelArmed' /\ CancelReaches'
  <2>1. /\ UNCHANGED <<innerCancel, cancelReq, toCancel>> /\ unwrapped[c] = "running"
        /\ \/ unwrapped' = unwrapped /\ adapter' = [adapter EXCEPT ![c] = "connected"]
           \/ adapter' = adapter /\ \E r \in Results : unwrapped' = [unwrapped EXCEPT ![c] = r]
    BY <1>3 DEF RunMethod, FinishInner, Results
  <2>2. QED
    <3>1. CASE unwrapped' = unwrapped /\ adapter' = [adapter EXCEPT ![c] = "connected"]
      BY <2>1, <3>1 DEF CancelArmed, CancelReaches
    <3>2. CASE adapter' = adapter /\ \E r \in Results : unwrapped' = [unwrapped EXCEPT ![c] = r]
      BY <2>1, <3>2 DEF CancelArmed, CancelReaches, Results
    <3> QED
      BY <2>1, <3>1, <3>2
<1>4. ASSUME NEW c \in Calls, AdaptOnCancel(c) PROVE CancelArmed' /\ CancelReaches'
  <2> DEFINE now == c \in cancelReq /\ unwrapped[c] = "running"
  <2>1. /\ adapter[c] = "connected" /\ adapter' = [adapter EXCEPT ![c] = "set"]
        /\ innerCancel' = (IF now THEN innerCancel \cup {c} ELSE innerCancel)
        /\ toCancel' = [toCancel EXCEPT ![c] = IF now THEN "none" ELSE "inner"]
        /\ UNCHANGED <<unwrapped, cancelReq>>
    BY <1>4 DEF AdaptOnCancel
  <2>2. unwrapped[c] \in Results \/ unwrapped[c] = "running"
    BY <2>1 DEF CancelArmed, Futures
  <2>3. CASE now
    BY <2>1, <2>3 DEF CancelArmed, CancelReaches
  <2>4. CASE ~now
    BY <2>1, <2>2, <2>4 DEF CancelArmed, CancelReaches
  <2>5. QED
    BY <2>3, <2>4
<1>5. ASSUME UNCHANGED service PROVE CancelArmed' /\ CancelReaches'
  BY <1>5 DEF CancelArmed, CancelReaches, service
<1>6. ASSUME NEW c \in Calls, MetaCall(c) \/ ClientStep(c) \/ Cancel(c) \/ Answer(c)
      PROVE  UNCHANGED service
  BY <1>6 DEF MetaCall, ClientStep, EncodeFails, SendCall, SetOnCancel, SendFailed, ErasePromise, Cancel,
              Answer, server
<1>7. ASSUME NEW k \in Closers, CloseSocket(k) \/ CloseStep(k) PROVE UNCHANGED service
  BY <1>7 DEF CloseSocket, CloseStep, ClosePromises, ReportError, server
<1>8. ASSUME \/ LinkLost \/ ClientDisconnected \/ ServerDisconnected \/ Unbind
             \/ ClientStrand \/ DispatchRequest \/ RefuseCall \/ UNCHANGED vars
      PROVE  UNCHANGED service
  BY <1>8 DEF LinkLost, ClientDisconnected, ServerDisconnected, Unbind, ClientStrand,
              DispatchReply, HandleReply, DispatchRequest, RefuseCall, vars, server
<1> QED
  BY <1>1, <1>2, <1>3, <1>4, <1>5, <1>6, <1>7, <1>8 DEF Next, ServerStrand, ServiceStep

-----------------------------------------------------------------------------

\* A reply that is sent for a call that had none is the only one of its call.
LEMMA ReplySent ==
  ASSUME RpcTypeOK, RepliesDistinct, NEW m \in Replies, ~Replied(m.call),
         toClient' = toClient \/ toClient' = Append(toClient, m), reply' = reply
  PROVE  /\ RepliesDistinct'
         /\ \A d \in Calls : Replied(d)' => Replied(d) \/ d = m.call
<1> USE DEF RpcTypeOK
<1>1. CASE toClient' = toClient
  BY <1>1 DEF RepliesDistinct, Replied
<1>2. CASE toClient' = Append(toClient, m)
  <2>1. /\ DOMAIN toClient' = DOMAIN toClient \cup {Len(toClient) + 1}
        /\ toClient'[Len(toClient) + 1] = m
        /\ \A i \in DOMAIN toClient : toClient'[i] = toClient[i]
    BY <1>2, AppendTail
  <2> QED
    BY <2>1, ZenonT(60) DEF RepliesDistinct, Replied
<1> QED
  BY <1>1, <1>2

\* The dispatcher of the server takes the only message of a call from the queue.
LEMMA RequestTaken ==
  ASSUME RpcTypeOK, HandledOnce, DispatchRequest
  PROVE  /\ \A d \in Calls : Asked(d)' => Asked(d)
         /\ Head(toServer) \in Requests
         /\ \A d \in Calls : CallOf(Head(toServer), d) => Asked(d) /\ (~bound => ~Asked(d)')
<1> USE DEF RpcTypeOK
<1>1. /\ 1 \in DOMAIN toServer /\ Head(toServer) = toServer[1] /\ toServer[1] \in Requests
      /\ \A i \in DOMAIN toServer' :
           i + 1 \in DOMAIN toServer /\ i + 1 # 1 /\ toServer'[i] = toServer[i + 1]
  <2>1. toServer # <<>> /\ toServer' = Tail(toServer) /\ toServer[1] \in Requests
    BY DEF DispatchRequest
  <2> QED
    BY <2>1, AppendTail
<1>2. request' = (IF bound THEN toServer[1] ELSE Nothing)
  BY <1>1 DEF DispatchRequest
<1>3. \A d \in Calls : Asked(d)' => Asked(d)
  BY <1>1, <1>2, Zenon DEF Asked, InHand
<1>4. ASSUME NEW d \in Calls, CallOf(toServer[1], d)
      PROVE  Asked(d) /\ (~bound => ~Asked(d)')
  <2>1. \A i \in DOMAIN toServer : CallOf(toServer[i], d) => i = 1
    BY <1>1, <1>4, Zenon DEF HandledOnce
  <2> QED
    BY <1>1, <1>2, <1>4, <2>1, Zenon DEF Asked, InHand
<1> QED
  BY <1>1, <1>3, <1>4

\* Steps that move no message and start or answer no call.
LEMMA NothingMoves ==
  ASSUME UNCHANGED <<toServer, request, unwrapped, answered, toClient, reply>>
  PROVE  /\ \A d \in Calls : /\ Asked(d)' = Asked(d) /\ Working(d)' = Working(d)
                             /\ Replied(d)' = Replied(d)
         /\ RepliesDistinct' = RepliesDistinct
BY DEF Asked, InHand, Working, Replied, RepliesDistinct

\* One reply per call, and its promise there: what each step does with the call, its
\* message, its future and its reply.
LEMMA RepliedStep ==
  RpcTypeOK /\ ClosedHasNoSocket /\ HandledOnce /\ RepliedOnce /\ RepliesDistinct /\ PromiseKept
    /\ [Next]_vars => RepliedOnce' /\ RepliesDistinct' /\ PromiseKept'
<1> SUFFICES ASSUME RpcTypeOK, ClosedHasNoSocket, HandledOnce, RepliedOnce, RepliesDistinct,
                    PromiseKept, [Next]_vars
             PROVE  RepliedOnce' /\ RepliesDistinct' /\ PromiseKept'
  OBVIOUS
<1> USE DEF RpcTypeOK
<1> DEFINE Goal == RepliedOnce' /\ RepliesDistinct' /\ PromiseKept'
           Still == UNCHANGED <<toServer, request, unwrapped, answered, toClient, reply>>
<1>1. ASSUME NEW c \in Calls, MetaCall(c) PROVE Goal
  <2>1. Still /\ sock' = sock /\ promises \subseteq promises' /\ caller[c] = "idle"
    BY <1>1 DEF MetaCall, network, server, service
  <2>2. \A d \in Calls : d # c => caller'[d] = caller[d]
    BY <1>1 DEF MetaCall
  <2>3. (caller'[c] = "added" /\ c \in promises') \/ caller'[c] = "returned"
    BY <1>1 DEF MetaCall
  <2>4. RepliedOnce'
    BY <2>1, <2>2, NothingMoves, Zenon DEF RepliedOnce
  <2>5. PromiseKept'
    BY <2>1, <2>2, <2>3, NothingMoves DEF PromiseKept, RepliedOnce
  <2> QED
    BY <2>1, <2>4, <2>5, NothingMoves
<1>2. ASSUME NEW c \in Calls, EncodeFails(c) \/ SetOnCancel(c) \/ SendFailed(c) PROVE Goal
  <2>1. Still /\ UNCHANGED <<sock, promises>>
    BY <1>2 DEF EncodeFails, SetOnCancel, SendFailed, network, server, service
  <2>2. /\ \A d \in Calls : d # c => caller'[d] = caller[d]
        /\ \/ caller'[c] \notin {"idle", "added", "failing", "erasing"}
           \/ caller[c] = "failing" /\ caller'[c] = "erasing"
    BY <1>2 DEF EncodeFails, SetOnCancel, SendFailed
  <2>3. RepliedOnce'
    BY <2>1, <2>2, NothingMoves DEF RepliedOnce
  <2>4. PromiseKept'
    BY <2>1, <2>2, NothingMoves DEF PromiseKept
  <2> QED
    BY <2>1, <2>3, <2>4, NothingMoves
<1>3. ASSUME NEW c \in Calls, ErasePromise(c) PROVE Goal
  <2>1. Still /\ sock' = sock /\ promises' = promises \ {c} /\ caller[c] = "erasing"
    BY <1>3 DEF ErasePromise, network, server, service
  <2>2. caller'[c] = "returned" /\ \A d \in Calls : d # c => caller'[d] = caller[d]
    BY <1>3 DEF ErasePromise
  <2>3. RepliedOnce'
    BY <2>1, <2>2, NothingMoves DEF RepliedOnce
  <2>4. ~Asked(c) /\ ~Working(c) /\ ~Replied(c)
    BY <2>1 DEF RepliedOnce, Working
  <2>5. PromiseKept'
    BY <2>1, <2>2, <2>4, NothingMoves DEF PromiseKept
  <2> QED
    BY <2>1, <2>3, <2>5, NothingMoves
<1>4. ASSUME NEW c \in Calls, SendCall(c) PROVE Goal
  <2> DEFINE m == [type |-> "call", call |-> c]
  <2>1. m \in Requests /\ \A d \in Calls : CallOf(m, d) <=> d = c
    BY DEF Requests, CallOf
  <2>2. /\ UNCHANGED <<sock, promises, request, unwrapped, answered, toClient, reply>>
        /\ caller[c] = "added" /\ \A d \in Calls : d # c => caller'[d] = caller[d]
    BY <1>4 DEF SendCall, server, service
  <2>3. \/ toServer' = toServer /\ caller'[c] \in {"sent", "failing"}
        \/ toServer' = Append(toServer, m) /\ caller'[c] = "sent"
    BY <1>4 DEF SendCall, SendRequest
  <2>4. \A d \in Calls : Asked(d)' => Asked(d) \/ (d = c /\ caller'[c] = "sent")
    <3>1. CASE toServer' = toServer
      BY <2>2, <3>1 DEF Asked, InHand
    <3>2. CASE toServer' = Append(toServer, m) /\ caller'[c] = "sent"
      <4> HIDE DEF m
      <4>1. /\ DOMAIN toServer' = DOMAIN toServer \cup {Len(toServer) + 1}
            /\ toServer'[Len(toServer) + 1] = m
            /\ \A i \in DOMAIN toServer : toServer'[i] = toServer[i]
        BY <2>1, <3>2, AppendTail
      <4> QED
        BY <2>1, <2>2, <3>2, <4>1, ZenonT(60) DEF Asked, InHand
    <3> QED
      BY <2>3, <3>1, <3>2
  <2>5. \A d \in Calls : Working(d)' = Working(d) /\ Replied(d)' = Replied(d)
    BY <2>2 DEF Working, Replied
  <2>6. RepliedOnce'
    BY <2>2, <2>4, <2>5 DEF RepliedOnce
  <2>7. PromiseKept'
    BY <2>2, <2>3, <2>4, <2>5 DEF PromiseKept
  <2>8. RepliesDistinct'
    BY <2>2 DEF RepliesDistinct
  <2> QED
    BY <2>6, <2>7, <2>8
<1>5. ASSUME NEW c \in Calls, Cancel(c) PROVE Goal
  <2> DEFINE m == [type |-> "cancel", call |-> c]
  <2>1. m \in Requests /\ \A d \in Calls : ~CallOf(m, d)
    BY DEF Requests, CallOf
  <2>2. UNCHANGED <<sock, promises, caller, request, unwrapped, answered, toClient, reply>>
    BY <1>5 DEF Cancel, server, service
  <2>3. toServer' = toServer \/ toServer' = Append(toServer, m)
    <3>1. CASE sock
      <4>1. SendRequest(m)
        BY <1>5, <3>1, Zenon DEF Cancel
      <4> QED
        BY <4>1 DEF SendRequest
    <3>2. CASE ~sock
      BY <1>5, <3>2 DEF Cancel
    <3> QED
      BY <3>1, <3>2
  <2>4. \A d \in Calls : Asked(d)' => Asked(d)
    <3>1. CASE toServer' = toServer
      BY <2>2, <3>1 DEF Asked, InHand
    <3>2. CASE toServer' = Append(toServer, m)
      <4> HIDE DEF m
      <4>1. /\ DOMAIN toServer' = DOMAIN toServer \cup {Len(toServer) + 1}
            /\ toServer'[Len(toServer) + 1] = m
            /\ \A i \in DOMAIN toServer : toServer'[i] = toServer[i]
        BY <2>1, <3>2, AppendTail
      <4> QED
        BY <2>1, <2>2, <4>1, Zenon DEF Asked, InHand
    <3> QED
      BY <2>3, <3>1, <3>2
  <2>5. \A d \in Calls : Working(d)' = Working(d) /\ Replied(d)' = Replied(d)
    BY <2>2 DEF Working, Replied
  <2> QED
    BY <2>2, <2>4, <2>5 DEF RepliedOnce, PromiseKept, RepliesDistinct
<1>6. ASSUME ServerDisconnected \/ HandleCancel PROVE Goal
  <2>1. UNCHANGED <<sock, promises, caller, unwrapped, answered, toClient, reply>>
    BY <1>6 DEF ServerDisconnected, HandleCancel, network, client, server, service
  <2>2. \/ request' = request
        \/ request' = Nothing
    BY <1>6 DEF ServerDisconnected, HandleCancel, server
  <2>3. /\ DOMAIN toServer' \subseteq DOMAIN toServer
        /\ \A i \in DOMAIN toServer' : toServer'[i] = toServer[i]
    BY <1>6, ArrivedIsPrefix DEF ServerDisconnected, HandleCancel, network
  <2>4. \A d \in Calls : Asked(d)' => Asked(d)
    BY <2>2, <2>3, Zenon DEF Asked, InHand
  <2>5. \A d \in Calls : Working(d)' = Working(d) /\ Replied(d)' = Replied(d)
    BY <2>1 DEF Working, Replied
  <2> QED
    BY <2>1, <2>4, <2>5 DEF RepliedOnce, PromiseKept, RepliesDistinct
<1>7. ASSUME DispatchRequest PROVE Goal
  <2>1. UNCHANGED <<sock, promises, caller, unwrapped, answered, reply>>
    BY <1>7 DEF DispatchRequest, client, service
  <2>2. \A d \in Calls : Working(d)' = Working(d)
    BY <2>1 DEF Working
  <2>3. CASE ~bound /\ Head(toServer).type = "call"
    <3>0. PICK c \in Calls : c = Head(toServer).call /\ CallOf(Head(toServer), c)
      BY <1>7, <2>3, RequestTaken DEF Requests, CallOf
    <3> DEFINE m == [call |-> c, result |-> "error"]
    <3>1. m \in Replies /\ m.call = c
      BY DEF Replies, Results
    <3>2. Asked(c) /\ ~Asked(c)'
      BY <1>7, <2>3, <3>0, RequestTaken
    <3>3. toClient' = toClient \/ toClient' = Append(toClient, m)
      <4>1. SendReply(m)
        BY <1>7, <2>3, <3>0, Zenon DEF DispatchRequest
      <4> QED
        BY <4>1 DEF SendReply
    <3> HIDE DEF m
    <3>4. ~Replied(c) /\ ~Working(c) /\ unwrapped[c] = "none"
      BY <3>2 DEF RepliedOnce, Working
    <3>5. /\ RepliesDistinct'
          /\ \A d \in Calls : Replied(d)' => Replied(d) \/ d = c
      BY <2>1, <3>1, <3>3, <3>4, ReplySent
    <3>6. caller[c] \notin {"idle", "added", "failing", "erasing"}
      BY <3>2 DEF RepliedOnce
    <3>7. RepliedOnce'
      BY <1>7, <2>1, <2>2, <3>1, <3>2, <3>4, <3>5, <3>6, RequestTaken DEF RepliedOnce
    <3>8. PromiseKept'
      BY <1>7, <2>1, <2>2, <3>2, <3>5, RequestTaken DEF PromiseKept
    <3> QED
      BY <3>5, <3>7, <3>8
  <2>4. CASE ~(~bound /\ Head(toServer).type = "call")
    <3>1. toClient' = toClient
      BY <1>7, <2>4 DEF DispatchRequest
    <3>2. \A d \in Calls : Replied(d)' = Replied(d)
      BY <2>1, <3>1 DEF Replied
    <3> QED
      BY <1>7, <2>1, <2>2, <3>1, <3>2, RequestTaken DEF RepliedOnce, PromiseKept, RepliesDistinct
  <2> QED
    BY <2>3, <2>4
<1>8. ASSUME HandleCall PROVE Goal
  <2>1. /\ request.call \in Calls /\ InHand(request.call)
        /\ UNCHANGED <<sock, promises, caller, toServer, answered, toClient, reply>>
        /\ request' = Nothing /\ unwrapped' = [unwrapped EXCEPT ![request.call] = "running"]
    BY <1>8 DEF HandleCall, InHand, CallOf, Requests, network, client
  <2>0. \A i \in DOMAIN toServer : ~CallOf(toServer[i], request.call)
    BY <2>1, Zenon DEF HandledOnce
  <2>2. \A d \in Calls : Asked(d)' => Asked(d) /\ d # request.call
    BY <2>0, <2>1, Zenon DEF Asked, InHand
  <2>3. Asked(request.call)
    BY <2>1 DEF Asked
  <2>4. \A d \in Calls : Working(d)' => Working(d) \/ d = request.call
    BY <2>1 DEF Working
  <2>5. \A d \in Calls : Replied(d)' = Replied(d)
    BY <2>1 DEF Replied
  <2>6. \A d \in Calls : d # request.call => unwrapped'[d] = unwrapped[d]
    BY <2>1
  <2>7. unwrapped'[request.call] = "running"
    BY <2>1
  <2>8. RepliedOnce'
    BY <2>1, <2>2, <2>3, <2>4, <2>5, <2>6, <2>7 DEF RepliedOnce
  <2>9. PromiseKept'
    BY <2>1, <2>2, <2>3, <2>4, <2>5 DEF PromiseKept
  <2>10. RepliesDistinct'
    BY <2>1 DEF RepliesDistinct
  <2> QED
    BY <2>8, <2>9, <2>10
<1>9. ASSUME RefuseCall PROVE Goal
  <2> DEFINE m == [call |-> request.call, result |-> "error"]
  <2>1. /\ m \in Replies /\ m.call \in Calls /\ m.call = request.call /\ InHand(m.call)
        /\ UNCHANGED <<sock, promises, caller, toServer, unwrapped, answered, reply>>
        /\ request' = Nothing
    BY <1>9 DEF RefuseCall, InHand, CallOf, Requests, Replies, Results, client, service
  <2>2. toClient' = toClient \/ toClient' = Append(toClient, m)
    BY <1>9 DEF RefuseCall, SendReply
  <2> HIDE DEF m
  <2>0. \A i \in DOMAIN toServer : ~CallOf(toServer[i], m.call)
    BY <2>1, Zenon DEF HandledOnce
  <2>3. \A d \in Calls : Asked(d)' => Asked(d) /\ d # m.call
    BY <2>0, <2>1, Zenon DEF Asked, InHand
  <2>4. Asked(m.call)
    BY <2>1 DEF Asked
  <2>5. \A d \in Calls : Working(d)' = Working(d)
    BY <2>1 DEF Working
  <2>6. ~Replied(m.call) /\ ~Working(m.call) /\ unwrapped[m.call] = "none"
    BY <2>1, <2>4 DEF RepliedOnce, Working
  <2>7. /\ RepliesDistinct'
        /\ \A d \in Calls : Replied(d)' => Replied(d) \/ d = m.call
    BY <2>1, <2>2, <2>6, ReplySent
  <2>8. RepliedOnce'
    BY <2>1, <2>3, <2>4, <2>5, <2>6, <2>7 DEF RepliedOnce
  <2>9. PromiseKept'
    BY <2>1, <2>3, <2>4, <2>5, <2>7 DEF PromiseKept
  <2> QED
    BY <2>7, <2>8, <2>9
<1>10. ASSUME NEW c \in Calls, RunMethod(c) \/ FinishInner(c) PROVE Goal
  <2>1. UNCHANGED <<sock, promises, caller, toServer, request, answered, toClient, reply>>
    BY <1>10 DEF RunMethod, FinishInner, network, client
  <2>2. \A d \in Calls : unwrapped'[d] = "none" <=> unwrapped[d] = "none"
    BY <1>10 DEF RunMethod, FinishInner, Results
  <2>3. \A d \in Calls : /\ Asked(d)' <=> Asked(d)
                         /\ Working(d)' <=> Working(d)
                         /\ Replied(d)' <=> Replied(d)
    BY <2>1, <2>2 DEF Asked, InHand, Working, Replied
  <2>4. RepliedOnce'
    BY <2>1, <2>2, <2>3 DEF RepliedOnce
  <2> QED
    BY <2>1, <2>3, <2>4 DEF PromiseKept, RepliesDistinct
<1>11. ASSUME NEW c \in Calls, Answer(c) PROVE Goal
  <2>1. /\ UNCHANGED <<sock, promises, caller, toServer, request, unwrapped, reply>>
        /\ unwrapped[c] \in Results /\ c \notin answered /\ answered' = answered \cup {c}
    BY <1>11 DEF Answer, client, service
  <2>2. PICK r \in Converted(unwrapped[c]) : SendReply([call |-> c, result |-> r])
    BY <1>11 DEF Answer
  <2> DEFINE m == [call |-> c, result |-> r]
  <2>3. m \in Replies /\ m.call = c
    BY <2>1 DEF Converted, Replies, Results
  <2>4. toClient' = toClient \/ toClient' = Append(toClient, m)
    BY <2>2 DEF SendReply
  <2> HIDE DEF m
  <2>5. Working(c) /\ unwrapped[c] # "none"
    BY <2>1 DEF Working, Results
  <2>6. ~Replied(c) /\ ~Asked(c) /\ caller[c] \notin {"idle", "added", "failing", "erasing"}
    BY <2>5 DEF RepliedOnce
  <2>7. /\ RepliesDistinct'
        /\ \A d \in Calls : Replied(d)' => Replied(d) \/ d = c
    BY <2>1, <2>3, <2>4, <2>6, ReplySent
  <2>8. \A d \in Calls : /\ Asked(d)' <=> Asked(d)
                         /\ Working(d)' => Working(d) /\ d # c
    BY <2>1 DEF Asked, InHand, Working
  <2>9. RepliedOnce'
    BY <2>1, <2>5, <2>6, <2>7, <2>8 DEF RepliedOnce
  <2>10. PromiseKept'
    BY <2>1, <2>5, <2>7, <2>8 DEF PromiseKept
  <2> QED
    BY <2>7, <2>9, <2>10
<1>12. ASSUME ClientDisconnected PROVE Goal
  <2>1. /\ DOMAIN toClient' \subseteq DOMAIN toClient
        /\ \A i \in DOMAIN toClient' : toClient'[i] = toClient[i]
    BY <1>12, ArrivedIsPrefix DEF ClientDisconnected
  <2>2. UNCHANGED <<sock, promises, caller, toServer, request, unwrapped, answered, reply>>
    BY <1>12 DEF ClientDisconnected, client, server, service
  <2>3. \A d \in Calls : /\ Asked(d)' <=> Asked(d)
                         /\ Working(d)' <=> Working(d)
    BY <2>2 DEF Asked, InHand, Working
  <2>4. /\ \A d \in Calls : Replied(d)' => Replied(d)
        /\ RepliesDistinct'
    BY <2>1, <2>2, Zenon DEF Replied, RepliesDistinct
  <2> QED
    BY <2>2, <2>3, <2>4 DEF RepliedOnce, PromiseKept
<1>13. ASSUME DispatchReply PROVE Goal
  <2>1. toClient # <<>> /\ toClient' = Tail(toClient) /\ toClient[1] \in Replies
    BY <1>13 DEF DispatchReply
  <2>2. /\ 1 \in DOMAIN toClient /\ Head(toClient) = toClient[1]
        /\ \A i \in DOMAIN toClient' :
             i + 1 \in DOMAIN toClient /\ i + 1 # 1 /\ toClient'[i] = toClient[i + 1]
        /\ \A i, j \in DOMAIN toClient' : i + 1 = j + 1 => i = j
    BY <2>1, AppendTail
  <2>3. /\ UNCHANGED <<sock, promises, caller, toServer, request, unwrapped, answered>>
        /\ reply' = toClient[1] \/ reply' = Nothing
    BY <1>13, <2>2 DEF DispatchReply, server, service
  <2>4. \A d \in Calls : /\ Asked(d)' <=> Asked(d)
                         /\ Working(d)' <=> Working(d)
    BY <2>3 DEF Asked, InHand, Working
  <2>5. \A d \in Calls : Replied(d)' => Replied(d)
    <3>1. ASSUME NEW d \in Calls, NEW i \in DOMAIN toClient', toClient'[i].call = d
          PROVE  \E j \in DOMAIN toClient : toClient[j].call = d
      <4>1. i + 1 \in DOMAIN toClient /\ toClient[i + 1].call = d
        BY <2>2, <3>1
      <4> QED
        BY <4>1
    <3>2. ASSUME NEW d \in Calls, reply' # Nothing, reply'.call = d
          PROVE  \E j \in DOMAIN toClient : toClient[j].call = d
      BY <2>2, <2>3, <3>2
    <3> QED
      BY <3>1, <3>2 DEF Replied
  <2>6. RepliesDistinct'
    <3>1. ASSUME NEW i \in DOMAIN toClient', NEW j \in DOMAIN toClient',
                 toClient'[i].call = toClient'[j].call
          PROVE  i = j
      BY <2>2, <3>1 DEF RepliesDistinct
    <3>2. \A i \in DOMAIN toClient' : toClient'[i].call # toClient[1].call
      BY <2>2 DEF RepliesDistinct
    <3> QED
      BY <2>3, <3>1, <3>2, Zenon DEF RepliesDistinct
  <2> QED
    BY <2>3, <2>4, <2>5, <2>6 DEF RepliedOnce, PromiseKept
<1>14. ASSUME HandleReply PROVE Goal
  <2>1. /\ reply # Nothing /\ reply' = Nothing /\ promises' = promises \ {reply.call}
        /\ UNCHANGED <<sock, caller, toServer, request, unwrapped, answered, toClient>>
        /\ reply.call \in Calls
    BY <1>14 DEF HandleReply, Replies, network, server, service
  <2>2. \A d \in Calls : /\ Asked(d)' <=> Asked(d)
                         /\ Working(d)' <=> Working(d)
    BY <2>1 DEF Asked, InHand, Working
  <2>3. \A d \in Calls : Replied(d)' => Replied(d) /\ d # reply.call
    BY <2>1, Zenon DEF Replied, RepliesDistinct
  <2>4. Replied(reply.call)
    BY <2>1 DEF Replied
  <2>5. ~Asked(reply.call) /\ ~Working(reply.call) /\ caller[reply.call] # "added"
    BY <2>1, <2>4 DEF RepliedOnce
  <2>6. RepliedOnce'
    BY <2>1, <2>2, <2>3 DEF RepliedOnce
  <2>7. PromiseKept'
    BY <2>1, <2>2, <2>3, <2>5 DEF PromiseKept
  <2>8. RepliesDistinct'
    BY <2>1 DEF RepliesDistinct
  <2> QED
    BY <2>6, <2>7, <2>8
<1>15. ASSUME NEW k \in Closers, CloseSocket(k) \/ CloseStep(k) PROVE Goal
  <2>1. Still /\ caller' = caller
    BY <1>15 DEF CloseSocket, CloseStep, ClosePromises, ReportError, network, server, service
  <2>2. sock' => sock /\ promises' = promises
    BY <1>15 DEF CloseSocket, CloseStep, ClosePromises, ReportError, ClosedHasNoSocket
  <2> QED
    BY <2>1, <2>2, NothingMoves DEF RepliedOnce, PromiseKept
<1>16. ASSUME Still /\ UNCHANGED <<sock, promises, caller>> PROVE Goal
  BY <1>16, NothingMoves DEF RepliedOnce, PromiseKept
<1>17. ASSUME LinkLost \/ Unbind \/ (\E c \in Calls : AdaptOnCancel(c)) \/ UNCHANGED vars
       PROVE  Still /\ UNCHANGED <<sock, promises, caller>>
  BY <1>17 DEF LinkLost, Unbind, AdaptOnCancel, vars, network, client, server, service
<1> QED
  <2> HIDE DEF Goal, Still
  <2>1. Goal
    BY <1>1, <1>2, <1>3, <1>4, <1>5, <1>6, <1>7, <1>8, <1>9, <1>10, <1>11, <1>12, <1>13, <1>14,
       <1>15, <1>16, <1>17 DEF Next, ClientStep, ClientStrand, ServerStrand, ServiceStep
  <2> QED
    BY <2>1 DEF Goal

-----------------------------------------------------------------------------

\* Before the first call there is nothing to answer or to cancel.
LEMMA RpcInitInv == Init => IInv
  BY RpcAssumption DEF Init, IInv, RpcTypeOK, ClosedHasNoSocket, NoneAfterClose, HandledOnce, InHand,
     RepliesTruthful, ResultsAgree, CancelArmed, CancelReaches, RepliedOnce, RepliesDistinct,
     PromiseKept, Asked, Working, Replied, Futures, Results

\* The invariant of a remote object, its service and their connection.
LEMMA RpcInductive == Spec => []IInv
<1>1. IInv /\ [Next]_vars => IInv'
  BY TypeStep, CloseInvStep, HandledOnceStep, RepliesStep, ResultsStep, CancelStep, RepliedStep DEF IInv
<1> QED
  BY RpcInitInv, <1>1, PTL DEF Spec

\* Every variable of the two ends and of the connection keeps its type.
THEOREM RpcTypeCorrect == Spec => []RpcTypeOK
<1>1. IInv => RpcTypeOK
  BY DEF IInv
<1> QED
  BY <1>1, RpcInductive, PTL

\* RemoteObject::close leaves no promise behind that a concurrent metaCall added.
THEOREM NoneAfterCloseCorrect == Spec => []NoneAfterClose
<1>1. IInv => NoneAfterClose
  BY DEF IInv
<1> QED
  BY <1>1, RpcInductive, PTL

\* The service runs a method at most once for a call.
THEOREM AtMostOnceCorrect == Spec => AtMostOnce
<1>1. IInv /\ [Next]_vars => [HandleCall => unwrapped[request.call] = "none"]_vars
  <2> SUFFICES ASSUME IInv, HandleCall PROVE unwrapped[request.call] = "none"
    OBVIOUS
  <2>1. request.call \in Calls /\ InHand(request.call)
    BY DEF IInv, RpcTypeOK, HandleCall, InHand, CallOf, Requests
  <2> QED
    BY <2>1, Zenon DEF IInv, HandledOnce
<1> QED
  BY <1>1, RpcInductive, PTL DEF Spec, AtMostOnce

\* A remote call ends with a value, or canceled, only when the call of the service's
\* method ended that way.
THEOREM ResultsCorrect == Spec => []ResultsAgree
<1>1. IInv => ResultsAgree
  BY DEF IInv
<1> QED
  BY <1>1, RpcInductive, PTL

\* A cancel request that cancelCall() has recorded reaches the future the method
\* returned, whether it came before or after handleFuture() has set the callback.
THEOREM CancelCorrect == Spec => []CancelReaches
<1>1. IInv => CancelReaches
  BY DEF IInv
<1> QED
  BY <1>1, RpcInductive, PTL

\* "no promise found" is not logged: while the remote object is open, a reply that comes
\* is the only one of its call and finds the promise that metaCall has recorded.
THEOREM ReplyExpectedCorrect == Spec => []ReplyExpected
<1>1. IInv => ReplyExpected
  <2> SUFFICES ASSUME IInv, sock PROVE ReplyExpected
    BY DEF ReplyExpected
  <2>1. \A i \in DOMAIN toClient : toClient[i].call \in Calls /\ Replied(toClient[i].call)
    <3>1. \A i \in DOMAIN toClient : toClient[i] \in Replies
      BY DEF IInv, RpcTypeOK
    <3> QED
      BY <3>1, Zenon DEF Replies, Replied
  <2>2. reply # Nothing => reply.call \in Calls /\ Replied(reply.call)
    BY DEF IInv, RpcTypeOK, Replies, Replied
  <2> QED
    BY <2>1, <2>2 DEF IInv, PromiseKept, RepliesDistinct, ReplyExpected
<1> QED
  BY <1>1, RpcInductive, PTL

-----------------------------------------------------------------------------
(* The server that holds the bound objects: which sockets reach which of   *)
(* them, for any objects, sockets and bounds.                              *)

\* Unless the server is opened in between, no task runs while close() clears.
Quiescent ==
  ~raced => /\ closing # "no" => ~strand
            /\ closing = "bindings" => authenticated = {}

\* What ties the authenticated sockets to the bindings: both stay within the
\* sockets of the server.
Bound ==
  /\ authenticated \subseteq known
  /\ bindings \subseteq Objects \X Sockets
  /\ objects \subseteq Objects /\ known \subseteq Sockets
  /\ BindingsExact
  /\ DoneIsServed
  /\ Quiescent

\* The server starts with nothing.
LEMMA InitBound == ServerInit => Bound
  BY DEF ServerInit, Bound, BindingsExact, DoneIsServed, Quiescent, life

\* Objects are added with their bindings to all the sockets, and removed with all
\* of theirs.
LEMMA ObjectsKeepBound ==
  ASSUME Bound, NEW o \in Objects,
         addObject(o) \/ removeObject(o) \/ DoAddObject(o) \/ DoRemoveObject(o)
  PROVE  Bound'
<1>1. CASE addObject(o) \/ removeObject(o)
  BY <1>1 DEF addObject, removeObject, binder, Bound, BindingsExact,
     DoneIsServed, Quiescent, life
<1>2. CASE DoAddObject(o)
  <2>1. /\ objects' = objects \cup {o} /\ UNCHANGED <<life, known, authenticated>> /\ strand
        /\ bindings' = bindings \/ bindings' = bindings \cup ({o} \X known)
        /\ o \notin objects => bindings' = bindings \cup ({o} \X known)
    BY <1>2 DEF DoAddObject, bindObject, Runs
  <2>2. QED
    BY <2>1 DEF Bound, BindingsExact, DoneIsServed, Quiescent, life
<1>3. CASE DoRemoveObject(o)
  <2>1. /\ objects' = objects \ {o} /\ UNCHANGED <<life, known, authenticated>> /\ strand
        /\ bindings' = {p \in bindings : p[1] # o}
    BY <1>3 DEF DoRemoveObject, unbindObject, Runs
  <2>2. QED
    BY <2>1 DEF Bound, BindingsExact, DoneIsServed, Quiescent, life
<1>4. QED
  BY <1>1, <1>2, <1>3

\* A socket comes unbound and not authenticated, and leaves with its bindings.
LEMMA SocketsKeepBound ==
  ASSUME Bound, NEW k \in Sockets,
         \/ newConnection(k) \/ addOutgoingSocket(k) \/ SocketDown(k)
         \/ addIncomingSocket(k) \/ DoAddOutgoingSocket(k) \/ removeSocket(k)
  PROVE  Bound'
<1>1. CASE newConnection(k) \/ addOutgoingSocket(k) \/ SocketDown(k)
  BY <1>1 DEF newConnection, addOutgoingSocket, SocketDown, binder, Bound,
     BindingsExact, DoneIsServed, Quiescent, life
<1>2. CASE addIncomingSocket(k) \/ DoAddOutgoingSocket(k)
  <2>1. known' = known \cup {k} /\ UNCHANGED <<life, objects, authenticated, bindings>>
    BY <1>2 DEF addIncomingSocket, DoAddOutgoingSocket, addSocket
  <2>2. QED
    BY <2>1 DEF Bound, BindingsExact, DoneIsServed, Quiescent, life
<1>3. CASE removeSocket(k)
  <2>1. /\ known' = known \ {k} /\ authenticated' = authenticated \ {k}
        /\ bindings' = IF k \in known THEN {p \in bindings : p[2] # k} ELSE bindings
        /\ UNCHANGED <<life, objects>>
    BY <1>3 DEF removeSocket, unbindSocket
  <2>2. QED
    BY <2>1 DEF Bound, BindingsExact, DoneIsServed, Quiescent, life
<1>4. QED
  BY <1>1, <1>2, <1>3

\* A socket is authenticated in the step that binds it to every object.
LEMMA MessagesKeepBound ==
  ASSUME Bound, NEW k \in Clients, handleServerMessage(k)
  PROVE  Bound'
<1>0. strand /\ UNCHANGED life
  BY DEF handleServerMessage, Runs
<1>1. \/ UNCHANGED binder
      \/ /\ k \in known /\ bindings' = bindings \cup (objects \X {k})
         /\ authenticated' = authenticated \cup {k} /\ UNCHANGED <<known, objects>>
  BY DEF handleServerMessage, Ignore, handleServerMessageAuth,
         handleServerMessageNoAuth, authenticateSocket, sendAuthError,
         finalizeSocketAuthentication, bindSocket
<1>2. CASE UNCHANGED binder
  BY <1>0, <1>2 DEF binder, Bound, BindingsExact, DoneIsServed, Quiescent, life
<1>3. CASE /\ k \in known /\ bindings' = bindings \cup (objects \X {k})
           /\ authenticated' = authenticated \cup {k} /\ UNCHANGED <<known, objects>>
  BY <1>0, <1>3 DEF Bound, BindingsExact, DoneIsServed, Quiescent, life
<1>4. QED
  BY <1>1, <1>2, <1>3

\* Every step keeps objects, sockets and bindings within one another.
LEMMA NextKeepsBound == Bound /\ [ServerNext]_serverVars => Bound'
<1> SUFFICES ASSUME Bound, [ServerNext]_serverVars PROVE Bound'
  OBVIOUS
<1>1. CASE \E o \in Objects : addObject(o) \/ removeObject(o)
                                \/ DoAddObject(o) \/ DoRemoveObject(o)
  BY <1>1, ObjectsKeepBound
<1>2. CASE \E k \in Clients : newConnection(k) \/ addIncomingSocket(k)
  BY <1>2, SocketsKeepBound DEF Sockets
<1>3. CASE \E k \in Clients : handleServerMessage(k)
  BY <1>3, MessagesKeepBound
<1>4. CASE \E k \in Clients : \E m \in {"auth", "other"} : Send(k, m)
  BY <1>4 DEF Send, binder, Bound, BindingsExact, DoneIsServed, Quiescent, life
<1>5. CASE \E k \in Outgoing : addOutgoingSocket(k) \/ DoAddOutgoingSocket(k)
  BY <1>5, SocketsKeepBound DEF Sockets
<1>6. CASE \E k \in Sockets : removeSocket(k) \/ SocketDown(k)
  BY <1>6, SocketsKeepBound
<1>7. CASE closeImpl \/ open
  BY <1>7 DEF closeImpl, open, binder, Bound, BindingsExact, DoneIsServed, Quiescent, life
<1>8. CASE clearSockets \/ clearBindings
  BY <1>8 DEF clearSockets, clearBindings, Bound, BindingsExact, DoneIsServed, Quiescent, life
<1>9. CASE UNCHANGED serverVars
  BY <1>9 DEF serverVars, binder, Bound, BindingsExact, DoneIsServed, Quiescent, life
<1>10. QED
  BY <1>1, <1>2, <1>3, <1>4, <1>5, <1>6, <1>7, <1>8, <1>9 DEF ServerNext

\* A client that was told that it is authenticated reaches every object of the server,
\* through every order of additions, removals, closing and opening, as long as no open()
\* overtakes a close() (BoundObjectSocketBinder::validateSocket and addObject).
THEOREM ServedCorrect == ServerSpec => []DoneIsServed
<1>1. Bound => DoneIsServed
  BY DEF Bound
<1>2. QED
  BY InitBound, NextKeepsBound, <1>1, PTL DEF ServerSpec

\* No removed object is bound, and no object to a removed socket, but for the bindings that
\* close() is about to clear
\* (BoundObjectSocketBinder::removeSocket, removeObject and clearSockets).
THEOREM BindingsCorrect == ServerSpec => []BindingsExact
<1>1. Bound => BindingsExact
  BY DEF Bound
<1>2. QED
  BY InitBound, NextKeepsBound, <1>1, PTL DEF ServerSpec

-----------------------------------------------------------------------------
\* A task of the strand for k that adds it to the server.
Coming(k) == \E i \in DOMAIN queue : queue[i] = [op |-> "addIncomingSocket", of |-> k]

Kept ==
  /\ queue \in Seq(Tasks)
  /\ serverSock \in [Sockets -> {"none", "up", "closing", "down"}]
  /\ \A k \in Clients : serverSock[k] = "up" => k \in known \/ Coming(k)

\* Posting keeps the tasks that wait.
LEMMA PostKeeps ==
  ASSUME NEW op, NEW x, [op |-> op, of |-> x] \in Tasks, queue \in Seq(Tasks),
      Post(op, x)
  PROVE  /\ queue' \in Seq(Tasks)
         /\ \A i \in DOMAIN queue : i \in DOMAIN queue' /\ queue'[i] = queue[i]
         /\ strand => \E i \in DOMAIN queue' : queue'[i] = [op |-> op, of |-> x]
<1>1. CASE ~strand
  BY <1>1 DEF Post
<1>2. CASE strand
  <2>1. queue' = Append(queue, [op |-> op, of |-> x])
    BY <1>2 DEF Post
  <2> DEFINE t == [op |-> op, of |-> x]
  <2>2. t \in Tasks
    OBVIOUS
  <2> HIDE DEF t
  <2>3. queue' = Append(queue, t)
    BY <2>1 DEF t
  <2>4. /\ queue' \in Seq(Tasks) /\ Len(queue') = Len(queue) + 1
        /\ queue'[Len(queue) + 1] = t
        /\ \A i \in 1 .. Len(queue) : queue'[i] = queue[i]
    BY <2>2, <2>3
  <2>5. QED
    BY <2>4 DEF t
<1>3. QED
  BY <1>1, <1>2

\* Running a task takes no other one away.
LEMMA RunsKeeps ==
  ASSUME NEW op, NEW x, queue \in Seq(Tasks), Runs(op, x)
  PROVE  /\ queue' \in Seq(Tasks)
         /\ \A k \in Clients : Coming(k) => Coming(k)' \/ (op = "addIncomingSocket" /\ x = k)
<1>1. /\ queue # <<>> /\ Head(queue) = [op |-> op, of |-> x] /\ queue' = Tail(queue)
  BY DEF Runs
<1>2. /\ queue' \in Seq(Tasks) /\ Len(queue') = Len(queue) - 1
      /\ \A i \in 1 .. Len(queue') : queue'[i] = queue[i + 1]
      /\ queue[1] = [op |-> op, of |-> x]
  BY <1>1
<1>3. ASSUME NEW k \in Clients, NEW i \in DOMAIN queue,
             queue[i] = [op |-> "addIncomingSocket", of |-> k], ~(op = "addIncomingSocket" /\ x = k)
      PROVE  Coming(k)'
  <2>1. i # 1
    BY <1>2, <1>3
  <2>2. i - 1 \in DOMAIN queue' /\ queue'[i - 1] = queue[i]
    BY <1>2, <2>1
  <2>3. QED
    BY <1>3, <2>2 DEF Coming
<1>4. QED
  BY <1>2, <1>3 DEF Coming

\* A step that takes no task away, opens no socket and keeps the known ones.
LEMMA PostingKeepsKept ==
  ASSUME Kept, NEW op, NEW x, [op |-> op, of |-> x] \in Tasks, Post(op, x),
         serverSock' \in [Sockets -> {"none", "up", "closing", "down"}],
         \A k \in Clients : serverSock'[k] = "up" => serverSock[k] = "up"
              \/ (strand /\ op = "addIncomingSocket" /\ x = k),
         known \subseteq known'
  PROVE  Kept'
<1>1. /\ queue' \in Seq(Tasks)
      /\ \A i \in DOMAIN queue : i \in DOMAIN queue' /\ queue'[i] = queue[i]
      /\ strand => \E i \in DOMAIN queue' : queue'[i] = [op |-> op, of |-> x]
  BY PostKeeps DEF Kept
<1>2. ASSUME NEW k \in Clients, serverSock'[k] = "up" PROVE k \in known' \/ Coming(k)'
  BY <1>1, <1>2 DEF Kept, Coming
<1>3. Tasks' = Tasks /\ Sockets' = Sockets
  BY DEF Tasks, Sockets
<1>4. QED
  BY <1>1, <1>2, <1>3 DEF Kept

\* A step of the strand: what it takes from the known sockets, it disconnects.
LEMMA RunningKeepsKept ==
  ASSUME Kept, NEW op, NEW x, Runs(op, x),
         serverSock' \in [Sockets -> {"none", "up", "closing", "down"}],
         \A k \in Clients : serverSock'[k] = "up" => serverSock[k] = "up"
              /\ (k \in known => k \in known'),
         op = "addIncomingSocket" => x \in known'
  PROVE  Kept'
<1>1. /\ queue' \in Seq(Tasks)
      /\ \A k \in Clients : Coming(k) => Coming(k)' \/ (op = "addIncomingSocket" /\ x = k)
  BY RunsKeeps DEF Kept
<1>2. QED
  BY <1>1 DEF Kept

\* disconnect() of a set of sockets opens none, and closes those of the set.
LEMMA DisconnectingCloses ==
  ASSUME serverSock \in [Sockets -> {"none", "up", "closing", "down"}], NEW S
  PROVE  /\ Disconnecting(S) \in [Sockets -> {"none", "up", "closing", "down"}]
         /\ \A k \in Sockets : Disconnecting(S)[k] = "up"
              => serverSock[k] = "up" /\ k \notin S
  BY DEF Disconnecting

\* Every step keeps a client's socket at a place from which it will be disconnected.
LEMMA NextKeepsKept ==
  Kept /\ [ServerNext]_serverVars => Kept'
<1> SUFFICES ASSUME Kept, [ServerNext]_serverVars PROVE Kept'
  OBVIOUS
<1> USE DEF Sockets
<1>0. /\ queue \in Seq(Tasks)
      /\ serverSock \in [Sockets -> {"none", "up", "closing", "down"}]
  BY DEF Kept
<1>1. ASSUME NEW o \in Objects, addObject(o) PROVE Kept'
  BY <1>0, <1>1, PostingKeepsKept DEF addObject, Tasks, binder
<1>2. ASSUME NEW o \in Objects, removeObject(o) PROVE Kept'
  BY <1>0, <1>2, PostingKeepsKept DEF removeObject, Tasks, binder
<1>3. ASSUME NEW o \in Objects, DoAddObject(o) PROVE Kept'
  BY <1>0, <1>3, RunningKeepsKept DEF DoAddObject
<1>4. ASSUME NEW o \in Objects, DoRemoveObject(o) PROVE Kept'
  BY <1>0, <1>4, RunningKeepsKept DEF DoRemoveObject
<1>5. ASSUME NEW k \in Clients, newConnection(k) PROVE Kept'
  BY <1>0, <1>5, PostingKeepsKept DEF newConnection, Tasks, binder
<1>6. ASSUME NEW k \in Clients, addIncomingSocket(k) PROVE Kept'
  <2>1. /\ serverSock' \in [Sockets -> {"none", "up", "closing", "down"}]
        /\ \A j \in Clients : serverSock'[j] = "up" => serverSock[j] = "up"
    BY <1>0, <1>6, DisconnectingCloses DEF addIncomingSocket
  <2>2. QED
    BY <1>6, <2>1, RunningKeepsKept DEF addIncomingSocket, addSocket
<1>7. ASSUME NEW k \in Clients, handleServerMessage(k) PROVE Kept'
  <2>1. known' = known /\ Runs("message", k)
    BY <1>7 DEF handleServerMessage, Ignore, handleServerMessageAuth,
                handleServerMessageNoAuth,
                authenticateSocket, sendAuthError, finalizeSocketAuthentication,
                binder
  <2>2. serverSock' = serverSock \/ serverSock' = Disconnecting({k})
    BY <1>7 DEF handleServerMessage, Ignore, handleServerMessageAuth,
                handleServerMessageNoAuth,
                authenticateSocket, sendAuthError, finalizeSocketAuthentication
  <2>3. /\ serverSock' \in [Sockets -> {"none", "up", "closing", "down"}]
        /\ \A j \in Clients : serverSock'[j] = "up" => serverSock[j] = "up"
    BY <1>0, <2>2, DisconnectingCloses
  <2>4. QED
    BY <2>1, <2>3, RunningKeepsKept
<1>8. ASSUME NEW k \in Clients, NEW m \in {"auth", "other"}, Send(k, m) PROVE Kept'
  BY <1>0, <1>8, PostingKeepsKept DEF Send, Tasks, binder
<1>9. ASSUME NEW k \in Outgoing, addOutgoingSocket(k) PROVE Kept'
  BY <1>0, <1>9, PostingKeepsKept, ServerAssumption
     DEF addOutgoingSocket, Tasks, binder
<1>10. ASSUME NEW k \in Outgoing, DoAddOutgoingSocket(k) PROVE Kept'
  BY <1>0, <1>10, RunningKeepsKept DEF DoAddOutgoingSocket, addSocket
<1>11. ASSUME NEW k \in Sockets, removeSocket(k) PROVE Kept'
  BY <1>0, <1>11, RunningKeepsKept, DisconnectingCloses DEF removeSocket
<1>12. ASSUME NEW k \in Sockets, SocketDown(k) PROVE Kept'
  <2>1. /\ serverSock' \in [Sockets -> {"none", "up", "closing", "down"}]
        /\ \A j \in Clients : serverSock'[j] = "up" => serverSock[j] = "up"
        /\ known' = known
    BY <1>0, <1>12 DEF SocketDown, binder
  <2>2. CASE Post("removeSocket", k)
    BY <2>1, <2>2, PostingKeepsKept DEF Tasks
  <2>3. CASE queue' = queue
    BY <2>1, <2>3 DEF Kept, Coming, Tasks
  <2>4. QED
    BY <1>12, <2>2, <2>3 DEF SocketDown
<1>13. CASE closeImpl
  <2>1. queue' = <<>> /\ known' = known
    BY <1>13 DEF closeImpl, binder
  <2>2. /\ serverSock' \in [Sockets -> {"none", "up", "closing", "down"}]
        /\ \A k \in Clients : serverSock'[k] = "up" =>
             serverSock[k] = "up" /\ [op |-> "addIncomingSocket", of |-> k] \notin Range(queue)
    BY <1>0, <1>13, DisconnectingCloses DEF closeImpl
  <2>3. \A k \in Clients : Coming(k) => [op |-> "addIncomingSocket", of |-> k] \in Range(queue)
    BY DEF Coming, Range
  <2>4. queue' \in Seq(Tasks)
    BY <2>1
  <2>5. \A k \in Clients : serverSock'[k] = "up" => k \in known'
    BY <2>1, <2>2, <2>3 DEF Kept
  <2>6. QED
    BY <2>2, <2>4, <2>5 DEF Kept, Tasks
<1>14. CASE clearSockets
  <2>1. queue' = queue /\ serverSock' = Disconnecting(known)
    BY <1>14 DEF clearSockets
  <2>2. /\ serverSock' \in [Sockets -> {"none", "up", "closing", "down"}]
        /\ \A k \in Clients : serverSock'[k] = "up" => serverSock[k] = "up" /\ k \notin known
    BY <1>0, <2>1, DisconnectingCloses
  <2>3. QED
    BY <2>1, <2>2 DEF Kept, Coming, Tasks
<1>15. CASE open \/ clearBindings \/ UNCHANGED serverVars
  BY <1>15 DEF open, clearBindings, serverVars, binder, Kept, Coming, Tasks
<1>16. QED
  BY <1>1, <1>2, <1>3, <1>4, <1>5, <1>6, <1>7, <1>8, <1>9, <1>10, <1>11, <1>12, <1>13,
     <1>14, <1>15 DEF ServerNext

\* A connection that was accepted is in the server, or a task is going to add it,
\* or it is disconnected, also when close() drops the task or the strand is gone
\* (Server::closeImpl, newConnection and SocketInfo's destructor).
THEOREM NoneLeftOpenCorrect == ServerSpec => []NoneLeftOpen
<1>1. ServerInit => Kept
  BY DEF ServerInit, Kept, Tasks, Sockets
<1>2. Kept => NoneLeftOpen
  BY DEF Kept, Coming, NoneLeftOpen, Range
<1>3. QED
  BY <1>1, <1>2, NextKeepsKept, PTL DEF ServerSpec

=============================================================================
