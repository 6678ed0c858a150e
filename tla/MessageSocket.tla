--------------------------- MODULE MessageSocket ---------------------------
(***************************************************************************)
(* TcpMessageSocket (src/messaging/tcpmessagesocket.hpp) and the states of *)
(* src/messaging/sock: how one socket is connected, read, written to and   *)
(* disconnected, by its users and by the network.                          *)
(*                                                                         *)
(* A connection has a number.  What belongs to one Connected or            *)
(* Disconnecting object is a function of it, as such an object outlives    *)
(* the state of the socket it was.  An action is a critical section of     *)
(* _stateMutex, a handler of the network or a step made outside both.      *)
(***************************************************************************)
EXTENDS Naturals, Sequences, FiniteSets

CONSTANTS
  Kinds,         \* sockets: <<"client" or "server", with TLS or not>>
  Callers,       \* calls to disconnect()
  NoCaller,      \* the promise nobody waits for
  MaxConnects,   \* bound: connections
  MaxActivity    \* bound: connections, messages sent and messages received

ASSUME SocketAssumption ==
  /\ Kinds \subseteq {"client", "server"} \X BOOLEAN
  /\ IsFiniteSet(Callers) /\ NoCaller \notin Callers /\ "close" \notin Callers
  /\ MaxConnects \in Nat \ {0} /\ MaxActivity \in Nat

VARIABLES
  side, ssl,   \* client or server, with TLS or without
  status,      \* which state _state holds
  n,           \* number of the current connection
  step,        \* what Connecting is doing
  stopReq,     \* disconnectionRequested of its result
  holder,      \* disconnectedPromise of the result of Connecting or of Connected
  conFut,      \* the future of connect()
  starter,     \* where connect()'s continuation or ensureReading() is
  raised,      \* connection -> _stopRequested
  shutting,    \* connection -> _shuttingdown
  complete,    \* connection -> _completePromise is set
  reader,      \* connection -> what ReceiveMessageContinuous is doing
  sendq,       \* connection -> how many messages are in _sendQueue
  sending,     \* connection -> _sending
  sent,        \* messages given to send()
  leave,       \* connection -> where OnConnectedComplete is
  copied,      \* connection -> the disconnectedPromise it has read
  closing,     \* connection -> where its disconnection is
  given,       \* connection -> the promise it was given
  fut,         \* disconnect() -> its future
  follows,     \* disconnect() -> what sets it: a call's promise, or "close"
  about,       \* disconnect() -> the connection it found
  lost,        \* promises in a result nobody reads any more
  log          \* what is emitted, in order

conVars == <<status, n, step, stopReq, holder, conFut, starter>>
ioVars == <<raised, shutting, complete, reader, sendq, sending, sent>>
endVars == <<leave, copied, closing, given>>
userVars == <<fut, follows, about, lost>>
vars == <<side, ssl, conVars, ioVars, endVars, userVars, log>>

Connections == 1 .. MaxConnects
Promises == Callers \cup {NoCaller}

\* ensureReading() waits for the handshake with _stateMutex locked.
Unlocked == starter # "locked"

Received == Cardinality({i \in DOMAIN log : log[i][1] = "message"})
Activity == n + sent + Received

TypeOK ==
  /\ side \in {"client", "server"} /\ ssl \in BOOLEAN
  /\ status \in {"Disconnected", "Connecting", "Connected", "Disconnecting"}
  /\ n \in 0 .. MaxConnects
  /\ step \in {"none", "resolve", "connect", "handshake", "ok", "error"}
  /\ stopReq \in BOOLEAN /\ holder \in Promises
  /\ conFut \in {"none", "running", "value", "error"}
  /\ starter \in {"none", "wait", "locked", "relock", "emit"}
  /\ raised \in [Connections -> BOOLEAN] /\ shutting \in [Connections -> BOOLEAN]
  /\ complete \in [Connections -> BOOLEAN]
  /\ reader \in [Connections -> {"none", "reading", "ready", "failed", "ended"}]
  /\ sendq \in [Connections -> 0 .. MaxActivity]
  /\ sent \in 0 .. MaxActivity /\ sending \in [Connections -> BOOLEAN]
  /\ leave \in [Connections -> {"none", "copied", "left"}]
  /\ copied \in [Connections -> Promises] /\ given \in [Connections -> Promises]
  /\ closing \in [Connections ->
       {"none", "closing", "closed", "signals", "done"}]
  /\ fut \in [Callers -> {"none", "pending", "value", "broken"}]
  /\ follows \in [Callers -> Promises \cup {"close"}]
  /\ about \in [Callers -> 0 .. MaxConnects] /\ lost \subseteq Callers

\* A client socket is built disconnected; a server one, on an accepted connection, is
\* built connecting, and without TLS that is over at once.
Init ==
  /\ \E kind \in Kinds : side = kind[1] /\ ssl = kind[2]
  /\ status = IF side = "client" THEN "Disconnected" ELSE "Connecting"
  /\ n = IF side = "client" THEN 0 ELSE 1
  /\ step = IF side = "client" THEN "none" ELSE IF ssl THEN "handshake" ELSE "ok"
  /\ stopReq = FALSE /\ holder = NoCaller /\ conFut = "none" /\ starter = "none"
  /\ raised = [k \in Connections |-> FALSE] /\ shutting = [k \in Connections |-> FALSE]
  /\ complete = [k \in Connections |-> FALSE] /\ reader = [k \in Connections |-> "none"]
  /\ sendq = [k \in Connections |-> 0] /\ sending = [k \in Connections |-> FALSE]
  /\ sent = 0 /\ leave = [k \in Connections |-> "none"]
  /\ copied = [k \in Connections |-> NoCaller] /\ given = [k \in Connections |-> NoCaller]
  /\ closing = [k \in Connections |-> "none"]
  /\ fut = [c \in Callers |-> "none"] /\ follows = [c \in Callers |-> NoCaller]
  /\ about = [c \in Callers |-> 0] /\ lost = {} /\ log = <<>>

-----------------------------------------------------------------------------
(* Faulty variants of operations below, each of which breaks a property.   *)

\* Stopping does not end a reader that has a message.
OnReceiveUnchecked(k, good) ==
  /\ reader[k] = "ready"
  /\ IF good
     THEN /\ log' = Append(log, <<"message", k>>)
          /\ reader' = [reader EXCEPT ![k] = "reading"] /\ UNCHANGED complete
     ELSE /\ reader' = [reader EXCEPT ![k] = "ended"]
          /\ complete' = [complete EXCEPT ![k] = TRUE] /\ UNCHANGED log
  /\ UNCHANGED <<side, ssl, conVars, raised, shutting, sendq, sending, sent, endVars, userVars>>

\* A second disconnect() replaces the promise of the first.
StopReplaces(c) ==
  /\ status = "Connected"
  /\ raised' = [raised EXCEPT ![n] = TRUE]
  /\ holder' = c /\ follows' = [follows EXCEPT ![c] = c]
  /\ UNCHANGED stopReq

\* The promise is set before the state changes.
enterDisconnectedEarly(k, p) ==
  /\ status' = "Disconnecting"
  /\ closing' = [closing EXCEPT ![k] = "closing"]
  /\ given' = [given EXCEPT ![k] = NoCaller]
  /\ fut' = [c \in Callers |-> IF c = p THEN "value" ELSE fut[c]]

\* A connection that is stopped while connecting says nothing to connect()'s caller.
ConnectDoneSilent ==
  /\ starter = "wait" /\ step \in {"ok", "error"}
  /\ status' = "Disconnecting" /\ starter' = "none"
  /\ conFut' = IF stopReq THEN conFut ELSE "error"
  /\ closing' = [closing EXCEPT ![n] = "closing"] /\ given' = [given EXCEPT ![n] = holder]
  /\ UNCHANGED <<side, ssl, n, step, stopReq, holder, ioVars, leave, copied, userVars, log>>

-----------------------------------------------------------------------------
(* Leaving the connecting and connected states: enterDisconnectedState().  *)

enterDisconnectedState(k, p) ==
  /\ status' = "Disconnecting"
  /\ closing' = [closing EXCEPT ![k] = "closing"]
  /\ given' = [given EXCEPT ![k] = p]
  /\ UNCHANGED fut

\* The socket is closed, in the network's thread.
CloseSocket(k) ==
  /\ closing[k] = "closing"
  /\ closing' = [closing EXCEPT ![k] = "closed"]
  /\ UNCHANGED <<side, ssl, conVars, ioVars, leave, copied, given, userVars, log>>

\* The continuation of its future: the state, the signals, then the promise.
EnterDisconnected(k) ==
  /\ closing[k] = "closed" /\ Unlocked
  /\ status' = "Disconnected"
  /\ closing' = [closing EXCEPT ![k] = "signals"]
  /\ UNCHANGED <<side, ssl, n, step, stopReq, holder, conFut, starter, ioVars,
                 leave, copied, given, userVars, log>>

EmitDisconnected(k) ==
  /\ closing[k] = "signals"
  /\ log' = IF leave[k] = "left" THEN Append(log, <<"disconnected", k>>) ELSE log
  /\ closing' = [closing EXCEPT ![k] = "done"]
  /\ fut' = [c \in Callers |-> IF c = given[k] THEN "value" ELSE fut[c]]
  /\ UNCHANGED <<side, ssl, conVars, ioVars, leave, copied, given, follows, about, lost>>

-----------------------------------------------------------------------------
(* Connecting.                                                             *)

connect ==
  /\ side = "client" /\ status = "Disconnected" /\ n < MaxConnects /\ Activity < MaxActivity
  /\ status' = "Connecting" /\ n' = n + 1 /\ step' = "resolve"
  /\ stopReq' = FALSE /\ holder' = NoCaller /\ conFut' = "running" /\ starter' = "wait"
  /\ UNCHANGED <<side, ssl, ioVars, endVars, userVars, log>>

NextStep ==
  CASE step = "resolve" -> "connect"
    [] step = "connect" -> IF ssl THEN "handshake" ELSE "ok"
    [] step = "handshake" -> "ok"

\* One operation of the network ends, in error or not.  A stop cancels or closes what
\* it works on, which an operation that has just ended does not notice.
ConnectStep ==
  /\ step \in {"resolve", "connect", "handshake"}
  /\ step' \in {NextStep, "error"}
  /\ UNCHANGED <<side, ssl, status, n, stopReq, holder, conFut, starter,
                 ioVars, endVars, userVars, log>>

\* _state = ConnectedState(...), whose result has a promise of its own.
EnterConnected ==
  /\ status' = "Connected" /\ holder' = NoCaller /\ starter' = "emit"
  /\ reader' = [reader EXCEPT ![n] = "reading"]
  /\ UNCHANGED <<raised, shutting, complete, sendq, sending, sent, endVars, fut>>

\* The continuation of connect().
ConnectDone ==
  /\ starter = "wait" /\ step \in {"ok", "error"}
  /\ IF stopReq \/ step = "error"
     THEN /\ conFut' = "error" /\ starter' = "none"
          /\ enterDisconnectedState(n, holder)
          /\ UNCHANGED <<holder, ioVars, leave, copied>>
     ELSE EnterConnected /\ UNCHANGED conFut
  /\ UNCHANGED <<side, ssl, n, step, stopReq, follows, about, lost, log>>

\* ensureReading() waits for the end of the handshake with the mutex locked, and
\* unlocks it to lock it with the result.
ensureReading ==
  /\ side = "server" /\ starter = "none" /\ status = "Connecting"
  /\ starter' = "locked"
  /\ UNCHANGED <<side, ssl, status, n, step, stopReq, holder, conFut, ioVars, endVars, userVars, log>>

ReadingRelock ==
  /\ starter = "locked" /\ step \in {"ok", "error"}
  /\ starter' = "relock"
  /\ UNCHANGED <<side, ssl, status, n, step, stopReq, holder, conFut, ioVars, endVars, userVars, log>>

\* It does not look at disconnectionRequested: the promise of that request is dropped
\* with the result of Connecting.
ReadingDone ==
  /\ starter = "relock"
  /\ IF step = "error"
     THEN /\ starter' = "none"
          /\ enterDisconnectedState(n, holder)
          /\ UNCHANGED <<holder, ioVars, leave, copied, lost>>
     ELSE EnterConnected /\ lost' = lost \cup ({holder} \ {NoCaller})
  /\ UNCHANGED <<side, ssl, n, step, stopReq, conFut, follows, about, log>>

\* With the mutex unlocked: the signal, then the promise.
EmitConnected ==
  /\ starter = "emit"
  /\ log' = Append(log, <<"connected", n>>)
  /\ starter' = "none"
  /\ conFut' = IF side = "client" THEN "value" ELSE conFut
  /\ UNCHANGED <<side, ssl, status, n, step, stopReq, holder, ioVars, endVars, userVars>>

-----------------------------------------------------------------------------
(* Connected: reading, writing and being stopped.                          *)

\* A read ends: with a message, or in error once the peer has gone, the socket is
\* shut down or closed.
ReadMessage(k) ==
  /\ reader[k] = "reading" /\ Activity < MaxActivity /\ closing[k] \in {"none", "closing"}
  /\ reader' = [reader EXCEPT ![k] = "ready"]
  /\ UNCHANGED <<side, ssl, conVars, raised, shutting, complete, sendq, sending, sent,
                 endVars, userVars, log>>

ReadError(k) ==
  /\ reader[k] = "reading"
  /\ reader' = [reader EXCEPT ![k] = "failed"]
  /\ UNCHANGED <<side, ssl, conVars, raised, shutting, complete, sendq, sending, sent,
                 endVars, userVars, log>>

\* onReceived.  handleMessage() refuses an ill-formed capability message, and the
\* reader ends, as it does when the socket is being shut down.
OnReceive(k, good) ==
  /\ reader[k] = "ready"
  /\ IF good /\ ~shutting[k]
     THEN /\ log' = Append(log, <<"message", k>>)
          /\ reader' = [reader EXCEPT ![k] = "reading"] /\ UNCHANGED complete
     ELSE /\ reader' = [reader EXCEPT ![k] = "ended"]
          /\ complete' = [complete EXCEPT ![k] = TRUE] /\ UNCHANGED log
  /\ UNCHANGED <<side, ssl, conVars, raised, shutting, sendq, sending, sent, endVars, userVars>>

OnReceiveError(k) ==
  /\ reader[k] = "failed"
  /\ reader' = [reader EXCEPT ![k] = "ended"]
  /\ complete' = [complete EXCEPT ![k] = TRUE]
  /\ UNCHANGED <<side, ssl, conVars, raised, shutting, sendq, sending, sent, endVars, userVars, log>>

\* send(), and SendMessageEnqueue: the queue's loop is started unless it is sending.
send ==
  /\ status = "Connected" /\ Unlocked /\ Activity < MaxActivity
  /\ sent' = sent + 1
  /\ sendq' = [sendq EXCEPT ![n] = @ + 1]
  /\ sending' = [sending EXCEPT ![n] = TRUE]
  /\ UNCHANGED <<side, ssl, conVars, raised, shutting, complete, reader, endVars, userVars, log>>

\* A write ends, in error or not, which nobody looks at: the next message is written,
\* unless the socket is being shut down.
WriteDone(k) ==
  /\ sending[k]
  /\ sendq' = [sendq EXCEPT ![k] = @ - 1]
  /\ sending' = [sending EXCEPT ![k] = ~shutting[k] /\ sendq[k] > 1]
  /\ complete' = [complete EXCEPT ![k] = @ \/ shutting[k]]
  /\ UNCHANGED <<side, ssl, conVars, raised, shutting, reader, sent, endVars, userVars, log>>

\* What Connected::stop() posts to the network.
Shutdown(k) ==
  /\ raised[k] /\ ~shutting[k]
  /\ shutting' = [shutting EXCEPT ![k] = TRUE]
  /\ UNCHANGED <<side, ssl, conVars, raised, complete, reader, sendq, sending, sent,
                 endVars, userVars, log>>

\* OnConnectedComplete waits for the future of connect() and copies the result,
CopyResult(k) ==
  /\ complete[k] /\ leave[k] = "none" /\ conFut # "running"
  /\ leave' = [leave EXCEPT ![k] = "copied"]
  /\ copied' = [copied EXCEPT ![k] = holder]
  /\ UNCHANGED <<side, ssl, conVars, ioVars, closing, given, userVars, log>>

\* then enters the disconnecting state: a promise stored in between is lost.
LeaveConnected(k) ==
  /\ leave[k] = "copied" /\ Unlocked
  /\ leave' = [leave EXCEPT ![k] = "left"]
  /\ enterDisconnectedState(k, copied[k])
  /\ lost' = lost \cup ({holder} \ {copied[k], NoCaller})
  /\ UNCHANGED <<side, ssl, n, step, stopReq, holder, conFut, starter, ioVars,
                 copied, follows, about, log>>

-----------------------------------------------------------------------------
(* disconnect().                                                           *)

\* Connecting::stop() and Connected::stop(): the first request gives its promise to the
\* result, the next ones follow it.
StopConnecting(c) ==
  /\ status = "Connecting"
  /\ stopReq' = TRUE
  /\ holder' = IF stopReq THEN holder ELSE c
  /\ follows' = [follows EXCEPT ![c] = IF stopReq THEN holder ELSE c]
  /\ UNCHANGED raised

StopConnected(c) ==
  /\ status = "Connected"
  /\ raised' = [raised EXCEPT ![n] = TRUE]
  /\ holder' = IF raised[n] THEN holder ELSE c
  /\ follows' = [follows EXCEPT ![c] = IF raised[n] THEN holder ELSE c]
  /\ UNCHANGED stopReq

doDisconnect(c) ==
  /\ fut[c] = "none" /\ Unlocked
  /\ about' = [about EXCEPT ![c] = n]
  /\ \/ /\ status = "Disconnected"
        /\ fut' = [fut EXCEPT ![c] = "value"]
        /\ UNCHANGED <<stopReq, holder, raised, follows>>
     \/ /\ StopConnecting(c) \/ StopConnected(c)
        /\ fut' = [fut EXCEPT ![c] = "pending"]
     \/ /\ status = "Disconnecting"
        /\ follows' = [follows EXCEPT ![c] = "close"]
        /\ fut' = [fut EXCEPT ![c] = "pending"]
        /\ UNCHANGED <<stopReq, holder, raised>>
  /\ UNCHANGED <<side, ssl, status, n, step, conFut, starter, shutting, complete, reader,
                 sendq, sending, sent, endVars, lost, log>>

\* adaptFuture(), or the future of Disconnecting.
Follow(c) ==
  /\ fut[c] = "pending"
  /\ \/ /\ follows[c] = "close" /\ closing[about[c]] \notin {"none", "closing"}
        /\ fut' = [fut EXCEPT ![c] = "value"]
     \/ /\ follows[c] \in Callers \ {c} /\ fut[follows[c]] \in {"value", "broken"}
        /\ fut' = [fut EXCEPT ![c] = fut[follows[c]]]
  /\ UNCHANGED <<side, ssl, conVars, ioVars, endVars, follows, about, lost, log>>

\* The last reference to a result goes, and the promise in it.
Break(c) ==
  /\ c \in lost
  /\ lost' = lost \ {c}
  /\ fut' = [fut EXCEPT ![c] = "broken"]
  /\ UNCHANGED <<side, ssl, conVars, ioVars, endVars, follows, about, log>>

-----------------------------------------------------------------------------

Network(k) ==
  \/ CloseSocket(k) \/ Shutdown(k) \/ OnReceiveError(k)
  \/ \E good \in BOOLEAN : OnReceive(k, good)

Ending(k) ==
  \/ CopyResult(k) \/ LeaveConnected(k)
  \/ EnterDisconnected(k) \/ EmitDisconnected(k)

Starting == ConnectDone \/ ReadingRelock \/ ReadingDone \/ EmitConnected

Following(c) == Follow(c) \/ Break(c)

Next ==
  \/ connect \/ ensureReading \/ ConnectStep \/ Starting
  \/ \E k \in Connections :
       \/ Network(k) \/ Ending(k) \/ ReadMessage(k) \/ ReadError(k) \/ WriteDone(k)
  \/ send
  \/ \E c \in Callers : doDisconnect(c) \/ Following(c)

Spec == Init /\ [][Next]_vars

\* Handlers and continuations run; a read ends once the socket is shut down or closed,
\* and so does an operation of a connection that is being stopped; resolving and
\* connecting end by themselves.  A handshake need not: it waits for the peer.
Fairness ==
  /\ \A k \in Connections :
       /\ WF_vars(Network(k)) /\ WF_vars(Ending(k))
       /\ WF_vars((shutting[k] \/ closing[k] # "none") /\ ReadError(k))
       /\ WF_vars(WriteDone(k))
  /\ WF_vars(Starting)
  /\ WF_vars((step \in {"resolve", "connect"} \/ stopReq) /\ ConnectStep)
  /\ \A c \in Callers : WF_vars(Following(c))

FairSpec == Spec /\ Fairness

-----------------------------------------------------------------------------
(* Properties.                                                             *)

Settled(c) == fut[c] \in {"value", "broken"}

\* The future of disconnect() finishes whatever the socket was doing, and although the
\* promise travels through three states and may be lost between two of them.  Except
\* on a server socket that nobody reads, where nothing looks at the request.
DisconnectSettles ==
  \A c \in Callers :
    (fut[c] = "pending") ~>
      (Settled(c) \/ (side = "server" /\ status = "Connecting"))

\* The future of connect() finishes, unless the peer never ends the handshake.
ConnectSettles ==
  (conFut = "running") ~> (conFut # "running" \/ (step = "handshake" /\ ~stopReq))

\* When the promise of a disconnect() is kept, the connection it was called on is over:
\* its socket is closed and in the Disconnected state (`disconnected` may be emitted later).
DisconnectedWhenTold ==
  \A c \in Callers :
    (fut[c] = "value" /\ follows[c] # "close" /\ about[c] > 0)
      => closing[about[c]] \in {"signals", "done"}

\* A promise of disconnect() that is kept or broken stays so: setting it again would
\* throw, in whichever of the three states has got it.
SettledOnce == [][\A c \in Callers : Settled(c) => fut'[c] = fut[c]]_vars

\* "You are notified when entering the disconnect state, either by the future returned
\* by disconnect() or by the signal": also a disconnect() that finds the socket
\* disconnecting.
NotifiedWhenDisconnected ==
  \A c \in Callers :
    (fut[c] = "value" /\ about[c] > 0) => closing[about[c]] \in {"signals", "done"}

\* A subscriber gets no message of a connection after its `disconnected`, which comes
\* once at most, and never without a `connected` first on a client socket.
SignalsInOrder ==
  \A i, j \in DOMAIN log :
    (log[i] \in {<<"disconnected", k>> : k \in Connections} /\ log[j][2] = log[i][2]) =>
      /\ log[j][1] = "message" => j < i
      /\ log[j][1] = "disconnected" => j = i
      /\ (log[j][1] = "connected" /\ side = "client") => j < i

=============================================================================
