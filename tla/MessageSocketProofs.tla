------------------------ MODULE MessageSocketProofs ------------------------
(***************************************************************************)
(* Proofs about MessageSocket, for any calls to disconnect() and any       *)
(* numbers of connections and messages, and about the cache of a session's *)
(* sockets, for any requests, URIs and sockets.                            *)
(***************************************************************************)
EXTENDS MessageSocket, FiniteSetTheorems, FunctionTheorems, WellFoundedInduction, TLAPS

Events == {"connected", "disconnected", "message"}

Over == {"signals", "done"}

\* The log is typed as well; a writer that is busy has a message to write.
Types ==
  /\ TypeOK
  /\ log \in Seq(Events \X Connections)
  /\ \A k \in Connections : sendq[k] <= sent /\ (sending[k] => sendq[k] > 0)

\* Nothing was done with the connection since its number was given out.
Untouched(k) ==
  /\ reader[k] = "none" /\ leave[k] = "none"
  /\ ~raised[k] /\ ~shutting[k] /\ ~complete[k] /\ ~sending[k]

\* Which connection the state of the socket is about, and what became of the others.
Phases ==
  /\ status = "Disconnected" => n = 0 \/ closing[n] \in Over
  /\ status = "Connecting" => n > 0 /\ closing[n] = "none" /\ Untouched(n)
  /\ status = "Connected" => n > 0 /\ closing[n] = "none" /\ leave[n] # "left"
  /\ status = "Disconnecting" => n > 0 /\ closing[n] \in {"closing", "closed"}
  /\ \A k \in Connections :
       /\ k < n => closing[k] \in Over
       /\ k > n => closing[k] = "none" /\ Untouched(k)
       /\ (k = n /\ status = "Connected") \/ leave[k] = "left" \/ Untouched(k)

\* Who connects, and that the connection of a client does not end before its
\* `connected` is emitted.
Starts ==
  /\ starter = "wait" => status = "Connecting" /\ side = "client" /\ conFut = "running"
  /\ starter \in {"locked", "relock"} => status = "Connecting" /\ side = "server"
  /\ starter = "emit" => n > 0
  /\ (starter = "emit" /\ side = "client") =>
       conFut = "running" /\ status = "Connected" /\ leave[n] = "none"

\* A connection that is being left is read no more.
ReaderStopped ==
  \A k \in Connections :
    /\ leave[k] # "none" => complete[k]
    /\ complete[k] => reader[k] = "ended" \/ shutting[k]

\* `disconnected` is the last thing a connection does.
DisconnectedIsLast ==
  \A i \in DOMAIN log :
    log[i][1] = "disconnected" => closing[log[i][2]] = "done" /\ leave[log[i][2]] = "left"

\* A promise that the socket keeps is that of a call about this connection, which
\* others may follow.
Own(p, k) == p \in Callers => about[p] = k /\ follows[p] = p /\ fut[p] # "none"

\* It is not settled yet, and will not be by its loss.
Held(p) == p \in Callers => fut[p] = "pending" /\ p \notin lost

PromisesOwned ==
  /\ Own(holder, n)
  /\ status \in {"Connecting", "Connected"} => Held(holder)
  /\ \A k \in Connections :
       /\ Own(copied[k], k) /\ Own(given[k], k)
       /\ leave[k] = "copied" => Held(copied[k])
       /\ closing[k] # "done" => Held(given[k])
       /\ closing[k] = "none" => given[k] = NoCaller
  /\ \A c \in lost : fut[c] = "pending" /\ follows[c] = c
  /\ \A c \in Callers :
       /\ follows[c] \in Callers => /\ about[follows[c]] = about[c]
                                    /\ follows[follows[c]] = follows[c]
                                    /\ fut[follows[c]] # "none"
       /\ fut[c] = "none" => follows[c] = NoCaller
       /\ about[c] <= n

IInv ==
  /\ Types
  /\ Phases
  /\ Starts
  /\ ReaderStopped
  /\ DisconnectedIsLast
  /\ PromisesOwned
  /\ DisconnectedWhenTold
  /\ SignalsInOrder

-----------------------------------------------------------------------------
\* A socket that is built.
LEMMA InitIInv == Init => IInv
<1> SUFFICES ASSUME Init PROVE IInv
  OBVIOUS
<1>1. side \in {"client", "server"} /\ ssl \in BOOLEAN
  BY SocketAssumption DEF Init
<1>2. log \in Seq(Events \X Connections) /\ DOMAIN log = {}
  BY DEF Init
<1>3. TypeOK
  <2>1. 0 \in 0 .. MaxConnects /\ 1 \in 0 .. MaxConnects /\ 0 \in 0 .. MaxActivity
    BY SocketAssumption
  <2>2. n \in 0 .. MaxConnects /\ about \in [Callers -> 0 .. MaxConnects]
    BY <2>1 DEF Init
  <2>3. sent \in 0 .. MaxActivity /\ sendq \in [Connections -> 0 .. MaxActivity]
    BY <2>1 DEF Init
  <2>4. QED
    BY <1>1, <2>2, <2>3 DEF Init, TypeOK, Promises
<1>4. Types
  BY <1>2, <1>3 DEF Init, Types
<1>5. Phases /\ Starts /\ ReaderStopped
  BY <1>1, SocketAssumption DEF Init, Phases, Starts, ReaderStopped, Untouched, Connections, Over
<1>6. DisconnectedIsLast /\ SignalsInOrder
  BY <1>2 DEF DisconnectedIsLast, SignalsInOrder
<1>7. PromisesOwned /\ DisconnectedWhenTold
  BY SocketAssumption DEF Init, PromisesOwned, DisconnectedWhenTold, Own, Held
<1>8. QED
  BY <1>4, <1>5, <1>6, <1>7 DEF IInv

\* How many messages were received is a number.
LEMMA ReceivedIsNat == ASSUME Types PROVE Received \in Nat
<1>1. DOMAIN log = 1 .. Len(log) /\ Len(log) \in Nat
  BY DEF Types
<1>2. IsFiniteSet(DOMAIN log)
  BY <1>1, FS_Interval
<1>3. IsFiniteSet({i \in DOMAIN log : log[i][1] = "message"})
  BY <1>2, FS_Subset
<1>4. QED
  BY <1>3, FS_CardinalityType DEF Received

\* Emitting a signal: in order, if there was no `disconnected` of the connection.
LEMMA SignalAppended ==
  ASSUME Types, SignalsInOrder, NEW e \in Events, NEW k \in Connections,
         log' = Append(log, <<e, k>>), side' = side,
         \/ \A i \in DOMAIN log : log[i][1] = "disconnected" => log[i][2] # k
         \/ e = "connected" /\ side = "server"
  PROVE  SignalsInOrder' /\ log' \in Seq(Events \X Connections)
<1>1. /\ log \in Seq(Events \X Connections) /\ Len(log) \in Nat /\ DOMAIN log = 1 .. Len(log)
      /\ side \in {"client", "server"}
  BY DEF Types, TypeOK
<1>2. /\ log' \in Seq(Events \X Connections) /\ DOMAIN log' = 1 .. Len(log) + 1
      /\ log'[Len(log) + 1] = <<e, k>> /\ \A i \in 1 .. Len(log) : log'[i] = log[i]
  BY <1>1
<1>3. ASSUME NEW i \in 1 .. Len(log)
      PROVE  /\ log[i] \in Events \X Connections
             /\ log[i] \in {<<"disconnected", q>> : q \in Connections} <=> log[i][1] = "disconnected"
  <2>1. log[i] \in Events \X Connections
    BY <1>1
  <2>2. PICK a \in Events, q \in Connections : log[i] = <<a, q>>
    BY <2>1
  <2>3. QED
    BY <2>1, <2>2
<1>4. SignalsInOrder'
  <2> SUFFICES ASSUME NEW i \in 1 .. Len(log) + 1, NEW j \in 1 .. Len(log) + 1,
                      log'[i] \in {<<"disconnected", q>> : q \in Connections}, log'[j][2] = log'[i][2]
               PROVE  /\ log'[j][1] = "message" => j < i
                      /\ log'[j][1] = "disconnected" => j = i
                      /\ (log'[j][1] = "connected" /\ side = "client") => j < i
    BY <1>2 DEF SignalsInOrder
  <2>1. CASE i \in 1 .. Len(log) /\ j \in 1 .. Len(log)
    BY <1>1, <1>2, <2>1, ZenonT(60) DEF SignalsInOrder
  <2>2. CASE i \in 1 .. Len(log) /\ j = Len(log) + 1
    <3>1. log[i][1] = "disconnected" /\ log[i][2] = k
      BY <1>2, <1>3, <2>2
    <3>2. e = "connected" /\ side = "server"
      BY <1>1, <2>2, <3>1
    <3>3. QED
      BY <1>2, <2>2, <3>2
  <2>3. CASE i = Len(log) + 1 /\ j \in 1 .. Len(log)
    <3>1. e = "disconnected" /\ log[j][2] = k
      BY <1>2, <2>3
    <3>2. log[j][1] # "disconnected"
      BY <1>1, <2>3, <3>1
    <3>3. QED
      BY <1>2, <2>3, <3>2
  <2>4. CASE i = Len(log) + 1 /\ j = Len(log) + 1
    BY <1>2, <2>4
  <2>5. QED
    BY <2>1, <2>2, <2>3, <2>4
<1>5. QED
  BY <1>2, <1>4

-----------------------------------------------------------------------------
(* Reading, writing and being shut down.                                   *)

\* The reader and the writer of a connection work from the time it is connected,
\* also once the socket has left it.
Works(k) == (k = n /\ status = "Connected") \/ leave[k] = "left"

Others(k) ==
  \A q \in Connections : q # k =>
    /\ reader'[q] = reader[q] /\ raised'[q] = raised[q] /\ shutting'[q] = shutting[q]
    /\ complete'[q] = complete[q] /\ sending'[q] = sending[q]

\* What they do changes neither the state of the socket nor a promise.
LEMMA IOKeeps ==
  ASSUME IInv, NEW k \in Connections, Works(k), Others(k), Types', ReaderStopped',
         UNCHANGED <<side, ssl, conVars, endVars, userVars>>,
         \/ log' = log
         \/ log' = Append(log, <<"message", k>>) /\ reader[k] = "ready" /\ ~shutting[k]
  PROVE  IInv'
<1>1. Phases'
  BY DEF IInv, Phases, Untouched, Works, Others, conVars, endVars, Types, TypeOK, Connections
<1>2. Starts' /\ PromisesOwned' /\ DisconnectedWhenTold'
  BY DEF IInv, Starts, PromisesOwned, Own, Held, DisconnectedWhenTold, conVars, endVars, userVars
<1>3. DisconnectedIsLast' /\ SignalsInOrder'
  <2>1. CASE log' = log
    BY <2>1 DEF IInv, DisconnectedIsLast, SignalsInOrder, endVars
  <2>2. CASE log' = Append(log, <<"message", k>>) /\ reader[k] = "ready" /\ ~shutting[k]
    <3>1. leave[k] # "left"
      BY <2>2 DEF IInv, ReaderStopped
    <3>2. \A i \in DOMAIN log : log[i][1] = "disconnected" => log[i][2] # k
      BY <3>1 DEF IInv, DisconnectedIsLast
    <3>3. SignalsInOrder'
      BY <2>2, <3>2, SignalAppended DEF IInv, Events
    <3>4. /\ DOMAIN log' = DOMAIN log \cup {Len(log) + 1}
          /\ log'[Len(log) + 1] = <<"message", k>> /\ \A i \in DOMAIN log : log'[i] = log[i]
      BY <2>2 DEF IInv, Types
    <3>5. DisconnectedIsLast'
      BY <3>4 DEF IInv, DisconnectedIsLast, endVars
    <3>6. QED
      BY <3>3, <3>5
  <2>3. QED
    BY <2>1, <2>2
<1>4. QED
  BY <1>1, <1>2, <1>3 DEF IInv

\* A connection with a reader, a writer or a request to stop is at work.
LEMMA TouchedWorks ==
  ASSUME IInv, NEW k \in Connections, ~Untouched(k)
  PROVE  Works(k)
  BY DEF IInv, Phases, Works

\* A message or an error arrives, and its handler runs.
LEMMA ReadKeeps ==
  ASSUME IInv, NEW k \in Connections,
         ReadMessage(k) \/ ReadError(k) \/ OnReceiveError(k) \/ \E good \in BOOLEAN : OnReceive(k, good)
  PROVE  IInv'
<1>1. /\ UNCHANGED <<side, ssl, conVars, endVars, userVars, raised, shutting, sendq, sending, sent>>
      /\ reader[k] \in {"reading", "ready", "failed"}
      /\ \/ reader' = [reader EXCEPT ![k] = "ready"] /\ UNCHANGED <<complete, log>>
         \/ reader' = [reader EXCEPT ![k] = "failed"] /\ UNCHANGED <<complete, log>>
         \/ reader' = [reader EXCEPT ![k] = "ended"] /\ complete' = [complete EXCEPT ![k] = TRUE] /\ log' = log
         \/ /\ reader' = [reader EXCEPT ![k] = "reading"] /\ complete' = complete
            /\ reader[k] = "ready" /\ ~shutting[k] /\ log' = Append(log, <<"message", k>>)
  BY DEF ReadMessage, ReadError, OnReceiveError, OnReceive
<1>2. Works(k)
  BY <1>1, TouchedWorks DEF Untouched
<1>3. /\ reader' \in [Connections -> {"none", "reading", "ready", "failed", "ended"}]
      /\ complete' \in [Connections -> BOOLEAN]
      /\ \A q \in Connections : q # k => reader'[q] = reader[q] /\ complete'[q] = complete[q]
  BY <1>1 DEF IInv, Types, TypeOK
<1>4. Others(k)
  BY <1>1, <1>3 DEF Others
<1>5. Types'
  <2>1. log' \in Seq(Events \X Connections)
    <3>1. log \in Seq(Events \X Connections) /\ <<"message", k>> \in Events \X Connections
      BY DEF IInv, Types, Events
    <3>2. log' = log \/ log' = Append(log, <<"message", k>>)
      BY <1>1
    <3>3. QED
      BY <3>1, <3>2
  <2>2. QED
    BY <1>1, <1>3, <2>1 DEF IInv, Types, TypeOK, conVars, endVars, userVars
<1>6. ReaderStopped'
  BY <1>1, <1>3 DEF IInv, ReaderStopped, endVars, Types, TypeOK
<1>7. QED
  BY <1>1, <1>2, <1>4, <1>5, <1>6, IOKeeps

\* A message is queued.
LEMMA SendKeeps == ASSUME IInv, send PROVE IInv'
<1>1. /\ UNCHANGED <<side, ssl, conVars, endVars, userVars, raised, shutting, complete, reader, log>>
      /\ status = "Connected" /\ Activity < MaxActivity /\ sent' = sent + 1
      /\ sendq' = [sendq EXCEPT ![n] = @ + 1] /\ sending' = [sending EXCEPT ![n] = TRUE]
  BY DEF send
<1>2. n \in Connections /\ Works(n)
  BY <1>1 DEF IInv, Phases, Works, Types, TypeOK, Connections
<1>3. Others(n)
  BY <1>1 DEF Others, IInv, Types, TypeOK
<1>4. Types'
  <2>1. /\ sent \in Nat /\ n \in Nat /\ Received \in Nat /\ n + sent + Received < MaxActivity
        /\ MaxActivity \in Nat /\ \A k \in Connections : sendq[k] \in Nat /\ sendq[k] <= sent
        /\ sendq \in [Connections -> 0 .. MaxActivity] /\ sending \in [Connections -> BOOLEAN]
    BY <1>1, SocketAssumption, ReceivedIsNat DEF IInv, Types, TypeOK, Activity
  <2>2. sent' \in 0 .. MaxActivity
    BY <1>1, <2>1
  <2>3. /\ \A k \in Connections : sendq'[k] \in 0 .. MaxActivity /\ sendq'[k] <= sent'
        /\ \A k \in Connections : sending'[k] => sendq'[k] > 0
    BY <1>1, <1>2, <2>1 DEF IInv, Types
  <2>4. sendq' \in [Connections -> 0 .. MaxActivity] /\ sending' \in [Connections -> BOOLEAN]
    BY <1>1, <2>1, <2>3
  <2>5. QED
    BY <1>1, <2>2, <2>3, <2>4 DEF IInv, Types, TypeOK, conVars, endVars, userVars
<1>5. ReaderStopped'
  BY <1>1 DEF IInv, ReaderStopped, endVars
<1>6. QED
  BY <1>1, <1>2, <1>3, <1>4, <1>5, IOKeeps

\* A message is written, and the next one if the socket is not shut down.
LEMMA WriteKeeps == ASSUME IInv, NEW k \in Connections, WriteDone(k) PROVE IInv'
<1>1. /\ UNCHANGED <<side, ssl, conVars, endVars, userVars, raised, shutting, reader, sent, log>>
      /\ sending[k] /\ sendq' = [sendq EXCEPT ![k] = @ - 1]
      /\ sending' = [sending EXCEPT ![k] = ~shutting[k] /\ sendq[k] > 1]
      /\ complete' = [complete EXCEPT ![k] = @ \/ shutting[k]]
  BY DEF WriteDone
<1>2. Works(k)
  BY <1>1, TouchedWorks DEF Untouched
<1>3. Others(k)
  BY <1>1 DEF Others, IInv, Types, TypeOK
<1>4. Types'
  <2>1. /\ sent \in Nat /\ MaxActivity \in Nat
        /\ \A q \in Connections : sendq[q] \in 0 .. MaxActivity /\ sendq[q] <= sent
        /\ sendq \in [Connections -> 0 .. MaxActivity] /\ sending \in [Connections -> BOOLEAN]
        /\ complete \in [Connections -> BOOLEAN] /\ sendq[k] > 0
    BY <1>1, SocketAssumption DEF IInv, Types, TypeOK
  <2>2. ASSUME NEW q \in Connections
        PROVE  sendq'[q] \in 0 .. MaxActivity /\ sendq'[q] <= sent /\ (sending'[q] => sendq'[q] > 0)
    <3>1. CASE q = k
      <4>1. sendq'[k] = sendq[k] - 1
        BY <1>1, <2>1
      <4>2. sending'[k] => sendq[k] > 1
        BY <1>1, <2>1
      <4>3. sendq[k] \in 0 .. MaxActivity /\ sendq[k] <= sent
        BY <2>1
      <4>4. QED
        BY <2>1, <3>1, <4>1, <4>2, <4>3
    <3>2. CASE q # k
      BY <1>1, <2>1, <3>2 DEF IInv, Types
    <3>3. QED
      BY <3>1, <3>2
  <2>3. sendq' \in [Connections -> 0 .. MaxActivity]
    BY <1>1, <2>1, <2>2
  <2>4. sending' \in [Connections -> BOOLEAN] /\ complete' \in [Connections -> BOOLEAN]
    BY <1>1, <2>1
  <2>5. QED
    BY <1>1, <2>2, <2>3, <2>4 DEF IInv, Types, TypeOK, conVars, endVars, userVars
<1>5. ReaderStopped'
  BY <1>1 DEF IInv, ReaderStopped, endVars, Types, TypeOK
<1>6. QED
  BY <1>1, <1>2, <1>3, <1>4, <1>5, IOKeeps

\* The socket is shut down.
LEMMA ShutdownKeeps == ASSUME IInv, NEW k \in Connections, Shutdown(k) PROVE IInv'
<1>1. /\ UNCHANGED <<side, ssl, conVars, endVars, userVars, raised, complete, reader, sendq, sending, sent, log>>
      /\ raised[k] /\ shutting' = [shutting EXCEPT ![k] = TRUE]
  BY DEF Shutdown
<1>2. Works(k)
  BY <1>1, TouchedWorks DEF Untouched
<1>3. Others(k)
  BY <1>1 DEF Others, IInv, Types, TypeOK
<1>4. Types'
  BY <1>1 DEF IInv, Types, TypeOK, conVars, endVars, userVars
<1>5. ReaderStopped'
  BY <1>1 DEF IInv, ReaderStopped, endVars, Types, TypeOK
<1>6. QED
  BY <1>1, <1>2, <1>3, <1>4, <1>5, IOKeeps

-----------------------------------------------------------------------------
(* Connecting.                                                             *)

\* A step of the network, or of ensureReading() up to its second lock.
LEMMA WaitKeeps == ASSUME IInv, ConnectStep \/ ensureReading \/ ReadingRelock PROVE IInv'
<1>1. /\ UNCHANGED <<side, ssl, status, n, stopReq, holder, conFut, ioVars, endVars, userVars, log>>
      /\ step' \in {"connect", "handshake", "ok", "error"} \/ step' = step
      /\ \/ starter' = starter
         \/ starter' = "locked" /\ side = "server" /\ status = "Connecting"
         \/ starter' = "relock" /\ starter = "locked"
  BY DEF ConnectStep, ensureReading, ReadingRelock, NextStep
<1>2. Types'
  BY <1>1 DEF IInv, Types, TypeOK, ioVars, endVars, userVars
<1>3. Phases' /\ ReaderStopped'
  BY <1>1 DEF IInv, Phases, Untouched, ReaderStopped, ioVars, endVars
<1>4. Starts'
  BY <1>1 DEF IInv, Starts, endVars
<1>5. DisconnectedIsLast' /\ SignalsInOrder'
  BY <1>1 DEF IInv, DisconnectedIsLast, SignalsInOrder, endVars
<1>6. PromisesOwned' /\ DisconnectedWhenTold'
  BY <1>1 DEF IInv, PromisesOwned, Own, Held, DisconnectedWhenTold, endVars, userVars
<1>7. QED
  BY <1>2, <1>3, <1>4, <1>5, <1>6 DEF IInv

\* connect() gives out the next number.
LEMMA ConnectKeeps == ASSUME IInv, connect PROVE IInv'
<1>1. /\ UNCHANGED <<side, ssl, ioVars, endVars, userVars, log>>
      /\ side = "client" /\ status = "Disconnected" /\ n < MaxConnects
      /\ status' = "Connecting" /\ n' = n + 1 /\ step' = "resolve" /\ stopReq' = FALSE
      /\ holder' = NoCaller /\ conFut' = "running" /\ starter' = "wait"
  BY DEF connect
<1>2. n \in Nat /\ MaxConnects \in Nat /\ n + 1 \in Connections /\ n + 1 \in 0 .. MaxConnects
  BY <1>1, SocketAssumption DEF IInv, Types, TypeOK, Connections
<1>3. Types'
  BY <1>1, <1>2 DEF IInv, Types, TypeOK, Promises, ioVars, endVars, userVars
<1>4. Phases'
  <2>1. \A k \in Connections : k \in Nat /\ (k < n + 1 => k < n \/ k = n) /\ (k > n + 1 => k > n)
    BY <1>2 DEF Connections
  <2>2. closing[n + 1] = "none" /\ Untouched(n + 1)
    BY <1>2 DEF IInv, Phases
  <2>3. \A k \in Connections : Untouched(k)' = Untouched(k)
    BY <1>1 DEF Untouched, ioVars, endVars
  <2>4. closing' = closing /\ leave' = leave
    BY <1>1 DEF endVars
  <2>5. ASSUME NEW k \in Connections
        PROVE  /\ k < n + 1 => closing[k] \in Over
               /\ k > n + 1 => closing[k] = "none" /\ Untouched(k)
               /\ leave[k] = "left" \/ Untouched(k)
    <3>1. k = n => n # 0
      BY DEF Connections
    <3>2. QED
      BY <1>1, <2>1, <3>1 DEF IInv, Phases
  <2>6. Untouched(n)'
    BY <1>1, <1>2, <2>2 DEF Untouched, ioVars, endVars
  <2>7. /\ n + 1 > 0 /\ n' = n + 1 /\ status' = "Connecting"
    BY <1>1, <1>2
  <2>8. QED
    BY <2>2, <2>3, <2>4, <2>5, <2>6, <2>7 DEF Phases
<1>5. Starts' /\ ReaderStopped'
  BY <1>1 DEF IInv, Starts, ReaderStopped, ioVars, endVars
<1>6. DisconnectedIsLast' /\ SignalsInOrder'
  BY <1>1 DEF IInv, DisconnectedIsLast, SignalsInOrder, endVars
<1>7. DisconnectedWhenTold'
  BY <1>1 DEF IInv, DisconnectedWhenTold, endVars, userVars
<1>8. PromisesOwned'
  <2>1. \A c \in Callers : about[c] \in Nat
    BY DEF IInv, Types, TypeOK
  <2>2. \A c \in Callers : about[c] <= n => about[c] <= n'
    BY <1>1, <1>2, <2>1
  <2>3. QED
    BY <1>1, <2>2, SocketAssumption DEF IInv, PromisesOwned, Own, Held, endVars, userVars
<1>9. QED
  BY <1>3, <1>4, <1>5, <1>6, <1>7, <1>8 DEF IInv

\* The connection is there: it is read, and has a result of its own.
LEMMA ConnectedKeeps ==
  ASSUME IInv, EnterConnected, status = "Connecting",
         UNCHANGED <<side, ssl, n, conFut, follows, about, log>>,
         step' = step, stopReq' = stopReq,
         side = "client" => conFut = "running",
         lost' \subseteq lost \cup ({holder} \ {NoCaller})
  PROVE  IInv'
<1>1. /\ status' = "Connected" /\ holder' = NoCaller /\ starter' = "emit"
      /\ reader' = [reader EXCEPT ![n] = "reading"]
      /\ UNCHANGED <<raised, shutting, complete, sendq, sending, sent, endVars, fut>>
  BY DEF EnterConnected
<1>2. n \in Connections /\ n > 0 /\ closing[n] = "none" /\ Untouched(n)
  BY DEF IInv, Phases, Types, TypeOK, Connections
<1>3. /\ reader' \in [Connections -> {"none", "reading", "ready", "failed", "ended"}]
      /\ \A q \in Connections : q # n => reader'[q] = reader[q]
  BY <1>1 DEF IInv, Types, TypeOK
<1>4. lost' \subseteq Callers
  BY DEF IInv, Types, TypeOK, Promises
<1>5. Types'
  BY <1>1, <1>3, <1>4 DEF IInv, Types, TypeOK, Promises, endVars
<1>6. Phases'
  BY <1>1, <1>2, <1>3 DEF IInv, Phases, Untouched, endVars, Types, TypeOK, Connections
<1>7. Starts' /\ ReaderStopped'
  BY <1>1, <1>2, <1>3 DEF IInv, Starts, ReaderStopped, Untouched, endVars
<1>8. DisconnectedIsLast' /\ SignalsInOrder' /\ DisconnectedWhenTold'
  BY <1>1 DEF IInv, DisconnectedIsLast, SignalsInOrder, DisconnectedWhenTold, endVars
<1>9. PromisesOwned'
  <2>1. \A c \in lost' : fut[c] = "pending" /\ follows[c] = c
    BY <1>4 DEF IInv, PromisesOwned, Own, Held
  <2>2. ASSUME NEW k \in Connections
        PROVE  /\ leave[k] # "copied"
               /\ closing[k] # "done" => Held(given[k])'
    <3>1. leave[k] # "copied"
      BY <1>2 DEF IInv, Phases, Untouched
    <3>2. ASSUME closing[k] # "done", given[k] = holder, holder \in Callers PROVE FALSE
      <4>1. k = n
        BY <3>2 DEF IInv, PromisesOwned, Own
      <4>2. given[n] = NoCaller
        BY <1>2 DEF IInv, PromisesOwned
      <4>3. QED
        BY <3>2, <4>1, <4>2, SocketAssumption
    <3>3. QED
      BY <1>1, <3>1, <3>2 DEF IInv, PromisesOwned, Held, endVars
  <2>3. QED
    BY <1>1, <2>1, <2>2, SocketAssumption DEF IInv, PromisesOwned, Own, Held, endVars
<1>10. QED
  BY <1>5, <1>6, <1>7, <1>8, <1>9 DEF IInv

\* The connection ends: the socket is to be closed, and a promise goes with it.
LEMMA DisconnectingKeeps ==
  ASSUME IInv, NEW p \in Promises, enterDisconnectedState(n, p),
         UNCHANGED <<side, ssl, n, step, stopReq, holder, ioVars, copied, follows, about, log>>,
         status \in {"Connecting", "Connected"},
         Own(p, n), Held(p),
         \/ status = "Connecting" /\ leave' = leave /\ lost' = lost /\ starter' = "none"
         \/ /\ status = "Connected" /\ leave[n] = "copied" /\ leave' = [leave EXCEPT ![n] = "left"]
            /\ lost' = lost \cup ({holder} \ {p, NoCaller}) /\ UNCHANGED <<conFut, starter>>,
         conFut' \in {"none", "running", "value", "error"}
  PROVE  IInv'
<1>1. /\ status' = "Disconnecting" /\ closing' = [closing EXCEPT ![n] = "closing"]
      /\ given' = [given EXCEPT ![n] = p] /\ fut' = fut
  BY DEF enterDisconnectedState
<1>2. n \in Connections /\ n > 0 /\ closing[n] = "none" /\ given[n] = NoCaller
  BY DEF IInv, Phases, Types, TypeOK, Connections, PromisesOwned
<1>3. /\ closing' \in [Connections -> {"none", "closing", "closed", "signals", "done"}]
      /\ given' \in [Connections -> Promises]
      /\ closing'[n] = "closing" /\ given'[n] = p
      /\ \A q \in Connections : q # n => closing'[q] = closing[q] /\ given'[q] = given[q]
  BY <1>1, <1>2 DEF IInv, Types, TypeOK
<1>4. /\ leave' \in [Connections -> {"none", "copied", "left"}]
      /\ \A q \in Connections : q # n => leave'[q] = leave[q]
      /\ leave'[n] # "copied" /\ (leave[n] # "none" => leave'[n] = "left")
      /\ leave'[n] = "left" \/ (status = "Connecting" /\ leave'[n] = leave[n])
      /\ leave'[n] # "none" => leave[n] # "none"
  BY <1>2 DEF IInv, Types, TypeOK, Phases, Untouched
<1>5. lost' \subseteq Callers /\ lost \subseteq lost' /\ lost' \subseteq lost \cup ({holder} \ {p, NoCaller})
  BY DEF IInv, Types, TypeOK, Promises
<1>6. Types'
  BY <1>1, <1>3, <1>4, <1>5 DEF IInv, Types, TypeOK, ioVars
<1>7. Phases'
  BY <1>1, <1>2, <1>3, <1>4 DEF IInv, Phases, Untouched, ioVars, Types, TypeOK, Connections
<1>8. Starts'
  BY <1>1, <1>2, <1>4 DEF IInv, Starts, Phases, Untouched
<1>9. ReaderStopped'
  BY <1>4 DEF IInv, ReaderStopped, ioVars
<1>10. DisconnectedIsLast'
  <2>1. \A i \in DOMAIN log : log[i][2] \in Connections
    BY DEF IInv, Types
  <2>2. QED
    BY <1>2, <1>3, <1>4, <2>1 DEF IInv, DisconnectedIsLast
<1>11. SignalsInOrder'
  BY DEF IInv, SignalsInOrder
<1>12. DisconnectedWhenTold'
  <2>1. \A c \in Callers : about[c] > 0 => about[c] \in Connections
    BY DEF IInv, Types, TypeOK, Connections
  <2>2. QED
    BY <1>1, <1>2, <1>3, <2>1 DEF IInv, DisconnectedWhenTold
<1>13. PromisesOwned'
  <2>1. \A c \in lost' : fut[c] = "pending" /\ follows[c] = c
    BY <1>5 DEF IInv, PromisesOwned, Own, Held
  <2>2. ASSUME NEW k \in Connections
        PROVE  /\ Own(given[k], k)' /\ Own(copied[k], k)'
               /\ leave'[k] = "copied" => Held(copied[k])'
               /\ closing'[k] # "done" => Held(given[k])'
               /\ closing'[k] = "none" => given'[k] = NoCaller
    <3>1. CASE k = n
      BY <1>1, <1>3, <1>4, <1>5, <3>1 DEF IInv, PromisesOwned, Own, Held
    <3>2. CASE k # n
      <4>1. leave'[k] # "copied"
        BY <1>4, <3>2 DEF IInv, Phases, Untouched
      <4>2. given[k] \in Callers => given[k] # holder
        BY <3>2 DEF IInv, PromisesOwned, Own
      <4>3. QED
        BY <1>1, <1>3, <1>5, <3>2, <4>1, <4>2 DEF IInv, PromisesOwned, Own, Held
    <3>3. QED
      BY <3>1, <3>2
  <2>3. QED
    BY <1>1, <2>1, <2>2 DEF IInv, PromisesOwned, Own, Held
<1>14. QED
  BY <1>6, <1>7, <1>8, <1>9, <1>10, <1>11, <1>12, <1>13 DEF IInv

\* The continuation of connect(), and the end of ensureReading().
LEMMA StartKeeps == ASSUME IInv, ConnectDone \/ ReadingDone PROVE IInv'
<1>1. /\ status = "Connecting" /\ holder \in Promises /\ Own(holder, n) /\ Held(holder)
      /\ starter = "wait" => side = "client" /\ conFut = "running"
      /\ starter = "relock" => side = "server"
      /\ conFut \in {"none", "running", "value", "error"}
  BY DEF ConnectDone, ReadingDone, IInv, Starts, PromisesOwned, Types, TypeOK
<1>2. CASE ConnectDone /\ (stopReq \/ step = "error")
  BY <1>1, <1>2, DisconnectingKeeps DEF ConnectDone
<1>3. CASE ConnectDone /\ ~(stopReq \/ step = "error")
  BY <1>1, <1>3, ConnectedKeeps DEF ConnectDone
<1>4. CASE ReadingDone /\ step = "error"
  BY <1>1, <1>4, DisconnectingKeeps DEF ReadingDone
<1>5. CASE ReadingDone /\ step # "error"
  BY <1>1, <1>5, ConnectedKeeps DEF ReadingDone
<1>6. QED
  BY <1>2, <1>3, <1>4, <1>5

\* `connected` is emitted.
LEMMA EmitConnectedKeeps == ASSUME IInv, EmitConnected PROVE IInv'
<1>1. /\ starter = "emit" /\ log' = Append(log, <<"connected", n>>) /\ starter' = "none"
      /\ conFut' \in {"value", conFut}
      /\ UNCHANGED <<side, ssl, status, n, step, stopReq, holder, ioVars, endVars, userVars>>
  BY DEF EmitConnected
<1>2. n \in Connections /\ side \in {"client", "server"}
  BY <1>1 DEF IInv, Starts, Types, TypeOK, Connections
<1>3. side = "client" => \A i \in DOMAIN log : log[i][1] = "disconnected" => log[i][2] # n
  BY <1>1 DEF IInv, Starts, Phases, DisconnectedIsLast
<1>4. SignalsInOrder' /\ log' \in Seq(Events \X Connections)
  BY <1>1, <1>2, <1>3, SignalAppended DEF IInv, Events
<1>5. Types'
  BY <1>1, <1>4 DEF IInv, Types, TypeOK, ioVars, endVars, userVars
<1>6. Phases' /\ Starts' /\ ReaderStopped'
  BY <1>1 DEF IInv, Phases, Starts, ReaderStopped, Untouched, ioVars, endVars
<1>7. DisconnectedIsLast'
  <2>1. /\ DOMAIN log' = DOMAIN log \cup {Len(log) + 1}
        /\ log'[Len(log) + 1] = <<"connected", n>> /\ \A i \in DOMAIN log : log'[i] = log[i]
    BY <1>1 DEF IInv, Types
  <2>2. QED
    BY <1>1, <2>1 DEF IInv, DisconnectedIsLast, endVars
<1>8. PromisesOwned' /\ DisconnectedWhenTold'
  BY <1>1 DEF IInv, PromisesOwned, Own, Held, DisconnectedWhenTold, endVars, userVars
<1>9. QED
  BY <1>4, <1>5, <1>6, <1>7, <1>8 DEF IInv

-----------------------------------------------------------------------------
(* The end of a connection.                                                *)

\* OnConnectedComplete copies the result of the connection that is over: the one
\* the socket is in.
LEMMA CopyKeeps == ASSUME IInv, NEW k \in Connections, CopyResult(k) PROVE IInv'
<1>1. /\ complete[k] /\ leave[k] = "none" /\ conFut # "running"
      /\ leave' = [leave EXCEPT ![k] = "copied"] /\ copied' = [copied EXCEPT ![k] = holder]
      /\ UNCHANGED <<side, ssl, conVars, ioVars, closing, given, userVars, log>>
  BY DEF CopyResult
<1>2. k = n /\ status = "Connected"
  BY <1>1 DEF IInv, Phases, Untouched
<1>3. /\ leave' \in [Connections -> {"none", "copied", "left"}] /\ leave'[k] = "copied"
      /\ copied' \in [Connections -> Promises] /\ copied'[k] = holder
      /\ \A q \in Connections : q # k => leave'[q] = leave[q] /\ copied'[q] = copied[q]
  BY <1>1 DEF IInv, Types, TypeOK
<1>4. Types'
  BY <1>1, <1>3 DEF IInv, Types, TypeOK, conVars, ioVars, userVars
<1>5. Phases'
  BY <1>1, <1>2, <1>3 DEF IInv, Phases, Untouched, conVars, ioVars
<1>6. Starts' /\ ReaderStopped'
  BY <1>1, <1>2, <1>3 DEF IInv, Starts, ReaderStopped, conVars, ioVars
<1>7. DisconnectedIsLast'
  <2>1. \A i \in DOMAIN log : log[i][2] \in Connections
    BY DEF IInv, Types
  <2>2. QED
    BY <1>1, <1>3, <2>1 DEF IInv, DisconnectedIsLast
<1>8. SignalsInOrder' /\ DisconnectedWhenTold'
  BY <1>1 DEF IInv, SignalsInOrder, DisconnectedWhenTold, userVars
<1>9. PromisesOwned'
  BY <1>1, <1>2, <1>3 DEF IInv, PromisesOwned, Own, Held, conVars, userVars
<1>10. QED
  BY <1>4, <1>5, <1>6, <1>7, <1>8, <1>9 DEF IInv

\* It enters the disconnecting state with the promise it has copied.
LEMMA LeaveKeeps == ASSUME IInv, NEW k \in Connections, LeaveConnected(k) PROVE IInv'
<1>1. /\ leave[k] = "copied" /\ leave' = [leave EXCEPT ![k] = "left"]
      /\ enterDisconnectedState(k, copied[k])
      /\ lost' = lost \cup ({holder} \ {copied[k], NoCaller})
      /\ UNCHANGED <<side, ssl, n, step, stopReq, holder, conFut, starter, ioVars, copied, follows, about, log>>
  BY DEF LeaveConnected
<1>2. k = n /\ status = "Connected"
  BY <1>1 DEF IInv, Phases, Untouched
<1>3. /\ copied[n] \in Promises /\ Own(copied[n], n) /\ Held(copied[n])
      /\ conFut \in {"none", "running", "value", "error"}
  BY <1>1, <1>2 DEF IInv, PromisesOwned, Types, TypeOK
<1>4. QED
  BY <1>1, <1>2, <1>3, DisconnectingKeeps

\* The socket is closed; its continuation enters the disconnected state.
LEMMA CloseKeeps ==
  ASSUME IInv, NEW k \in Connections, CloseSocket(k) \/ EnterDisconnected(k)
  PROVE  IInv'
<1>1. /\ UNCHANGED <<side, ssl, n, step, stopReq, holder, conFut, starter, ioVars, leave, copied,
                     given, userVars, log>>
      /\ \/ /\ closing[k] = "closing" /\ closing' = [closing EXCEPT ![k] = "closed"] /\ status' = status
         \/ /\ closing[k] = "closed" /\ closing' = [closing EXCEPT ![k] = "signals"]
            /\ status' = "Disconnected" /\ Unlocked
  BY DEF CloseSocket, EnterDisconnected, conVars
<1>2. k = n /\ status = "Disconnecting"
  <2>1. k \in Nat /\ n \in Nat /\ closing[k] \notin Over /\ closing[k] # "none"
    BY <1>1 DEF IInv, Types, TypeOK, Connections, Over
  <2>2. k = n
    BY <2>1 DEF IInv, Phases
  <2>3. QED
    BY <2>1, <2>2 DEF IInv, Phases, Types, TypeOK, Connections
<1>3. /\ closing' \in [Connections -> {"none", "closing", "closed", "signals", "done"}]
      /\ closing'[k] \in {"closed", "signals"}
      /\ \A q \in Connections : q # k => closing'[q] = closing[q]
  BY <1>1, ZenonT(60) DEF IInv, Types, TypeOK
<1>4. Types'
  BY <1>1, <1>3 DEF IInv, Types, TypeOK, ioVars, userVars
<1>5. Phases'
  <2>1. \/ status' = "Disconnecting" /\ closing'[k] = "closed"
        \/ status' = "Disconnected" /\ closing'[k] = "signals"
    BY <1>1, <1>2 DEF IInv, Types, TypeOK
  <2>2. QED
    BY <1>1, <1>2, <1>3, <2>1 DEF IInv, Phases, Untouched, Over, ioVars, Types, TypeOK, Connections
<1>6. Starts' /\ ReaderStopped'
  BY <1>1, <1>2 DEF IInv, Starts, ReaderStopped, ioVars
<1>7. DisconnectedIsLast'
  <2>1. \A i \in DOMAIN log : log[i][2] \in Connections
    BY DEF IInv, Types
  <2>2. QED
    BY <1>1, <1>3, <2>1 DEF IInv, DisconnectedIsLast
<1>8. SignalsInOrder'
  BY <1>1 DEF IInv, SignalsInOrder
<1>9. DisconnectedWhenTold'
  <2>1. \A c \in Callers : about[c] > 0 => about[c] \in Connections
    BY DEF IInv, Types, TypeOK, Connections
  <2>2. QED
    BY <1>1, <1>3, <2>1 DEF IInv, DisconnectedWhenTold, userVars
<1>10. PromisesOwned'
  BY <1>1, <1>2, <1>3 DEF IInv, PromisesOwned, Own, Held, userVars
<1>11. QED
  BY <1>4, <1>5, <1>6, <1>7, <1>8, <1>9, <1>10 DEF IInv

\* Its end: `disconnected`, and the promise is kept.
LEMMA EmitDisconnectedKeeps == ASSUME IInv, NEW k \in Connections, EmitDisconnected(k) PROVE IInv'
<1>1. /\ closing[k] = "signals" /\ closing' = [closing EXCEPT ![k] = "done"]
      /\ log' = IF leave[k] = "left" THEN Append(log, <<"disconnected", k>>) ELSE log
      /\ fut' = [c \in Callers |-> IF c = given[k] THEN "value" ELSE fut[c]]
      /\ UNCHANGED <<side, ssl, conVars, ioVars, leave, copied, given, follows, about, lost>>
  BY DEF EmitDisconnected
<1>2. /\ closing' \in [Connections -> {"none", "closing", "closed", "signals", "done"}]
      /\ closing'[k] = "done" /\ \A q \in Connections : q # k => closing'[q] = closing[q]
      /\ fut' \in [Callers -> {"none", "pending", "value", "broken"}]
      /\ \A c \in Callers : c # given[k] => fut'[c] = fut[c]
      /\ \A c \in Callers : c = given[k] => fut'[c] = "value"
      /\ \A i \in DOMAIN log : log[i][2] \in Connections
  BY <1>1 DEF IInv, Types, TypeOK
<1>3. SignalsInOrder' /\ log' \in Seq(Events \X Connections)
  <2>1. CASE leave[k] = "left"
    <3>1. \A i \in DOMAIN log : log[i][1] = "disconnected" => log[i][2] # k
      BY <1>1 DEF IInv, DisconnectedIsLast
    <3>2. QED
      BY <1>1, <2>1, <3>1, SignalAppended DEF IInv, Events
  <2>2. CASE leave[k] # "left"
    BY <1>1, <2>2 DEF IInv, SignalsInOrder, Types
  <2>3. QED
    BY <2>1, <2>2
<1>4. Types'
  BY <1>1, <1>2, <1>3 DEF IInv, Types, TypeOK, conVars, ioVars
<1>5. Phases' /\ Starts' /\ ReaderStopped'
  <2>1. status = "Disconnected" => n = 0 \/ closing'[n] \in Over
    BY <1>2 DEF IInv, Phases, Over, Types, TypeOK, Connections
  <2>2. QED
    BY <1>1, <1>2, <2>1 DEF IInv, Phases, Starts, ReaderStopped, Untouched, Over, conVars, ioVars, Types, TypeOK, Connections
<1>6. DisconnectedIsLast'
  <2>1. CASE leave[k] = "left"
    <3>1. /\ DOMAIN log' = DOMAIN log \cup {Len(log) + 1}
          /\ log'[Len(log) + 1] = <<"disconnected", k>> /\ \A i \in DOMAIN log : log'[i] = log[i]
      BY <1>1, <2>1 DEF IInv, Types
    <3>2. ASSUME NEW i \in DOMAIN log', log'[i][1] = "disconnected"
          PROVE  closing'[log'[i][2]] = "done" /\ leave[log'[i][2]] = "left"
      BY <1>2, <2>1, <3>1, <3>2 DEF IInv, DisconnectedIsLast
    <3>3. QED
      BY <1>1, <3>2 DEF DisconnectedIsLast
  <2>2. CASE leave[k] # "left"
    BY <1>1, <1>2, <2>2 DEF IInv, DisconnectedIsLast
  <2>3. QED
    BY <2>1, <2>2
<1>7. DisconnectedWhenTold'
  <2> SUFFICES ASSUME NEW c \in Callers, fut'[c] = "value", follows[c] # "close", about[c] > 0
               PROVE  closing'[about[c]] \in {"signals", "done"}
    BY <1>1 DEF DisconnectedWhenTold
  <2>1. about[c] \in Connections
    BY DEF IInv, Types, TypeOK, Connections
  <2>2. CASE c = given[k]
    BY <1>2, <2>2 DEF IInv, PromisesOwned, Own
  <2>3. CASE c # given[k]
    BY <1>2, <2>1, <2>3 DEF IInv, DisconnectedWhenTold
  <2>4. QED
    BY <2>2, <2>3
<1>8. PromisesOwned'
  <2>1. \A c \in Callers : fut[c] # "none" => fut'[c] # "none"
    BY <1>2
  <2>2. \A c \in Callers : fut'[c] = "none" => fut[c] = "none"
    BY <1>2
  <2>3. ASSUME NEW q \in Connections, q # k, given[q] \in Callers PROVE given[q] # given[k]
    BY <2>3 DEF IInv, PromisesOwned, Own
  <2>4. ASSUME NEW q \in Connections, leave[q] = "copied", copied[q] \in Callers PROVE copied[q] # given[k]
    <3>1. q = n /\ status = "Connected" /\ closing[n] = "none" /\ q # k
      BY <1>1, <2>4 DEF IInv, Phases, Untouched
    <3>2. QED
      BY <2>4, <3>1 DEF IInv, PromisesOwned, Own
  <2>5. status \in {"Connecting", "Connected"} /\ holder \in Callers => holder # given[k]
    <3>1. status \in {"Connecting", "Connected"} => n # k
      BY <1>1 DEF IInv, Phases
    <3>2. QED
      BY <3>1 DEF IInv, PromisesOwned, Own
  <2>6. \A c \in lost : c # given[k] /\ c \in Callers
    BY <1>1 DEF IInv, PromisesOwned, Held, Types, TypeOK
  <2>7. Own(holder, n)' /\ \A q \in Connections : Own(copied[q], q)' /\ Own(given[q], q)'
    BY <1>1, <2>1 DEF IInv, PromisesOwned, Own, conVars
  <2>8. status' \in {"Connecting", "Connected"} => Held(holder)'
    BY <1>1, <1>2, <2>5 DEF IInv, PromisesOwned, Held, conVars
  <2>9. ASSUME NEW q \in Connections
         PROVE  /\ leave'[q] = "copied" => Held(copied[q])'
                /\ closing'[q] # "done" => Held(given[q])'
                /\ closing'[q] = "none" => given'[q] = NoCaller
    BY <1>1, <1>2, <2>3, <2>4 DEF IInv, PromisesOwned, Held
  <2>10. \A c \in lost' : fut'[c] = "pending" /\ follows'[c] = c
    BY <1>1, <1>2, <2>6 DEF IInv, PromisesOwned
  <2>11. \A c \in Callers :
           /\ follows'[c] \in Callers => /\ about'[follows'[c]] = about'[c]
                                         /\ follows'[follows'[c]] = follows'[c]
                                         /\ fut'[follows'[c]] # "none"
           /\ fut'[c] = "none" => follows'[c] = NoCaller
           /\ about'[c] <= n'
    BY <1>1, <2>1, <2>2 DEF IInv, PromisesOwned, conVars
  <2>12. QED
    BY <2>7, <2>8, <2>9, <2>10, <2>11 DEF PromisesOwned
<1>9. QED
  BY <1>3, <1>4, <1>5, <1>6, <1>7, <1>8 DEF IInv

-----------------------------------------------------------------------------
(* disconnect().                                                           *)

\* Steps that only settle a future.
LEMMA SettleKeeps ==
  ASSUME IInv, NEW c \in Callers, NEW v \in {"value", "broken"}, fut' = [fut EXCEPT ![c] = v],
         UNCHANGED <<side, ssl, conVars, ioVars, endVars, follows, about, log>>,
         lost' = lost \ {c},
         c \in lost \/ follows[c] # c,
         fut[c] = "pending",
         (v = "value" /\ follows[c] # "close" /\ about[c] > 0) => closing[about[c]] \in {"signals", "done"}
  PROVE  IInv'
<1>1. /\ fut' \in [Callers -> {"none", "pending", "value", "broken"}] /\ fut'[c] = v
      /\ \A d \in Callers : d # c => fut'[d] = fut[d]
  BY DEF IInv, Types, TypeOK
<1>2. Types'
  BY <1>1 DEF IInv, Types, TypeOK, conVars, ioVars, endVars
<1>3. Phases' /\ Starts' /\ ReaderStopped'
  BY DEF IInv, Phases, Starts, ReaderStopped, Untouched, conVars, ioVars, endVars
<1>4. DisconnectedIsLast' /\ SignalsInOrder'
  BY DEF IInv, DisconnectedIsLast, SignalsInOrder, endVars
<1>5. DisconnectedWhenTold'
  BY <1>1 DEF IInv, DisconnectedWhenTold, endVars
<1>6. PromisesOwned'
  <2>1. \A d \in Callers : fut'[d] = "none" <=> fut[d] = "none"
    BY <1>1
  <2>2. ASSUME NEW p \in Promises, NEW k, Own(p, k), Held(p) PROVE p # c
    BY <2>2 DEF Own, Held
  <2>3. Own(holder, n)' /\ \A q \in Connections : Own(copied[q], q)' /\ Own(given[q], q)'
    BY <2>1 DEF IInv, PromisesOwned, Own, conVars, endVars
  <2>4. status' \in {"Connecting", "Connected"} => Held(holder)'
    <3>1. holder \in Promises /\ Own(holder, n)
      BY DEF IInv, PromisesOwned, Types, TypeOK
    <3>2. QED
      BY <1>1, <2>2, <3>1 DEF IInv, PromisesOwned, Held, conVars
  <2>5. ASSUME NEW q \in Connections
        PROVE  /\ leave'[q] = "copied" => Held(copied[q])'
               /\ closing'[q] # "done" => Held(given[q])'
               /\ closing'[q] = "none" => given'[q] = NoCaller
    <3>1. /\ copied[q] \in Promises /\ given[q] \in Promises
          /\ Own(copied[q], q) /\ Own(given[q], q)
      BY DEF IInv, PromisesOwned, Types, TypeOK
    <3>2. QED
      BY <1>1, <2>2, <3>1 DEF IInv, PromisesOwned, Held, endVars
  <2>6. \A d \in lost' : fut'[d] = "pending" /\ follows'[d] = d
    BY <1>1 DEF IInv, PromisesOwned, Types, TypeOK
  <2>7. \A d \in Callers :
          /\ follows'[d] \in Callers => /\ about'[follows'[d]] = about'[d]
                                        /\ follows'[follows'[d]] = follows'[d]
                                        /\ fut'[follows'[d]] # "none"
          /\ fut'[d] = "none" => follows'[d] = NoCaller
          /\ about'[d] <= n'
    BY <2>1 DEF IInv, PromisesOwned, conVars
  <2>8. QED
    BY <2>3, <2>4, <2>5, <2>6, <2>7 DEF PromisesOwned
<1>7. QED
  BY <1>2, <1>3, <1>4, <1>5, <1>6 DEF IInv

\* A call that follows the promise of another one, or the end of the socket, and a
\* promise that goes with the last reference to it.
LEMMA FollowingKeeps == ASSUME IInv, NEW c \in Callers, Following(c) PROVE IInv'
<1>1. CASE Break(c)
  <2>1. /\ c \in lost /\ lost' = lost \ {c} /\ fut' = [fut EXCEPT ![c] = "broken"]
        /\ UNCHANGED <<side, ssl, conVars, ioVars, endVars, follows, about, log>>
    BY <1>1 DEF Break
  <2>2. fut[c] = "pending"
    BY <2>1 DEF IInv, PromisesOwned
  <2>3. QED
    BY <2>1, <2>2, SettleKeeps
<1>2. CASE Follow(c)
  <2>1. /\ fut[c] = "pending" /\ lost' = lost
        /\ UNCHANGED <<side, ssl, conVars, ioVars, endVars, follows, about, log>>
    BY <1>2 DEF Follow
  <2>2. PICK v \in {"value", "broken"} :
          /\ fut' = [fut EXCEPT ![c] = v]
          /\ \/ follows[c] = "close"
             \/ follows[c] \in Callers \ {c} /\ v = fut[follows[c]]
    BY <1>2 DEF Follow
  <2>3. follows[c] # c /\ c \notin lost
    BY <2>2, SocketAssumption DEF IInv, PromisesOwned
  <2>4. lost' = lost \ {c}
    BY <2>1, <2>3
  <2>5. (v = "value" /\ follows[c] # "close" /\ about[c] > 0) => closing[about[c]] \in {"signals", "done"}
    <3> SUFFICES ASSUME v = "value", follows[c] # "close", about[c] > 0
                 PROVE  closing[about[c]] \in {"signals", "done"}
      OBVIOUS
    <3> DEFINE d == follows[c]
    <3>1. d \in Callers /\ fut[d] = "value" /\ about[d] = about[c] /\ follows[d] = d /\ d # "close"
      BY <2>2, SocketAssumption DEF IInv, PromisesOwned
    <3>2. QED
      BY <3>1 DEF IInv, DisconnectedWhenTold
  <2>6. QED
    BY <2>1, <2>2, <2>3, <2>4, <2>5, SettleKeeps
<1>3. QED
  BY <1>1, <1>2 DEF Following

\* disconnect() finds the socket in one of its four states.
LEMMA DisconnectKeeps == ASSUME IInv, NEW c \in Callers, doDisconnect(c) PROVE IInv'
<1>1. /\ fut[c] = "none" /\ Unlocked /\ about' = [about EXCEPT ![c] = n]
      /\ UNCHANGED <<side, ssl, status, n, step, conFut, starter, shutting, complete, reader,
                     sendq, sending, sent, endVars, lost, log>>
  BY DEF doDisconnect
<1>2. PICK v \in {"value", "pending"}, p \in Promises \cup {"close"} :
        /\ fut' = [fut EXCEPT ![c] = v] /\ follows' = [follows EXCEPT ![c] = p]
        /\ \/ /\ status = "Disconnected" /\ v = "value" /\ p = NoCaller
              /\ UNCHANGED <<stopReq, holder, raised>>
           \/ /\ status = "Disconnecting" /\ v = "pending" /\ p = "close"
              /\ UNCHANGED <<stopReq, holder, raised>>
           \/ /\ status \in {"Connecting", "Connected"} /\ v = "pending"
              /\ stopReq' \in BOOLEAN
              /\ holder' \in {holder, c} /\ p = holder'
              /\ \/ raised' = raised
                 \/ raised' = [raised EXCEPT ![n] = TRUE] /\ status = "Connected"
  <2>1. CASE status = "Disconnected"
    <3>1. fut' = [fut EXCEPT ![c] = "value"] /\ UNCHANGED <<stopReq, holder, raised, follows>>
      BY <2>1 DEF doDisconnect, StopConnecting, StopConnected
    <3>2. follows[c] = NoCaller /\ follows' = [follows EXCEPT ![c] = NoCaller]
      BY <1>1, <3>1 DEF IInv, PromisesOwned, Types, TypeOK
    <3>3. QED
      BY <2>1, <3>1, <3>2 DEF Promises
  <2>2. CASE status = "Disconnecting"
    BY <2>2 DEF doDisconnect, StopConnecting, StopConnected
  <2>3. CASE status = "Connecting"
    <3>1. /\ stopReq' = TRUE /\ holder' = (IF stopReq THEN holder ELSE c) /\ raised' = raised
          /\ follows' = [follows EXCEPT ![c] = IF stopReq THEN holder ELSE c]
          /\ fut' = [fut EXCEPT ![c] = "pending"]
      BY <2>3 DEF doDisconnect, StopConnecting, StopConnected
    <3>2. holder' \in Promises /\ holder' \in {holder, c} /\ follows' = [follows EXCEPT ![c] = holder']
      BY <3>1 DEF IInv, Types, TypeOK, Promises
    <3>3. QED
      BY <2>3, <3>1, <3>2
  <2>4. CASE status = "Connected"
    <3>1. /\ stopReq' = stopReq /\ holder' = (IF raised[n] THEN holder ELSE c)
          /\ raised' = [raised EXCEPT ![n] = TRUE]
          /\ follows' = [follows EXCEPT ![c] = IF raised[n] THEN holder ELSE c]
          /\ fut' = [fut EXCEPT ![c] = "pending"]
      BY <2>4 DEF doDisconnect, StopConnecting, StopConnected
    <3>2. holder' \in Promises /\ holder' \in {holder, c} /\ follows' = [follows EXCEPT ![c] = holder']
      BY <3>1 DEF IInv, Types, TypeOK, Promises
    <3>3. QED
      BY <2>4, <3>1, <3>2 DEF IInv, Types, TypeOK
  <2>5. QED
    BY <2>1, <2>2, <2>3, <2>4 DEF IInv, Types, TypeOK
<1>3. /\ fut' \in [Callers -> {"none", "pending", "value", "broken"}] /\ fut'[c] = v
      /\ follows' \in [Callers -> Promises \cup {"close"}] /\ follows'[c] = p
      /\ about' \in [Callers -> 0 .. MaxConnects] /\ about'[c] = n
      /\ \A d \in Callers : d # c => fut'[d] = fut[d] /\ follows'[d] = follows[d] /\ about'[d] = about[d]
  BY <1>1, <1>2 DEF IInv, Types, TypeOK
<1>4. /\ holder' \in Promises /\ stopReq' \in BOOLEAN /\ raised' \in [Connections -> BOOLEAN]
      /\ \A k \in Connections : raised'[k] = raised[k] \/ (k = n /\ status = "Connected")
  BY <1>2 DEF IInv, Types, TypeOK, Promises
<1>5. Types'
  BY <1>1, <1>3, <1>4 DEF IInv, Types, TypeOK, endVars
<1>6. Phases'
  BY <1>1, <1>4 DEF IInv, Phases, Untouched, endVars, Types, TypeOK, Connections
<1>7. Starts' /\ ReaderStopped'
  BY <1>1 DEF IInv, Starts, ReaderStopped, endVars
<1>8. DisconnectedIsLast' /\ SignalsInOrder'
  BY <1>1 DEF IInv, DisconnectedIsLast, SignalsInOrder, endVars
<1>9. DisconnectedWhenTold'
  <2>1. v = "value" => n = 0 \/ closing[n] \in {"signals", "done"}
    BY <1>2 DEF IInv, Phases, Over
  <2>2. n \in Nat
    BY DEF IInv, Types, TypeOK
  <2>3. QED
    BY <1>1, <1>3, <2>1, <2>2 DEF IInv, DisconnectedWhenTold, endVars
<1>10. PromisesOwned'
  <2>1. ASSUME NEW q, NEW k, Own(q, k)
        PROVE  q \in Callers => q # c /\ about'[q] = k /\ follows'[q] = q /\ fut'[q] # "none"
    BY <1>1, <1>3, <2>1 DEF Own
  <2>2. ASSUME NEW q, NEW k, Own(q, k), Held(q)
        PROVE  q \in Callers => fut'[q] = "pending" /\ q \notin lost
    BY <1>1, <1>3, <2>2 DEF Own, Held
  <2>3. c \notin lost
    BY <1>1 DEF IInv, PromisesOwned
  <2>4. holder' = holder \/ (holder' = c /\ p = c /\ v = "pending")
    BY <1>2
  <2>5. Own(holder, n)'
    BY <1>1, <1>3, <2>1, <2>4 DEF IInv, PromisesOwned, Own
  <2>6. status' \in {"Connecting", "Connected"} => Held(holder)'
    BY <1>1, <1>3, <2>2, <2>3, <2>4 DEF IInv, PromisesOwned, Held
  <2>7. ASSUME NEW k \in Connections
        PROVE  /\ Own(copied[k], k)' /\ Own(given[k], k)'
               /\ leave'[k] = "copied" => Held(copied[k])'
               /\ closing'[k] # "done" => Held(given[k])'
               /\ closing'[k] = "none" => given'[k] = NoCaller
    <3>1. Own(copied[k], k) /\ Own(given[k], k)
      BY DEF IInv, PromisesOwned
    <3>2. Own(copied[k], k)' /\ Own(given[k], k)'
      BY <1>1, <2>1, <3>1 DEF Own, endVars
    <3>3. QED
      BY <1>1, <2>2, <3>1, <3>2 DEF IInv, PromisesOwned, Held, endVars
  <2>8. \A d \in lost' : fut'[d] = "pending" /\ follows'[d] = d
    BY <1>1, <1>3, <2>3 DEF IInv, PromisesOwned, Types, TypeOK
  <2>9. ASSUME NEW d \in Callers
        PROVE  /\ follows'[d] \in Callers => /\ about'[follows'[d]] = about'[d]
                                             /\ follows'[follows'[d]] = follows'[d]
                                             /\ fut'[follows'[d]] # "none"
               /\ fut'[d] = "none" => follows'[d] = NoCaller
               /\ about'[d] <= n'
    <3>1. CASE d = c
      <4>1. n \in Nat /\ fut'[c] # "none"
        BY <1>2, <1>3 DEF IInv, Types, TypeOK
      <4>2. p \in Callers => p = c \/ (p = holder /\ Own(holder, n))
        BY <1>2, SocketAssumption DEF IInv, PromisesOwned
      <4>3. p \in Callers => about'[p] = n /\ follows'[p] = p /\ fut'[p] # "none"
        BY <1>3, <2>1, <4>1, <4>2
      <4>4. QED
        BY <1>1, <1>3, <3>1, <4>1, <4>3
    <3>2. CASE d # c
      <4>1. follows[d] \in Callers => follows[d] # c
        BY <1>1 DEF IInv, PromisesOwned
      <4>2. QED
        BY <1>1, <1>3, <3>2, <4>1 DEF IInv, PromisesOwned
    <3>3. QED
      BY <3>1, <3>2
  <2>10. QED
    BY <2>5, <2>6, <2>7, <2>8, <2>9 DEF PromisesOwned
<1>11. QED
  BY <1>5, <1>6, <1>7, <1>8, <1>9, <1>10 DEF IInv

-----------------------------------------------------------------------------
\* Every step of the users, the network and the continuations.
LEMMA NextKeeps == IInv /\ [Next]_vars => IInv'
<1> SUFFICES ASSUME IInv, [Next]_vars PROVE IInv'
  OBVIOUS
<1>1. CASE UNCHANGED vars
  <2>1. Types' /\ Phases' /\ Starts' /\ ReaderStopped'
    BY <1>1 DEF IInv, Types, TypeOK, Phases, Starts, ReaderStopped, Untouched, vars, conVars,
                ioVars, endVars, userVars
  <2>2. DisconnectedIsLast' /\ PromisesOwned' /\ DisconnectedWhenTold' /\ SignalsInOrder'
    BY <1>1 DEF IInv, DisconnectedIsLast, PromisesOwned, Own, Held, DisconnectedWhenTold,
                SignalsInOrder, vars, conVars, endVars, userVars
  <2>3. QED
    BY <2>1, <2>2 DEF IInv
<1>2. CASE connect \/ ensureReading \/ ConnectStep \/ Starting
  BY <1>2, ConnectKeeps, WaitKeeps, StartKeeps, EmitConnectedKeeps DEF Starting
<1>3. ASSUME NEW k \in Connections,
             Network(k) \/ Ending(k) \/ ReadMessage(k) \/ ReadError(k) \/ WriteDone(k)
      PROVE  IInv'
  BY <1>3, CloseKeeps, ShutdownKeeps, ReadKeeps, CopyKeeps, LeaveKeeps, EmitDisconnectedKeeps,
     WriteKeeps DEF Network, Ending
<1>4. CASE send
  BY <1>4, SendKeeps
<1>5. ASSUME NEW c \in Callers, doDisconnect(c) \/ Following(c) PROVE IInv'
  BY <1>5, DisconnectKeeps, FollowingKeeps
<1>6. QED
  BY <1>1, <1>2, <1>3, <1>4, <1>5 DEF Next

\* The invariant of the socket.
LEMMA InvariantCorrect == Spec => []IInv
  BY InitIInv, NextKeeps, PTL DEF Spec

\* The state of the socket and of its connections keep their types: no queue is
\* written from when it is empty (SendMessageEnqueue's loop).
THEOREM TypeCorrect == Spec => []TypeOK
<1>1. IInv => TypeOK
  BY DEF IInv, Types
<1>2. QED
  BY <1>1, InvariantCorrect, PTL

\* Whoever is told that disconnect() has succeeded finds the connection it was called
\* on closed, although the promise went through the results of Connecting and of
\* Connected and through Disconnecting (TcpMessageSocket::doDisconnect).
THEOREM ToldCorrect == Spec => []DisconnectedWhenTold
<1>1. IInv => DisconnectedWhenTold
  BY DEF IInv
<1>2. QED
  BY <1>1, InvariantCorrect, PTL

\* The signals of a connection are in order, whichever threads emit them: `connected`
\* before the result is copied, the messages before the reader stops, `disconnected`
\* once (OnConnectedComplete, enterDisconnectedState()).
THEOREM SignalsCorrect == Spec => []SignalsInOrder
<1>1. IInv => SignalsInOrder
  BY DEF IInv
<1>2. QED
  BY <1>1, InvariantCorrect, PTL

\* No promise of disconnect() is set twice, nor broken once it is kept: the three
\* states never share one (the copy of the result in OnConnectedComplete).
THEOREM SettledOnceCorrect == Spec => SettledOnce
<1>1. IInv /\ [Next]_vars => [\A c \in Callers : Settled(c) => fut'[c] = fut[c]]_vars
  <2> SUFFICES ASSUME IInv, Next, NEW c \in Callers, Settled(c) PROVE fut'[c] = fut[c]
    OBVIOUS
  <2>1. CASE fut' = fut
    BY <2>1
  <2>2. ASSUME NEW k \in Connections, EmitDisconnected(k) PROVE fut'[c] = fut[c]
    <3>1. given[k] \in Callers => fut[given[k]] = "pending"
      BY <2>2 DEF EmitDisconnected, IInv, PromisesOwned, Held
    <3>2. QED
      BY <2>2, <3>1 DEF EmitDisconnected, Settled
  <2>3. ASSUME NEW d \in Callers, doDisconnect(d) \/ Following(d) PROVE fut'[c] = fut[c]
    <3>1. fut[d] \in {"none", "pending"}
      BY <2>3 DEF doDisconnect, Following, Follow, Break, IInv, PromisesOwned
    <3>2. fut' = fut \/ \E v \in {"value", "broken", "pending"} : fut' = [fut EXCEPT ![d] = v]
      BY <2>3 DEF doDisconnect, Following, Follow, Break
    <3>3. QED
      BY <3>1, <3>2 DEF Settled, IInv, Types, TypeOK
  <2>4. ASSUME NEW k \in Connections, Network(k) \/ CopyResult(k) \/ LeaveConnected(k)
                 \/ EnterDisconnected(k) \/ ReadMessage(k) \/ ReadError(k) \/ WriteDone(k)
        PROVE  fut' = fut
    BY <2>4 DEF Network, CloseSocket, Shutdown, OnReceiveError, OnReceive, CopyResult, LeaveConnected,
                EnterDisconnected, ReadMessage, ReadError, WriteDone, enterDisconnectedState, userVars
  <2>5. connect \/ ensureReading \/ ConnectStep \/ Starting \/ send => fut' = fut
    BY DEF connect, ensureReading, ConnectStep, Starting, ConnectDone, ReadingRelock, ReadingDone,
           EmitConnected, send, enterDisconnectedState, EnterConnected, userVars
  <2>6. QED
    BY <2>1, <2>2, <2>3, <2>4, <2>5 DEF Next, Ending
<1>2. QED
  BY <1>1, InvariantCorrect, PTL DEF Spec, SettledOnce

-----------------------------------------------------------------------------
(***************************************************************************)
(* The cache of a session's sockets.  SocketCache has names of             *)
(* MessageSocket, so it is an instance here, of constants and variables of *)
(* its own.                                                                *)
(***************************************************************************)
CONSTANTS Uris, Infos, Endpoints, RelUri, Loopback, Supported, SdUris, Requests, Cases, Attempts,
          Sockets

VARIABLES local, wants, hasSd, dying, opens, drops, looping, taken, left, conns, swapped, att, pending,
          sock, result, inserts, subs, calls, waits, answer, removal

Cache == INSTANCE SocketCache WITH fut <- answer

\* The attempts, and who waits for them.
TableTypes ==
  /\ conns \in [Uris -> Attempts \cup {0}] /\ swapped \in [Uris -> Attempts \cup {0}]
  /\ att \in [Attempts -> Cache!ConnectionAttempt]
  /\ waits \in [Requests -> Attempts \cup {0}]
  /\ answer \in [Requests -> {Cache!NotAsked, Cache!Running, Cache!Failed} \cup Sockets]

\* The sockets: their callbacks are left out, as the provers know nothing of SelectSeq.
SockTypes ==
  /\ pending \subseteq Sockets
  /\ sock \in [Sockets -> [state : {"none", "connecting", "up", "closing", "down"},
                           uri : Uris \cup {0}, rel : Uris \cup {0}]]
  /\ result \in [Sockets -> {"none", "running", "value", "error", "handled"}]
  /\ inserts \in [Sockets -> Seq(Uris)]
  /\ removal \in [Sockets -> {"none", "waiting", "released", "removed"}]

LifeTypes ==
  /\ local \in BOOLEAN /\ dying \in BOOLEAN /\ looping \in BOOLEAN /\ hasSd \in BOOLEAN
  /\ wants \in [Requests -> Infos] /\ opens \in Nat /\ drops \in Nat
  /\ taken \subseteq Sockets /\ left \subseteq Sockets

\* A request waits for an attempt exactly while its future runs; the attempt is in
\* the map or in the one that close() took, and its promise is not set.
WaitInv ==
  \A r \in Requests :
    /\ answer[r] = Cache!Running => /\ waits[r] \in Attempts /\ att[waits[r]].prom = Cache!Running
                                    /\ \E u \in Uris : waits[r] \in {conns[u], swapped[u]}
    /\ answer[r] # Cache!Running => waits[r] = 0

\* A closed cache has no attempt and no pending connection; close() holds none either
\* once it is over.
ClosedInv ==
  /\ dying => pending = {} /\ \A u \in Uris : conns[u] = 0
  /\ ~looping => taken = {} /\ \A u \in Uris : swapped[u] = 0

\* A socket, and the future of its connect().
SockAt(s) ==
  /\ sock[s].state = "connecting" <=> result[s] = "running"
  /\ sock[s].state = "none" <=> result[s] = "none"
  /\ result[s] = "error" => sock[s].state = "down"
  /\ sock[s].state # "none" => sock[s].uri \in Uris
  /\ result[s] \in {"running", "value", "error"} => sock[s].rel \in Uris

SockInv == \A s \in Sockets : SockAt(s)

\* The sockets that are given out are the ones whose connection has been handled.
GivenInv ==
  /\ \A s \in Sockets : inserts[s] # <<>> => result[s] = "handled"
  /\ \A a \in Attempts : att[a].prom \in Sockets => result[att[a].prom] = "handled"
  /\ \A r \in Requests : answer[r] \in Sockets => result[answer[r]] = "handled"

CacheInv == TableTypes /\ SockTypes /\ LifeTypes /\ WaitInv /\ ClosedInv /\ SockInv /\ GivenInv

\* The cache can close each socket that it has made: it is pending, or close() has it, or has
\* dropped it.
MadeInv ==
  \A s \in Sockets : sock[s].rel # 0 /\ sock[s].state \in {"connecting", "up"} =>
    s \in pending \cup taken \cup left

-----------------------------------------------------------------------------

\* Sets of the size that there is room for can be mapped into it.
LEMMA RoomForAll ==
  ASSUME NEW S, NEW T, IsFiniteSet(S), IsFiniteSet(T), Cardinality(S) <= Cardinality(T)
  PROVE  Injection(S, T) # {}
<1>1. /\ Cardinality(S) \in Nat /\ ExistsBijection(1 .. Cardinality(S), S)
      /\ Cardinality(T) \in Nat /\ ExistsBijection(1 .. Cardinality(T), T)
  BY FS_CardinalityType
<1>2. ExistsInjection(S, 1 .. Cardinality(S))
  BY <1>1, Fun_ExistsBijSymmetric, Fun_ExistsBijEquiv
<1>3. ExistsInjection(1 .. Cardinality(T), T)
  BY <1>1, Fun_ExistsBijEquiv
<1>4. ExistsInjection(1 .. Cardinality(S), 1 .. Cardinality(T))
  BY <1>1, Fun_NatInjLeq
<1>5. ExistsInjection(S, T)
  BY <1>2, <1>3, <1>4, Fun_ExistsInjTransitive
<1> QED
  BY <1>5 DEF ExistsInjection

\* A set of numbers that is not empty has a least one.
LEMMA LeastIn ==
  ASSUME NEW S, S \subseteq Nat, S # {}
  PROVE  Cache!Min(S) \in S
<1> DEFINE R == {p \in Nat \X Nat : p[1] < p[2]}
<1>1. IsWellFoundedOn(R, Nat)
  BY NatLessThanWellFounded DEF OpToRel
<1>2. PICK x \in S : \A y \in S : <<y, x>> \notin R
  BY <1>1, WFMin
<1>3. ASSUME NEW y \in S PROVE x <= y
  <2>1. x \in Nat /\ y \in Nat
    OBVIOUS
  <2>2. y < x => <<y, x>> \in R
    BY <2>1
  <2>3. ~(y < x)
    BY <1>2, <2>2
  <2> QED
    BY <2>1, <2>3
<1> QED
  BY <1>3 DEF Cache!Min

\* What becomes of the requests when attempts change, or leave the map.
LEMMA UpdateKeeps ==
  ASSUME Cache!CacheAssumption, TableTypes, WaitInv,
         NEW c \in [Uris -> Attempts \cup {0}], NEW h \in [Uris -> Attempts \cup {0}],
         NEW t \in [Attempts -> Cache!ConnectionAttempt], NEW w \in [Requests -> Attempts \cup {0}],
         \A r \in Requests : w[r] = waits[r] \/ answer[r] = Cache!NotAsked,
         Cache!Update(c, h, t, w)
  PROVE  /\ TableTypes' /\ WaitInv' /\ conns' = c /\ swapped' = h
         /\ \A r \in Requests : answer'[r] = answer[r] \/ answer'[r] = Cache!Failed
                                  \/ \E a \in Attempts : answer'[r] = t[a].prom
         /\ \A a \in Attempts : att'[a].prom \in Sockets => att'[a].prom = t[a].prom
<1> DEFINE Dead == {a \in Attempts : \A u \in Uris : c[u] # a /\ h[u] # a}
           Outcome(a) == IF a \in Dead /\ t[a].prom = Cache!Running THEN Cache!Failed ELSE t[a].prom
<1>0. /\ Cache!NotAsked = -3 /\ Cache!Running = -2 /\ Cache!Failed = -1 /\ Cache!NoAttempt = 0
      /\ Sockets \subseteq Nat /\ 0 \notin Attempts
  BY DEF Cache!CacheAssumption, Cache!NotAsked, Cache!Running, Cache!Failed, Cache!NoAttempt
<1>1. /\ conns' = c /\ swapped' = h
      /\ att' = [a \in Attempts |-> IF a \in Dead THEN Cache!NoneAttempt ELSE t[a]]
      /\ answer' = [r \in Requests |-> IF w[r] = 0 THEN answer[r] ELSE Outcome(w[r])]
      /\ waits' = [r \in Requests |-> IF answer'[r] = Cache!Running THEN w[r] ELSE 0]
  BY <1>0 DEF Cache!Update
<1>2. \A a \in Attempts : t[a].prom \in {Cache!Running, Cache!Failed} \cup Sockets
  BY DEF Cache!ConnectionAttempt
<1>3. /\ Cache!NoneAttempt \in Cache!ConnectionAttempt /\ Cache!NoneAttempt.prom = Cache!Running
  BY DEF Cache!NoneAttempt, Cache!ConnectionAttempt, Cache!NoSocket, Cache!NoUri
<1>4. ASSUME NEW r \in Requests, w[r] # 0
      PROVE  /\ w[r] \in Attempts
             /\ answer'[r] = Cache!Failed \/ answer'[r] = t[w[r]].prom
             /\ answer'[r] = Cache!Running => w[r] \notin Dead /\ t[w[r]].prom = Cache!Running
  <2>1. w[r] \in Attempts /\ answer'[r] = Outcome(w[r])
    BY <1>1, <1>4
  <2>2. CASE w[r] \in Dead /\ t[w[r]].prom = Cache!Running
    <3>1. answer'[r] = Cache!Failed
      BY <2>1, <2>2
    <3> QED
      BY <1>0, <2>1, <3>1
  <2>3. CASE ~(w[r] \in Dead /\ t[w[r]].prom = Cache!Running)
    <3>1. answer'[r] = t[w[r]].prom
      BY <2>1, <2>3
    <3> QED
      BY <2>1, <2>3, <3>1
  <2> QED
    BY <2>2, <2>3
<1>5. \A r \in Requests : w[r] = 0 => answer'[r] = answer[r] /\ answer[r] # Cache!Running
  BY <1>0, <1>1 DEF WaitInv
<1>6. TableTypes'
  <2>1. answer' \in [Requests -> {Cache!NotAsked, Cache!Running, Cache!Failed} \cup Sockets]
    BY <1>1, <1>2, <1>4, <1>5 DEF TableTypes
  <2>2. att' \in [Attempts -> Cache!ConnectionAttempt]
    BY <1>1, <1>3
  <2> QED
    BY <1>1, <2>1, <2>2 DEF TableTypes
<1>7. WaitInv'
  <2> SUFFICES ASSUME NEW r \in Requests
               PROVE  /\ answer'[r] = Cache!Running =>
                           /\ waits'[r] \in Attempts /\ att'[waits'[r]].prom = Cache!Running
                           /\ \E u \in Uris : waits'[r] \in {conns'[u], swapped'[u]}
                      /\ answer'[r] # Cache!Running => waits'[r] = 0
    BY DEF WaitInv
  <2>1. CASE answer'[r] = Cache!Running
    <3>1. w[r] \in Attempts /\ w[r] \notin Dead /\ t[w[r]].prom = Cache!Running /\ waits'[r] = w[r]
      BY <1>1, <1>4, <1>5, <2>1
    <3> QED
      BY <1>1, <2>1, <3>1
  <2> QED
    BY <1>1, <2>1
<1>9. \A a \in Attempts : att'[a].prom \in Sockets => att'[a].prom = t[a].prom
  BY <1>0, <1>1, <1>3
<1> QED
  BY <1>1, <1>4, <1>5, <1>6, <1>7, <1>9

\* A socket changes its state, and nothing else.
LEMMA SockSet ==
  ASSUME SockTypes, NEW s \in Sockets, NEW v \in {"none", "connecting", "up", "closing", "down"},
         sock' = [sock EXCEPT ![s].state = v]
  PROVE  /\ sock' \in [Sockets -> [state : {"none", "connecting", "up", "closing", "down"},
                                   uri : Uris \cup {0}, rel : Uris \cup {0}]]
         /\ sock'[s].state = v /\ sock'[s].uri = sock[s].uri /\ sock'[s].rel = sock[s].rel
         /\ \A x \in Sockets : x # s => sock'[x] = sock[x]
  BY DEF SockTypes

\* One socket changes, and is in order.
LEMMA OneSock ==
  ASSUME SockInv, NEW s \in Sockets, SockAt(s)',
         \A x \in Sockets : x # s => sock'[x] = sock[x] /\ result'[x] = result[x]
  PROVE  SockInv'
<1> SUFFICES ASSUME NEW x \in Sockets, x # s PROVE SockAt(x)'
  BY DEF SockInv
<1>1. sock'[x] = sock[x] /\ result'[x] = result[x] /\ SockAt(x)
  BY DEF SockInv
<1> QED
  BY <1>1 DEF SockAt

\* Sockets are asked to disconnect.
LEMMA ClosingKeeps ==
  ASSUME SockTypes, SockInv, NEW S, Cache!Closing(S)
  PROVE  /\ sock' \in [Sockets -> [state : {"none", "connecting", "up", "closing", "down"},
                                   uri : Uris \cup {0}, rel : Uris \cup {0}]]
         /\ result' \in [Sockets -> {"none", "running", "value", "error", "handled"}]
         /\ SockInv'
         /\ \A s \in Sockets : /\ sock'[s].rel = sock[s].rel
                               /\ sock[s].state \notin {"connecting", "up"} => sock'[s] = sock[s]
                               /\ s \in S => sock'[s].state \notin {"connecting", "up"}
                               /\ s \notin S => sock'[s] = sock[s]
                               /\ result[s] = "handled" => result'[s] = "handled"
<1>1. ASSUME NEW s \in Sockets
      PROVE  /\ \/ sock'[s] = sock[s] /\ result'[s] = result[s]
                     /\ (s \notin S \/ sock[s].state \notin {"connecting", "up"})
                \/ s \in S /\ sock[s].state = "up" /\ result'[s] = result[s]
                     /\ sock'[s] = [sock[s] EXCEPT !.state = "closing"]
                \/ s \in S /\ sock[s].state = "connecting" /\ result'[s] = "error"
                     /\ sock'[s] = [sock[s] EXCEPT !.state = "down"]
  BY DEF Cache!Closing
<1>2. ASSUME NEW s \in Sockets
      PROVE  /\ sock'[s] \in [state : {"none", "connecting", "up", "closing", "down"},
                             uri : Uris \cup {0}, rel : Uris \cup {0}]
             /\ result'[s] \in {"none", "running", "value", "error", "handled"}
             /\ sock'[s].rel = sock[s].rel /\ SockAt(s)'
             /\ sock[s].state \notin {"connecting", "up"} => sock'[s] = sock[s]
             /\ s \in S => sock'[s].state \notin {"connecting", "up"}
             /\ s \notin S => sock'[s] = sock[s]
             /\ result[s] = "handled" => result'[s] = "handled"
  <2>1. /\ sock[s] \in [state : {"none", "connecting", "up", "closing", "down"},
                        uri : Uris \cup {0}, rel : Uris \cup {0}]
        /\ result[s] \in {"none", "running", "value", "error", "handled"} /\ SockAt(s)
    BY DEF SockTypes, SockInv
  <2>2. CASE s \notin S \/ sock[s].state \notin {"connecting", "up"}
    <3>1. sock'[s] = sock[s] /\ result'[s] = result[s]
      BY <1>1, <2>2
    <3> QED
      BY <2>1, <2>2, <3>1 DEF SockAt
  <2>3. CASE s \in S /\ sock[s].state = "up"
    <3>1. sock'[s] = [sock[s] EXCEPT !.state = "closing"] /\ result'[s] = result[s]
      BY <1>1, <2>3
    <3> QED
      BY <2>1, <2>3, <3>1 DEF SockAt
  <2>4. CASE s \in S /\ sock[s].state = "connecting"
    <3>1. sock'[s] = [sock[s] EXCEPT !.state = "down"] /\ result'[s] = "error"
      BY <1>1, <2>4
    <3> QED
      BY <2>1, <2>4, <3>1 DEF SockAt
  <2> QED
    BY <2>2, <2>3, <2>4
<1>3. /\ sock' = [s \in Sockets |-> sock'[s]] /\ result' = [s \in Sockets |-> result'[s]]
  BY DEF Cache!Closing
<1> QED
  BY <1>2, <1>3 DEF SockInv

\* The connection of a socket has been handled, and it is not needed.
LEMMA RejectKeeps ==
  ASSUME SockTypes, SockInv, NEW s \in Sockets, result[s] \in {"value", "error"}, Cache!Reject(s)
  PROVE  /\ SockTypes' /\ SockInv' /\ pending' = pending \ {s} /\ inserts' = inserts
         /\ \A x \in Sockets : x # s => sock'[x] = sock[x] /\ result'[x] = result[x]
         /\ result'[s] = "handled" /\ sock'[s].rel = sock[s].rel
         /\ sock'[s].state \notin {"connecting", "up"}
<1>1. /\ UNCHANGED <<inserts, removal>> /\ pending' = pending \ {s}
      /\ result' = [result EXCEPT ![s] = "handled"]
  BY DEF Cache!Reject, Cache!signals
<1>2. PICK v \in {"none", "connecting", "up", "closing", "down"} :
        /\ sock' = [sock EXCEPT ![s].state = v]
        /\ v = IF sock[s].state = "up" THEN "closing" ELSE sock[s].state
  BY DEF Cache!Reject, SockTypes
<1>3. SockTypes' /\ result'[s] = "handled" /\ \A x \in Sockets : x # s => result'[x] = result[x]
  <2>1. sock' \in [Sockets -> [state : {"none", "connecting", "up", "closing", "down"},
                               uri : Uris \cup {0}, rel : Uris \cup {0}]]
    BY <1>2, SockSet
  <2> QED
    BY <1>1, <2>1 DEF SockTypes
<1>4. SockInv'
  BY <1>1, <1>2, <1>3, SockSet DEF SockInv, SockAt
<1>5. v \notin {"connecting", "up"}
  BY <1>2 DEF SockInv, SockAt
<1> QED
  BY <1>1, <1>2, <1>3, <1>4, <1>5, SockSet

\* The sockets of New are made, for the URIs g and the service i.
Makes(New, g, i) ==
  /\ pending' = pending \cup New
  /\ sock' = [x \in Sockets |->
       IF x \in New THEN [state |-> "connecting", uri |-> g[x], rel |-> RelUri[i]] ELSE sock[x]]
  /\ result' = [x \in Sockets |-> IF x \in New THEN "running" ELSE result[x]]

\* socket() makes sockets that were not there, one for each URI that it tries.
LEMMA ConnectMakes ==
  ASSUME Cache!CacheAssumption, CacheInv, NEW r \in Requests, Cache!Connect(r)
  PROVE  \E New \in SUBSET Cache!FreeSockets : \E g \in [New -> Uris] : Makes(New, g, wants[r])
<1> DEFINE i == wants[r]
           f == CHOOSE h \in Cache!Injection(Cache!Tried(i), Cache!FreeSockets) : TRUE
           New == Cache!Range(f)
           g == Cache!Inverse(f, Cache!Tried(i), New)
<1>1. i \in Infos
  BY DEF CacheInv, LifeTypes
<1>2. Cache!Tried(i) \subseteq Uris
  BY <1>1 DEF Cache!CacheAssumption, Cache!Tried
<1>3. Cache!Injection(Cache!Tried(i), Cache!FreeSockets) # {}
  <2>1. \A S : /\ Cache!Cardinality(S) = Cardinality(S)
               /\ Cache!IsFiniteSet(S) <=> IsFiniteSet(S)
               /\ \A T : Cache!Injection(S, T) = Injection(S, T)
    BY DEF Cache!Cardinality, Cardinality, Cache!IsFiniteSet, IsFiniteSet, Cache!Injection, Injection,
           Cache!IsInjective, IsInjective
  <2>2. IsFiniteSet(Cache!Tried(i)) /\ IsFiniteSet(Cache!FreeSockets)
    BY <1>2, <2>1, FS_Subset DEF Cache!CacheAssumption, Cache!FreeSockets
  <2>3. Cardinality(Cache!Tried(i)) <= Cardinality(Cache!FreeSockets)
    BY <2>1 DEF Cache!Connect
  <2> QED
    BY <2>1, <2>2, <2>3, RoomForAll
<1>4. f \in Cache!Injection(Cache!Tried(i), Cache!FreeSockets)
  BY <1>3
<1>5. Makes(New, g, i)
  BY DEF Cache!Connect, Makes
<1> HIDE DEF f
<1>6. DOMAIN f = Cache!Tried(i) /\ New \in SUBSET Cache!FreeSockets
  BY <1>4 DEF Cache!Injection, Cache!Range
<1>7. g \in [New -> Uris]
  <2>1. \A x \in New : \E u \in Cache!Tried(i) : f[u] = x
    BY <1>6 DEF Cache!Range
  <2>2. \A x \in New : g[x] \in Cache!Tried(i)
    BY <2>1 DEF Cache!Inverse
  <2> QED
    BY <1>2, <2>2 DEF Cache!Inverse
<1> HIDE DEF New, g, i
<1> QED
  BY <1>5, <1>6, <1>7 DEF i

\* Every step keeps the sockets in order; what has been handled stays so.
LEMMA SocketsKept ==
  ASSUME Cache!CacheAssumption, CacheInv, [Cache!Next]_Cache!vars
  PROVE  /\ SockTypes' /\ SockInv'
         /\ \A s \in Sockets : result[s] = "handled" => result'[s] = "handled"
         /\ \A s \in Sockets : inserts'[s] # <<>> => result'[s] = "handled"
<1> DEFINE Handled == \A s \in Sockets : result[s] = "handled" => result'[s] = "handled"
           Inserts == \A s \in Sockets : inserts'[s] # <<>> => result'[s] = "handled"
           Goal == SockTypes' /\ SockInv' /\ Handled /\ Inserts
<1>0. SockTypes /\ SockInv /\ LifeTypes /\ \A s \in Sockets : inserts[s] # <<>> => result[s] = "handled"
  BY DEF CacheInv, GivenInv
<1>1. ASSUME UNCHANGED <<pending, sock, result, inserts, removal>> PROVE Goal
  BY <1>0, <1>1 DEF SockTypes, SockInv, SockAt
<1>2. ASSUME NEW r \in Requests, Cache!Refused(r) \/ Cache!Found(r) PROVE Goal
  BY <1>1, <1>2 DEF Cache!Refused, Cache!Found, Cache!signals
<1>3. ASSUME NEW r \in Requests, Cache!Connect(r) PROVE Goal
  <2>1. UNCHANGED <<inserts, removal>>
    BY <1>3 DEF Cache!Connect, Cache!signals
  <2>a. PICK New \in SUBSET Cache!FreeSockets : \E g \in [New -> Uris] : Makes(New, g, wants[r])
    BY <1>3, ConnectMakes
  <2>b. PICK g \in [New -> Uris] : Makes(New, g, wants[r])
    BY <2>a
  <2>2. /\ pending' = pending \cup New
        /\ sock' = [x \in Sockets |->
             IF x \in New THEN [state |-> "connecting", uri |-> g[x], rel |-> RelUri[wants[r]]]
                          ELSE sock[x]]
        /\ result' = [x \in Sockets |-> IF x \in New THEN "running" ELSE result[x]]
    BY <2>b DEF Makes
  <2>3. RelUri[wants[r]] \in Uris /\ Uris \subseteq Nat \ {0}
    BY <1>0 DEF Cache!CacheAssumption, LifeTypes
  <2>4. New \subseteq Sockets /\ \A x \in New : sock[x].state = "none" /\ result[x] = "none"
    BY <1>0 DEF Cache!FreeSockets, SockInv, SockAt
  <2>5. ASSUME NEW x \in New
        PROVE  /\ sock'[x] \in [state : {"none", "connecting", "up", "closing", "down"},
                                uri : Uris \cup {0}, rel : Uris \cup {0}]
               /\ SockAt(x)'
    BY <2>2, <2>3, <2>4 DEF SockAt
  <2>6. ASSUME NEW x \in Sockets, x \notin New PROVE sock'[x] = sock[x] /\ result'[x] = result[x]
    BY <2>2, <2>6
  <2>7. SockInv'
    <3> SUFFICES ASSUME NEW x \in Sockets, x \notin New PROVE SockAt(x)'
      BY <2>5 DEF SockInv
    <3>1. SockAt(x) /\ sock'[x] = sock[x] /\ result'[x] = result[x]
      BY <1>0, <2>6 DEF SockInv
    <3> QED
      BY <3>1 DEF SockAt
  <2>8. sock' \in [Sockets -> [state : {"none", "connecting", "up", "closing", "down"},
                               uri : Uris \cup {0}, rel : Uris \cup {0}]]
    <3>1. \A x \in Sockets : sock'[x] \in [state : {"none", "connecting", "up", "closing", "down"},
                                           uri : Uris \cup {0}, rel : Uris \cup {0}]
      BY <1>0, <2>5, <2>6 DEF SockTypes
    <3>2. sock' = [x \in Sockets |-> sock'[x]]
      BY <2>2
    <3> QED
      BY <3>1, <3>2
  <2>9. SockTypes' /\ Handled /\ Inserts
    BY <1>0, <2>1, <2>2, <2>4, <2>6, <2>8 DEF SockTypes
  <2> QED
    BY <2>7, <2>9
<1>4. ASSUME NEW s \in Sockets, NEW v \in {"value", "error"}, Cache!ConnectEnds(s, v) PROVE Goal
  <2>1. /\ UNCHANGED <<pending, inserts, removal>> /\ sock[s].state = "connecting"
        /\ result' = [result EXCEPT ![s] = v]
        /\ sock' = [sock EXCEPT ![s].state = IF v = "value" THEN "up" ELSE "down"]
    BY <1>4 DEF Cache!ConnectEnds, Cache!signals
  <2>2. SockTypes'
    BY <1>0, <2>1, SockSet DEF SockTypes
  <2>3. SockAt(s) /\ result[s] = "running" /\ result'[s] = v
    BY <1>0, <2>1 DEF SockTypes, SockInv, SockAt
  <2>4. SockAt(s)'
    BY <1>0, <2>1, <2>3, SockSet DEF SockAt
  <2>5. SockInv'
    BY <1>0, <2>1, <2>4, SockSet, OneSock DEF SockTypes
  <2> QED
    BY <1>0, <2>1, <2>2, <2>3, <2>5 DEF SockTypes
<1>5. ASSUME NEW s \in Sockets, Cache!Disconnects(s) PROVE Goal
  <2>1. /\ UNCHANGED <<pending, result, inserts, removal>>
        /\ sock' = [sock EXCEPT ![s].state = "down"] /\ sock[s].state \in {"up", "closing"}
    BY <1>5 DEF Cache!Disconnects
  <2>2. SockTypes'
    BY <1>0, <2>1, SockSet DEF SockTypes
  <2>3. SockAt(s)'
    BY <1>0, <2>1, SockSet DEF SockInv, SockAt
  <2>4. SockInv'
    BY <1>0, <2>1, <2>3, SockSet, OneSock
  <2> QED
    BY <1>0, <2>1, <2>2, <2>4
<1>6. ASSUME NEW s \in Sockets, result[s] \in {"value", "error"}, Cache!Reject(s) PROVE Goal
  BY <1>0, <1>6, RejectKeeps
<1>7. ASSUME NEW s \in Sockets, result[s] \in {"value", "error"},
             UNCHANGED <<sock, inserts, removal>>, pending' \in {pending, pending \ {s}},
             result' = [result EXCEPT ![s] = "handled"]
      PROVE  Goal
  BY <1>0, <1>7 DEF SockTypes, SockInv, SockAt
<1>8. ASSUME NEW s \in Sockets, Cache!ResultDying(s) \/ Cache!ResultGone(s) \/ Cache!ResultLate(s) \/ Cache!ResultError(s)
      PROVE  Goal
  BY <1>6, <1>7, <1>8 DEF Cache!ResultDying, Cache!ResultGone, Cache!ResultLate, Cache!ResultError, Cache!signals
<1>10. ASSUME NEW s \in Sockets, Cache!ResultConnected(s) PROVE Goal
  <2>1. /\ UNCHANGED <<pending, sock, removal>> /\ result[s] = "value"
        /\ result' = [result EXCEPT ![s] = "handled"]
        /\ inserts' = [inserts EXCEPT ![s] = <<sock[s].rel>>]
    BY <1>10 DEF Cache!ResultConnected
  <2>2. sock[s].uri \in Uris /\ sock[s].rel \in Uris
    BY <1>0, <2>1 DEF SockInv, SockAt
  <2>3. SockTypes'
    BY <1>0, <2>1, <2>2 DEF SockTypes
  <2>4. SockInv'
    BY <1>0, <2>1 DEF SockTypes, SockInv, SockAt
  <2> QED
    BY <1>0, <2>1, <2>3, <2>4 DEF SockTypes
<1>11. ASSUME NEW s \in Sockets, Cache!insert(s) PROVE Goal
  <2>1. /\ UNCHANGED <<pending, sock, result, removal>> /\ inserts[s] # <<>>
        /\ inserts' = [inserts EXCEPT ![s] = Tail(@)]
    BY <1>11 DEF Cache!insert
  <2>2. Tail(inserts[s]) \in Seq(Uris)
    BY <1>0, <2>1 DEF SockTypes
  <2>3. inserts' \in [Sockets -> Seq(Uris)]
    BY <1>0, <2>1, <2>2 DEF SockTypes
  <2>4. SockTypes' /\ SockInv'
    BY <1>0, <2>1, <2>3 DEF SockTypes, SockInv, SockAt
  <2> QED
    BY <1>0, <2>1, <2>4 DEF SockTypes
<1>12. ASSUME NEW s \in Sockets, Cache!onSocketDisconnected(s) PROVE Goal
  <2>1. /\ UNCHANGED <<pending, sock, result, inserts>>
        /\ \/ removal' = removal
           \/ \E a : removal' = [x \in Sockets |->
                IF x = a /\ removal[x] # "none" THEN "removed" ELSE removal[x]]
    BY <1>12 DEF Cache!onSocketDisconnected
  <2>2. removal' \in [Sockets -> {"none", "waiting", "released", "removed"}]
    BY <1>0, <2>1 DEF SockTypes
  <2>3. SockTypes' /\ SockInv'
    BY <1>0, <2>1, <2>2 DEF SockTypes, SockInv, SockAt
  <2> QED
    BY <1>0, <2>1, <2>3
<1>13. ASSUME NEW s \in Sockets, Cache!disconnect(s) PROVE Goal
  <2>1. /\ UNCHANGED <<pending, inserts>> /\ removal' = [removal EXCEPT ![s] = "waiting"]
        /\ Cache!Closing({s})
    BY <1>13 DEF Cache!disconnect, Cache!signals
  <2>2. /\ sock' \in [Sockets -> [state : {"none", "connecting", "up", "closing", "down"},
                                  uri : Uris \cup {0}, rel : Uris \cup {0}]]
        /\ result' \in [Sockets -> {"none", "running", "value", "error", "handled"}]
        /\ SockInv' /\ Handled
    BY <1>0, <2>1, ClosingKeeps
  <2> QED
    BY <1>0, <2>1, <2>2 DEF SockTypes
<1>14. ASSUME Cache!addSdSocketToCache PROVE Goal
  <2>1. PICK s \in Cache!FreeSockets : s = Cache!Min(Cache!FreeSockets)
    BY <1>14, LeastIn DEF Cache!addSdSocketToCache, Cache!FreeSockets, Cache!CacheAssumption
  <2>2. /\ UNCHANGED <<pending, removal>> /\ result' = [result EXCEPT ![s] = "handled"]
        /\ sock' = [sock EXCEPT ![s] = [state |-> "up", uri |-> Head(SdUris), rel |-> 0]]
        /\ inserts' = [inserts EXCEPT ![s] = SdUris]
    BY <1>14, <2>1 DEF Cache!addSdSocketToCache, Cache!NoUri
  <2>3. SdUris \in Seq(Uris) /\ Head(SdUris) \in Uris /\ s \in Sockets
    BY DEF Cache!CacheAssumption, Cache!FreeSockets
  <2>4. SockTypes' /\ SockInv'
    BY <1>0, <2>2, <2>3 DEF SockTypes, SockInv, SockAt
  <2> QED
    BY <1>0, <2>2, <2>3, <2>4 DEF SockTypes
<1>15. ASSUME Cache!close PROVE Goal
  <2>1. UNCHANGED <<sock, result, inserts, removal>> /\ pending' = {}
    BY <1>15 DEF Cache!close, Cache!signals
  <2> QED
    BY <1>0, <2>1 DEF SockTypes, SockInv, SockAt
<1>18. ASSUME NEW S, Cache!Closing(S), UNCHANGED <<pending, inserts, removal>> PROVE Goal
  <2>1. /\ sock' \in [Sockets -> [state : {"none", "connecting", "up", "closing", "down"},
                                  uri : Uris \cup {0}, rel : Uris \cup {0}]]
        /\ result' \in [Sockets -> {"none", "running", "value", "error", "handled"}]
        /\ SockInv' /\ Handled
    BY <1>0, <1>18, ClosingKeeps
  <2> QED
    BY <1>0, <1>18, <2>1 DEF SockTypes
<1>19. ASSUME Cache!CloseConnected PROVE Goal
  BY <1>18, <1>19 DEF Cache!CloseConnected
<1>20. ASSUME Cache!CloseAttempt \/ Cache!CloseThrows PROVE Goal
  BY <1>1, <1>20 DEF Cache!CloseAttempt, Cache!CloseThrows, Cache!signals
<1>21. ASSUME Cache!ClosePending PROVE Goal
  BY <1>18, <1>21 DEF Cache!ClosePending, Cache!signals
<1>22. ASSUME Cache!CloseReleases PROVE Goal
  <2>1. UNCHANGED <<pending, sock, result, inserts>>
    BY <1>22 DEF Cache!CloseReleases, Cache!signals
  <2>2. removal' \in [Sockets -> {"none", "waiting", "released", "removed"}]
    BY <1>0, <1>22 DEF Cache!CloseReleases, SockTypes
  <2> QED
    BY <1>0, <2>1, <2>2 DEF SockTypes, SockInv, SockAt
<1>16. ASSUME Cache!init PROVE Goal
  BY <1>1, <1>16 DEF Cache!init, Cache!signals
<1>17. ASSUME UNCHANGED Cache!vars PROVE Goal
  BY <1>1, <1>17 DEF Cache!vars, Cache!signals
<1> QED
  BY <1>2, <1>3, <1>4, <1>5, <1>8, <1>10, <1>11, <1>12, <1>13, <1>14, <1>15, <1>16, <1>17, <1>19, <1>20, <1>21, <1>22
     DEF Cache!Next, Cache!socket, Cache!onSocketParallelConnectionAttempt, Cache!CloseLoops

\* checkClear() takes URIs out of the map.
LEMMA ClearTyped ==
  ASSUME NEW c \in [Uris -> Attempts \cup {0}], NEW t, NEW a
  PROVE  Cache!checkClear(c, t, a) \in [Uris -> Attempts \cup {0}]
  BY DEF Cache!checkClear, Cache!NoAttempt

\* The attempt that socket() makes.
LEMMA NewTyped ==
  ASSUME Cache!CacheAssumption, LifeTypes, NEW i \in Infos
  PROVE  /\ Cache!NewAttempt(i) \in Cache!ConnectionAttempt
         /\ Cache!NewAttempt(i).prom = Cache!Running
<1>1. Cache!Candidates(i) \subseteq Uris /\ Cache!Tried(i) \subseteq Uris /\ Endpoints[i] \subseteq Uris
  BY DEF Cache!CacheAssumption, Cache!Candidates, Cache!Tried
<1>2. Cache!Cardinality(Cache!Candidates(i)) \in Nat
  <2>1. \A S : /\ Cache!Cardinality(S) = Cardinality(S)
               /\ Cache!IsFiniteSet(S) <=> IsFiniteSet(S)
    BY DEF Cache!Cardinality, Cardinality, Cache!IsFiniteSet, IsFiniteSet
  <2>2. IsFiniteSet(Cache!Candidates(i))
    BY <1>1, <2>1, FS_Subset DEF Cache!CacheAssumption
  <2> QED
    BY <2>1, <2>2, FS_CardinalityType
<1>3. (Cache!Tried(i) # Cache!Candidates(i)) \in BOOLEAN
  OBVIOUS
<1> QED
  BY <1>1, <1>2, <1>3 DEF Cache!NewAttempt, Cache!ConnectionAttempt, Cache!NoSocket, Cache!NoUri

\* An attempt that has got its socket.
LEMMA ConnectedFields ==
  ASSUME NEW x \in Cache!ConnectionAttempt, NEW s \in Sockets, NEW u \in Uris
  PROVE  LET y == [x EXCEPT !.state = "connected", !.endpoint = s, !.prom = s, !.link = u]
         IN  y \in Cache!ConnectionAttempt /\ y.prom = s
BY DEF Cache!ConnectionAttempt

\* The first of some addresses is an address.
LEMMA FirstAddress ==
  ASSUME NEW q \in Seq(Uris), q # <<>>
  PROVE  Head(q) \in Uris
OBVIOUS

\* What the other operations do to an attempt.
LEMMA AttemptFields ==
  ASSUME NEW x \in Cache!ConnectionAttempt
  PROVE  /\ \A v \in {"none", "pending", "connected", "error"} :
              [x EXCEPT !.state = v] \in Cache!ConnectionAttempt /\ [x EXCEPT !.state = v].prom = x.prom
         /\ LET y == [x EXCEPT !.count = x.count - 1]
            IN  y \in Cache!ConnectionAttempt /\ y.prom = x.prom
         /\ LET y == [x EXCEPT !.state = "error", !.prom = Cache!Failed]
            IN  y \in Cache!ConnectionAttempt /\ y.prom = Cache!Failed
<1> USE DEF Cache!ConnectionAttempt
<1>1. ASSUME NEW v \in {"none", "pending", "connected", "error"}
      PROVE  [x EXCEPT !.state = v] \in Cache!ConnectionAttempt /\ [x EXCEPT !.state = v].prom = x.prom
  OBVIOUS
<1>2. LET y == [x EXCEPT !.count = x.count - 1]
      IN  y \in Cache!ConnectionAttempt /\ y.prom = x.prom
  <2>1. x.count \in Int
    OBVIOUS
  <2>2. x.count - 1 \in Int
    BY <2>1
  <2> QED
    BY <2>2
<1>3. LET y == [x EXCEPT !.state = "error", !.prom = Cache!Failed]
      IN  y \in Cache!ConnectionAttempt /\ y.prom = Cache!Failed
  OBVIOUS
<1> HIDE DEF Cache!ConnectionAttempt
<1> QED
  BY <1>1, <1>2, <1>3

\* What an action makes of the attempts: which sockets are promised is what matters.
Promised(t) == \A a \in Attempts : t[a].prom \in Sockets => result'[t[a].prom] = "handled"

LEMMA AttemptSet ==
  ASSUME NEW t \in [Attempts -> Cache!ConnectionAttempt], Promised(t), NEW a, NEW m, NEW e,
         e = [t EXCEPT ![a] = m],
         a \in Attempts => /\ m \in Cache!ConnectionAttempt
                           /\ m.prom \in Sockets => result'[m.prom] = "handled"
  PROVE  e \in [Attempts -> Cache!ConnectionAttempt] /\ Promised(e)
<1>1. e \in [Attempts -> Cache!ConnectionAttempt]
  OBVIOUS
<1>2. \A b \in Attempts : e[b] = t[b] \/ (b = a /\ e[b] = m)
  OBVIOUS
<1> QED
  BY <1>1, <1>2 DEF Promised

LEMMA Promising ==
  ASSUME Cache!CacheAssumption, CacheInv, SockTypes',
         \A s \in Sockets : result[s] = "handled" => result'[s] = "handled"
  PROVE  /\ Promised(att)
         /\ \A a, v : v \in {"none", "pending", "connected", "error"} =>
              LET t == [att EXCEPT ![a].state = v]
              IN  t \in [Attempts -> Cache!ConnectionAttempt] /\ Promised(t)
         /\ \A a : LET t == [att EXCEPT ![a].count = @ - 1]
                   IN  t \in [Attempts -> Cache!ConnectionAttempt] /\ Promised(t)
<1>1. att \in [Attempts -> Cache!ConnectionAttempt]
  BY DEF CacheInv, TableTypes
<1>2. Promised(att)
  BY DEF CacheInv, GivenInv, Promised
<1>3. ASSUME NEW a, NEW v \in {"none", "pending", "connected", "error"}
      PROVE  /\ [att EXCEPT ![a].state = v] \in [Attempts -> Cache!ConnectionAttempt]
             /\ Promised([att EXCEPT ![a].state = v])
  <2> DEFINE m == [att[a] EXCEPT !.state = v]
  <2>1. a \in Attempts => m \in Cache!ConnectionAttempt /\ m.prom = att[a].prom
    BY <1>1, AttemptFields
  <2>2. [att EXCEPT ![a].state = v] = [att EXCEPT ![a] = m]
    OBVIOUS
  <2> HIDE DEF m
  <2>3. a \in Attempts => (m.prom \in Sockets => result'[m.prom] = "handled")
    BY <1>2, <2>1 DEF Promised
  <2> QED
    BY <1>1, <1>2, <2>1, <2>2, <2>3, AttemptSet
<1>4. ASSUME NEW a
      PROVE  /\ [att EXCEPT ![a].count = @ - 1] \in [Attempts -> Cache!ConnectionAttempt]
             /\ Promised([att EXCEPT ![a].count = @ - 1])
  <2> DEFINE m == [att[a] EXCEPT !.count = @ - 1]
  <2>1. a \in Attempts => m \in Cache!ConnectionAttempt /\ m.prom = att[a].prom
    BY <1>1, AttemptFields
  <2>2. [att EXCEPT ![a].count = @ - 1] = [att EXCEPT ![a] = m]
    OBVIOUS
  <2> HIDE DEF m
  <2>3. a \in Attempts => (m.prom \in Sockets => result'[m.prom] = "handled")
    BY <1>2, <2>1 DEF Promised
  <2> QED
    BY <1>1, <1>2, <2>1, <2>2, <2>3, AttemptSet
<1> QED
  BY <1>2, <1>3, <1>4

\* Every step keeps the maps, the attempts and the futures in order.
LEMMA TablesKept ==
  ASSUME Cache!CacheAssumption, CacheInv, [Cache!Next]_Cache!vars
  PROVE  /\ TableTypes' /\ WaitInv'
         /\ \A a \in Attempts : att'[a].prom \in Sockets => result'[att'[a].prom] = "handled"
         /\ \A r \in Requests : answer'[r] \in Sockets => result'[answer'[r]] = "handled"
<1> DEFINE Answers == \A r \in Requests : answer'[r] \in Sockets => result'[answer'[r]] = "handled"
           Goal == TableTypes' /\ WaitInv' /\ Promised(att') /\ Answers
<1>0. /\ TableTypes /\ WaitInv /\ SockTypes /\ LifeTypes /\ SockInv /\ SockTypes'
      /\ \A s \in Sockets : result[s] = "handled" => result'[s] = "handled"
      /\ \A r \in Requests : answer[r] \in Sockets => result[answer[r]] = "handled"
      /\ \A s \in Sockets : inserts[s] # <<>> => result[s] = "handled"
  BY SocketsKept DEF CacheInv, GivenInv
<1>m. /\ Cache!NotAsked = -3 /\ Cache!Running = -2 /\ Cache!Failed = -1 /\ Cache!NoAttempt = 0
      /\ Cache!NoUri = 0 /\ Cache!NoSocket = 0 /\ Sockets \subseteq Nat /\ Attempts \subseteq Nat \ {0}
  BY DEF Cache!CacheAssumption, Cache!NotAsked, Cache!Running, Cache!Failed, Cache!NoAttempt,
         Cache!NoUri, Cache!NoSocket
<1>1. ASSUME UNCHANGED <<conns, swapped, att, waits, answer>> PROVE Goal
  <2>1. Promised(att') /\ Answers
    BY <1>0, <1>1, Promising DEF Promised
  <2> QED
    BY <1>0, <1>1, <2>1 DEF TableTypes, WaitInv
<1>2. ASSUME NEW c \in [Uris -> Attempts \cup {0}], NEW h \in [Uris -> Attempts \cup {0}],
             NEW t \in [Attempts -> Cache!ConnectionAttempt], NEW w \in [Requests -> Attempts \cup {0}],
             \A r \in Requests : w[r] = waits[r] \/ answer[r] = Cache!NotAsked,
             Promised(t), Cache!Update(c, h, t, w)
      PROVE  Goal
  <2>1. /\ TableTypes' /\ WaitInv'
        /\ \A r \in Requests : answer'[r] = answer[r] \/ answer'[r] = Cache!Failed
                                 \/ \E a \in Attempts : answer'[r] = t[a].prom
        /\ \A a \in Attempts : att'[a].prom \in Sockets => att'[a].prom = t[a].prom
    <3>1. TableTypes /\ WaitInv
      BY <1>0
    <3>2. TableTypes'
      BY <1>2, <3>1, UpdateKeeps
    <3>3. WaitInv'
      BY <1>2, <3>1, UpdateKeeps
    <3>5. \A r \in Requests : answer'[r] = answer[r] \/ answer'[r] = Cache!Failed
                                 \/ \E a \in Attempts : answer'[r] = t[a].prom
      BY <1>2, <3>1, UpdateKeeps
    <3>6. \A a \in Attempts : att'[a].prom \in Sockets => att'[a].prom = t[a].prom
      BY <1>2, <3>1, UpdateKeeps, SMTT(30)
    <3> QED
      BY <3>2, <3>3, <3>5, <3>6
  <2>2. Promised(att')
    BY <1>2, <2>1 DEF Promised
  <2>3. ASSUME NEW r \in Requests, answer'[r] \in Sockets PROVE result'[answer'[r]] = "handled"
    <3>1. answer'[r] # Cache!Failed
      BY <1>m, <2>3
    <3>2. CASE answer'[r] = answer[r]
      BY <1>0, <2>3, <3>2
    <3>3. CASE \E a \in Attempts : answer'[r] = t[a].prom
      BY <1>2, <2>3, <3>3 DEF Promised
    <3> QED
      BY <2>1, <3>1, <3>2, <3>3
  <2> QED
    BY <2>1, <2>2, <2>3
<1>3. ASSUME NEW c \in [Uris -> Attempts \cup {0}], NEW t \in [Attempts -> Cache!ConnectionAttempt],
             Promised(t), Cache!Update(c, swapped, t, waits)
      PROVE  Goal
  BY <1>0, <1>2, <1>3 DEF TableTypes
<1>4. ASSUME NEW r \in Requests, Cache!Refused(r) PROVE Goal
  <2>1. /\ UNCHANGED <<conns, swapped, att, waits>> /\ answer[r] = Cache!NotAsked
        /\ answer' = [answer EXCEPT ![r] = Cache!Failed]
    BY <1>4 DEF Cache!Refused
  <2>2. TableTypes' /\ WaitInv'
    BY <1>0, <1>m, <2>1 DEF TableTypes, WaitInv
  <2>3. Promised(att')
    BY <1>0, <2>1, Promising DEF Promised
  <2>4. \A x \in Requests : answer'[x] = answer[x] \/ (x = r /\ answer'[x] = Cache!Failed)
    BY <1>0, <2>1 DEF TableTypes
  <2>5. Cache!Failed \notin Sockets
    BY <1>m
  <2>6. Answers
    BY <1>0, <2>4, <2>5
  <2> QED
    BY <2>2, <2>3, <2>6
<1>5. ASSUME NEW r \in Requests, Cache!Found(r) PROVE Goal
  <2>1. PICK a \in Cache!Matching(wants[r]) : Cache!Update(conns, swapped, att, [waits EXCEPT ![r] = a])
    BY <1>5 DEF Cache!Found
  <2>2. a \in Attempts
    BY <1>0, <1>m DEF Cache!Matching, Cache!Keys, TableTypes
  <2>3. [waits EXCEPT ![r] = a] \in [Requests -> Attempts \cup {0}]
    BY <1>0, <2>2 DEF TableTypes
  <2>4. \A x \in Requests : [waits EXCEPT ![r] = a][x] = waits[x] \/ answer[x] = Cache!NotAsked
    BY <1>0, <1>5 DEF Cache!Found, TableTypes
  <2> QED
    BY <1>0, <1>2, <2>1, <2>3, <2>4, Promising DEF TableTypes
<1>6. ASSUME NEW r \in Requests, Cache!Connect(r) PROVE Goal
  <2>1. PICK a \in Cache!FreeAttempts : a = Cache!Min(Cache!FreeAttempts)
    BY <1>6, LeastIn DEF Cache!Connect, Cache!FreeAttempts, Cache!CacheAssumption
  <2> DEFINE t == [att EXCEPT ![a] = Cache!NewAttempt(wants[r])]
             c == [u \in Uris |-> IF u \in Cache!Tried(wants[r]) THEN a ELSE conns[u]]
             w == [waits EXCEPT ![r] = a]
  <2>2. Cache!Update(c, swapped, t, w)
    BY <1>6, <2>1 DEF Cache!Connect
  <2>3. a \in Attempts /\ wants[r] \in Infos
    BY <1>0 DEF Cache!FreeAttempts, LifeTypes
  <2>4. t \in [Attempts -> Cache!ConnectionAttempt] /\ Promised(t)
    <3>1. /\ Cache!NewAttempt(wants[r]) \in Cache!ConnectionAttempt
          /\ Cache!NewAttempt(wants[r]).prom = Cache!Running
      BY <1>0, <2>3, NewTyped
    <3>2. Cache!Running \notin Sockets
      BY <1>m
    <3>3. att \in [Attempts -> Cache!ConnectionAttempt] /\ Promised(att)
      BY <1>0, Promising DEF TableTypes
    <3> QED
      BY <3>1, <3>2, <3>3, AttemptSet
  <2>5. c \in [Uris -> Attempts \cup {0}] /\ w \in [Requests -> Attempts \cup {0}]
    BY <1>0, <2>3 DEF TableTypes
  <2>6. \A x \in Requests : w[x] = waits[x] \/ answer[x] = Cache!NotAsked
    BY <1>0, <1>6 DEF Cache!Connect, TableTypes
  <2>7. swapped \in [Uris -> Attempts \cup {0}]
    BY <1>0 DEF TableTypes
  <2> HIDE DEF t, c, w
  <2> QED
    BY <1>2, <2>2, <2>4, <2>5, <2>6, <2>7
<1>7. ASSUME NEW s \in Sockets,
             \/ \E v : Cache!ConnectEnds(s, v)
             \/ Cache!Disconnects(s) \/ Cache!ResultDying(s) \/ Cache!ResultGone(s) \/ Cache!disconnect(s)
      PROVE  Goal
  BY <1>1, <1>7 DEF Cache!ConnectEnds, Cache!Disconnects, Cache!ResultDying, Cache!ResultGone,
                    Cache!disconnect, Cache!table
<1>8. ASSUME NEW s \in Sockets, Cache!ResultLate(s) PROVE Goal
  <2>1. PICK a : Cache!Update(Cache!checkClear(conns, Cache!Counted(s), a), swapped, Cache!Counted(s), waits)
    BY <1>8 DEF Cache!ResultLate
  <2>2. Cache!Counted(s) \in [Attempts -> Cache!ConnectionAttempt] /\ Promised(Cache!Counted(s))
    BY <1>0, Promising DEF Cache!Counted
  <2> QED
    BY <1>0, <1>3, <2>1, <2>2, ClearTyped DEF TableTypes
<1>9. ASSUME NEW s \in Sockets, Cache!ResultError(s) PROVE Goal
  <2> DEFINE a == conns[sock[s].uri]
             t == Cache!Counted(s)
             e == [t EXCEPT ![a].state = "error", ![a].prom = Cache!Failed]
  <2>1. Cache!Update(Cache!checkClear(conns, e, a), swapped, e, waits) \/ Cache!Update(conns, swapped, t, waits)
    BY <1>9 DEF Cache!ResultError
  <2>2. t \in [Attempts -> Cache!ConnectionAttempt] /\ Promised(t)
    BY <1>0, Promising DEF Cache!Counted
  <2> HIDE DEF t, a
  <2>3. e \in [Attempts -> Cache!ConnectionAttempt] /\ Promised(e)
    <3> DEFINE m == [t[a] EXCEPT !.state = "error", !.prom = Cache!Failed]
    <3>1. a \in Attempts => m \in Cache!ConnectionAttempt /\ m.prom = Cache!Failed
      BY <2>2, AttemptFields
    <3>2. e = [t EXCEPT ![a] = m]
      BY <2>2
    <3>3. Cache!Failed \notin Sockets
      BY <1>m
    <3> HIDE DEF m, e
    <3> QED
      BY <2>2, <3>1, <3>2, <3>3, AttemptSet
  <2> HIDE DEF e
  <2> QED
    BY <1>0, <1>3, <2>1, <2>2, <2>3, ClearTyped DEF TableTypes
<1>10. ASSUME NEW s \in Sockets, NEW a, NEW u \in Uris, NEW t \in [Attempts -> Cache!ConnectionAttempt],
              Promised(t), result'[s] = "handled"
       PROVE  LET k == [t EXCEPT ![a].state = "connected", ![a].endpoint = s, ![a].prom = s, ![a].link = u]
              IN  k \in [Attempts -> Cache!ConnectionAttempt] /\ Promised(k)
  <2> DEFINE e == [t EXCEPT ![a].state = "connected", ![a].endpoint = s, ![a].prom = s, ![a].link = u]
             m == [t[a] EXCEPT !.state = "connected", !.endpoint = s, !.prom = s, !.link = u]
  <2>1. a \in Attempts => m \in Cache!ConnectionAttempt /\ m.prom = s
    <3>1. a \in Attempts => t[a] \in Cache!ConnectionAttempt
      BY <1>10
    <3> QED
      BY <1>10, <3>1, ConnectedFields
  <2>2. e = [t EXCEPT ![a] = m]
    BY <1>10
  <2> HIDE DEF m, e
  <2>3. e \in [Attempts -> Cache!ConnectionAttempt] /\ Promised(e)
    BY <1>10, <2>1, <2>2, AttemptSet
  <2> QED
    BY <2>3 DEF e
<1>11. ASSUME NEW s \in Sockets, Cache!ResultConnected(s) PROVE Goal
  <2> DEFINE a == conns[sock[s].uri]
             t == [Cache!Counted(s) EXCEPT ![a].state = "connected", ![a].endpoint = s,
                                           ![a].prom = s, ![a].link = sock[s].uri]
  <2>1. Cache!Update(conns, swapped, t, waits) /\ result[s] = "value" /\ result' = [result EXCEPT ![s] = "handled"]
    BY <1>11 DEF Cache!ResultConnected
  <2>2. Cache!Counted(s) \in [Attempts -> Cache!ConnectionAttempt] /\ Promised(Cache!Counted(s))
    BY <1>0, Promising DEF Cache!Counted
  <2>3. result'[s] = "handled" /\ sock[s].uri \in Uris
    <3>1. SockAt(s) /\ result'[s] = "handled"
      BY <1>0, <2>1 DEF SockTypes, SockInv
    <3> QED
      BY <2>1, <3>1 DEF SockAt
  <2>4. t \in [Attempts -> Cache!ConnectionAttempt] /\ Promised(t)
    BY <1>10, <2>2, <2>3
  <2> HIDE DEF t
  <2> QED
    BY <1>0, <1>3, <2>1, <2>4 DEF TableTypes
<1>12. ASSUME NEW s \in Sockets, Cache!insert(s) PROVE Goal
  <2> DEFINE u == Head(inserts[s])
             a == conns[u]
             k == Cache!Min(Cache!FreeAttempts)
             owned == [att EXCEPT ![a].state = "connected", ![a].endpoint = s,
                                  ![a].prom = s, ![a].link = u]
             fresh == [state |-> "connected", count |-> 0, endpoint |-> s,
                       uris |-> {u}, prom |-> s, link |-> 0, tried |-> {}, skips |-> FALSE]
             made == [att EXCEPT ![k] = fresh]
  <2>1. /\ inserts[s] # <<>>
        /\ \/ UNCHANGED <<conns, swapped, att, waits, answer>> \/ Cache!Update(conns, swapped, owned, waits)
           \/ Cache!FreeAttempts # {} /\ Cache!Update([conns EXCEPT ![u] = k], swapped, made, waits)
    BY <1>m, <1>12 DEF Cache!insert, Cache!table
  <2>2. u \in Uris /\ result'[s] = "handled"
    <3>1. inserts[s] \in Seq(Uris)
      BY <1>0 DEF SockTypes
    <3>2. u \in Uris
      BY <2>1, <3>1, FirstAddress
    <3> QED
      BY <1>0, <2>1, <3>2
  <2>3. CASE UNCHANGED <<conns, swapped, att, waits, answer>>
    BY <1>1, <2>3
  <2>4. CASE Cache!Update(conns, swapped, owned, waits)
    <3>1. owned \in [Attempts -> Cache!ConnectionAttempt] /\ Promised(owned)
      BY <1>0, <1>10, <2>2, Promising DEF TableTypes
    <3> HIDE DEF owned
    <3> QED
      BY <1>0, <1>3, <2>4, <3>1 DEF TableTypes
  <2>5. CASE Cache!FreeAttempts # {} /\ Cache!Update([conns EXCEPT ![u] = k], swapped, made, waits)
    <3>1. k \in Attempts
      BY <2>5, LeastIn DEF Cache!FreeAttempts, Cache!CacheAssumption
    <3>2. fresh \in Cache!ConnectionAttempt /\ fresh.prom = s
      BY <1>m, <2>2 DEF Cache!ConnectionAttempt
    <3> HIDE DEF k, fresh
    <3>3. made \in [Attempts -> Cache!ConnectionAttempt] /\ Promised(made)
      BY <1>0, <2>2, <3>1, <3>2, Promising DEF TableTypes, Promised
    <3>4. [conns EXCEPT ![u] = k] \in [Uris -> Attempts \cup {0}]
      BY <1>0, <3>1 DEF TableTypes
    <3> HIDE DEF made
    <3> QED
      BY <1>3, <2>5, <3>3, <3>4
  <2> QED
    BY <2>1, <2>3, <2>4, <2>5
<1>13. ASSUME NEW s \in Sockets, Cache!onSocketDisconnected(s) PROVE Goal
  <2>1. \/ UNCHANGED <<conns, swapped, att, waits, answer>>
        \/ \E a : LET t == [att EXCEPT ![a].state = "error"]
                  IN  Cache!Update(Cache!checkClear(conns, t, a), swapped, t, waits)
    BY <1>13 DEF Cache!onSocketDisconnected, Cache!table
  <2>2. ASSUME NEW a, NEW t, t = [att EXCEPT ![a].state = "error"],
               Cache!Update(Cache!checkClear(conns, t, a), swapped, t, waits)
        PROVE  Goal
    <3>1. t \in [Attempts -> Cache!ConnectionAttempt] /\ Promised(t)
      BY <1>0, <2>2, Promising
    <3> QED
      BY <1>0, <1>3, <2>2, <3>1, ClearTyped DEF TableTypes
  <2> QED
    BY <1>1, <2>1, <2>2
<1>14. ASSUME \/ Cache!addSdSocketToCache \/ Cache!init \/ Cache!ClosePending \/ Cache!CloseReleases
              \/ UNCHANGED Cache!vars
       PROVE  Goal
  BY <1>1, <1>14 DEF Cache!addSdSocketToCache, Cache!init, Cache!ClosePending, Cache!CloseReleases,
                     Cache!vars, Cache!table
<1>15. ASSUME NEW c \in [Uris -> Attempts \cup {0}], NEW h \in [Uris -> Attempts \cup {0}],
              Cache!Update(c, h, att, waits)
       PROVE  Goal
  BY <1>0, <1>2, <1>15, Promising DEF TableTypes
<1>17. ASSUME Cache!close PROVE Goal
  <2>1. Cache!Update([u \in Uris |-> 0], conns, att, waits)
    BY <1>m, <1>17 DEF Cache!close
  <2>2. [u \in Uris |-> 0] \in [Uris -> Attempts \cup {0}] /\ conns \in [Uris -> Attempts \cup {0}]
    BY <1>0 DEF TableTypes
  <2> QED
    BY <1>15, <2>1, <2>2
<1>18. ASSUME Cache!CloseThrows PROVE Goal
  <2>1. Cache!Update(conns, [u \in Uris |-> 0], att, waits)
    BY <1>m, <1>18 DEF Cache!CloseThrows
  <2>2. [u \in Uris |-> 0] \in [Uris -> Attempts \cup {0}] /\ conns \in [Uris -> Attempts \cup {0}]
    BY <1>0 DEF TableTypes
  <2> QED
    BY <1>15, <2>1, <2>2
<1>19. ASSUME NEW v, NEW t \in [Attempts -> Cache!ConnectionAttempt], Promised(t),
              Cache!Update(conns, [swapped EXCEPT ![v] = 0], t, waits)
       PROVE  Goal
  <2>1. /\ conns \in [Uris -> Attempts \cup {0}] /\ [swapped EXCEPT ![v] = 0] \in [Uris -> Attempts \cup {0}]
        /\ waits \in [Requests -> Attempts \cup {0}]
    BY <1>0 DEF TableTypes
  <2> QED
    BY <1>2, <1>19, <2>1
<1>20. ASSUME Cache!CloseConnected PROVE Goal
  <2>1. PICK v, a : Cache!Update(conns, [swapped EXCEPT ![v] = 0], [att EXCEPT ![a].link = 0], waits)
    BY <1>m, <1>20 DEF Cache!CloseConnected
  <2> DEFINE m == [att[a] EXCEPT !.link = 0]
             e == [att EXCEPT ![a].link = 0]
  <2>2. a \in Attempts => m \in Cache!ConnectionAttempt /\ m.prom = att[a].prom
    <3>1. a \in Attempts => att[a] \in Cache!ConnectionAttempt
      BY <1>0 DEF TableTypes
    <3> QED
      BY <1>m, <3>1 DEF Cache!ConnectionAttempt
  <2>3. att \in [Attempts -> Cache!ConnectionAttempt] /\ Promised(att) /\ e = [att EXCEPT ![a] = m]
    BY <1>0, Promising DEF TableTypes
  <2>4. Cache!Update(conns, [swapped EXCEPT ![v] = 0], e, waits)
    BY <2>1
  <2> HIDE DEF m, e
  <2>5. a \in Attempts => (m.prom \in Sockets => result'[m.prom] = "handled")
    BY <2>2, <2>3 DEF Promised
  <2>6. e \in [Attempts -> Cache!ConnectionAttempt] /\ Promised(e)
    BY <2>2, <2>3, <2>5, AttemptSet
  <2> QED
    BY <1>19, <2>4, <2>6
<1>21. ASSUME Cache!CloseAttempt PROVE Goal
  <2>1. PICK v, a : Cache!Update(conns, [swapped EXCEPT ![v] = 0],
                                 [att EXCEPT ![a].state = "error", ![a].prom = Cache!Failed], waits)
    BY <1>m, <1>21 DEF Cache!CloseAttempt
  <2> DEFINE m == [att[a] EXCEPT !.state = "error", !.prom = Cache!Failed]
             e == [att EXCEPT ![a].state = "error", ![a].prom = Cache!Failed]
  <2>2. a \in Attempts => m \in Cache!ConnectionAttempt /\ m.prom = Cache!Failed
    BY <1>0, AttemptFields DEF TableTypes
  <2>3. att \in [Attempts -> Cache!ConnectionAttempt] /\ Promised(att) /\ e = [att EXCEPT ![a] = m]
    <3>1. att \in [Attempts -> Cache!ConnectionAttempt] /\ Promised(att)
      BY <1>0, Promising DEF TableTypes
    <3> QED
      BY <3>1
  <2>4. Cache!Update(conns, [swapped EXCEPT ![v] = 0], e, waits) /\ Cache!Failed \notin Sockets
    BY <1>m, <2>1
  <2> HIDE DEF m, e
  <2>5. e \in [Attempts -> Cache!ConnectionAttempt] /\ Promised(e)
    BY <2>2, <2>3, <2>4, AttemptSet
  <2> QED
    BY <1>19, <2>4, <2>5
<1>16. Goal
  BY <1>4, <1>5, <1>6, <1>7, <1>8, <1>9, <1>11, <1>12, <1>13, <1>14, <1>17, <1>18, <1>20, <1>21
     DEF Cache!Next, Cache!socket, Cache!onSocketParallelConnectionAttempt, Cache!CloseLoops
<1> QED
  BY <1>16 DEF Promised

\* The cache's own flags; a closed cache gets no attempt.
LEMMA LifeKept ==
  ASSUME Cache!CacheAssumption, CacheInv, [Cache!Next]_Cache!vars
  PROVE  LifeTypes' /\ ClosedInv'
<1> DEFINE Goal == LifeTypes' /\ ClosedInv'
<1>0. LifeTypes /\ ClosedInv /\ TableTypes /\ SockTypes /\ Cache!NoAttempt = 0 /\ Cache!NoSocket = 0
  BY DEF CacheInv, Cache!NoAttempt, Cache!NoSocket
<1>1. ASSUME UNCHANGED <<local, wants, hasSd, dying, opens, drops, looping, taken, left, swapped>>,
             ~dying \/ (pending' \subseteq pending /\ conns' = conns)
      PROVE  Goal
  BY <1>0, <1>1 DEF LifeTypes, ClosedInv
<1>2. ASSUME NEW r \in Requests, Cache!socket(r) PROVE Goal
  BY <1>1, <1>2 DEF Cache!socket, Cache!Refused, Cache!Found, Cache!Connect, Cache!Update, Cache!cases, Cache!life,
                    Cache!closer
<1>3. ASSUME NEW s \in Sockets, Cache!onSocketParallelConnectionAttempt(s) PROVE Goal
  <2>1. CASE Cache!ResultDying(s)
    BY <1>1, <2>1 DEF Cache!ResultDying, Cache!Reject, Cache!cases, Cache!life, Cache!closer, Cache!table
  <2>2. CASE Cache!ResultGone(s)
    BY <1>1, <2>2 DEF Cache!ResultGone, Cache!cases, Cache!life, Cache!closer, Cache!table
  <2>3. CASE Cache!ResultLate(s) \/ Cache!ResultError(s) \/ Cache!ResultConnected(s)
    BY <1>1, <2>3 DEF Cache!ResultLate, Cache!ResultError, Cache!ResultConnected, Cache!Update,
                      Cache!cases, Cache!life, Cache!closer
  <2> QED
    BY <1>3, <2>1, <2>2, <2>3 DEF Cache!onSocketParallelConnectionAttempt
<1>4. ASSUME NEW s \in Sockets, NEW v, Cache!ConnectEnds(s, v) PROVE Goal
  BY <1>1, <1>4 DEF Cache!ConnectEnds, Cache!cases, Cache!life, Cache!closer, Cache!table
<1>5. ASSUME NEW s \in Sockets, Cache!Disconnects(s) \/ Cache!disconnect(s) PROVE Goal
  <2>1. /\ UNCHANGED <<local, wants, hasSd, dying, opens, looping, taken, left, conns, swapped, pending>>
        /\ drops' = drops \/ (drops > 0 /\ drops' = drops - 1)
    BY <1>5 DEF Cache!Disconnects, Cache!disconnect, Cache!cases, Cache!closer, Cache!table
  <2>2. drops' \in Nat
    BY <1>0, <2>1 DEF LifeTypes
  <2> QED
    BY <1>0, <2>1, <2>2 DEF LifeTypes, ClosedInv
<1>6. ASSUME NEW s \in Sockets, Cache!insert(s) PROVE Goal
  BY <1>1, <1>6 DEF Cache!insert, Cache!Update, Cache!cases, Cache!life, Cache!closer, Cache!table
<1>7. ASSUME NEW s \in Sockets, Cache!onSocketDisconnected(s) PROVE Goal
  <2>1. UNCHANGED <<local, wants, hasSd, dying, opens, drops, looping, taken, left, swapped, pending>>
    BY <1>7 DEF Cache!onSocketDisconnected, Cache!Update, Cache!cases, Cache!life, Cache!closer, Cache!table
  <2>2. CASE conns' = conns
    BY <1>1, <2>1, <2>2
  <2>3. CASE conns' # conns
    <3>1. PICK t, a : conns' = Cache!checkClear(conns, t, a)
      BY <1>7, <2>3 DEF Cache!onSocketDisconnected, Cache!Update, Cache!table
    <3>2. \A u \in Uris : conns[u] = 0 => conns'[u] = 0
      BY <1>0, <3>1 DEF Cache!checkClear
    <3> QED
      BY <1>0, <2>1, <3>2 DEF LifeTypes, ClosedInv
  <2> QED
    BY <2>2, <2>3
<1>8. ASSUME Cache!addSdSocketToCache \/ Cache!init PROVE Goal
  <2>1. /\ UNCHANGED <<local, wants, drops, looping, taken, left, conns, swapped, pending>>
        /\ dying' \in {FALSE, dying} /\ hasSd' \in {FALSE, hasSd}
        /\ opens' = opens \/ (opens > 0 /\ opens' = opens - 1)
    BY <1>8 DEF Cache!addSdSocketToCache, Cache!init, Cache!cases, Cache!closer, Cache!table
  <2>2. opens' \in Nat
    BY <1>0, <2>1 DEF LifeTypes
  <2>3. dying' \in BOOLEAN /\ hasSd' \in BOOLEAN
    BY <1>0, <2>1, Zenon DEF LifeTypes
  <2>4. ClosedInv'
    <3>1. dying' => dying
      BY <2>1, Zenon
    <3> QED
      BY <1>0, <2>1, <3>1 DEF ClosedInv
  <2> QED
    BY <1>0, <2>1, <2>2, <2>3, <2>4 DEF LifeTypes
<1>9. ASSUME Cache!close PROVE Goal
  <2>1. /\ UNCHANGED <<local, wants, opens, drops, hasSd, left>> /\ dying' = TRUE /\ looping' = TRUE
        /\ conns' = [u \in Uris |-> 0] /\ taken' = pending /\ pending' = {}
    BY <1>0, <1>9 DEF Cache!close, Cache!Update, Cache!cases
  <2> QED
    BY <1>0, <2>1 DEF LifeTypes, ClosedInv, SockTypes
<1>10. ASSUME Cache!CloseConnected \/ Cache!CloseAttempt PROVE Goal
  <2>1. /\ UNCHANGED <<local, wants, hasSd, dying, opens, drops, looping, taken, left, conns, pending>> /\ looping
    BY <1>10 DEF Cache!CloseConnected, Cache!CloseAttempt, Cache!AtAttempt, Cache!Update, Cache!cases, Cache!life,
                 Cache!closer
  <2> QED
    BY <1>0, <2>1 DEF LifeTypes, ClosedInv
<1>11. ASSUME Cache!CloseThrows PROVE Goal
  <2>1. /\ UNCHANGED <<local, wants, hasSd, dying, opens, drops, conns, pending>>
        /\ looping' = FALSE /\ taken' = {} /\ swapped' = [u \in Uris |-> 0]
        /\ left' = left \cup taken \cup
             ({att[swapped[u]].endpoint : u \in {v \in Uris : swapped[v] # 0}} \ {0})
    BY <1>0, <1>11 DEF Cache!CloseThrows, Cache!Update, Cache!cases
  <2>2. ASSUME NEW u \in Uris, swapped[u] # 0 PROVE att[swapped[u]].endpoint \in Sockets \cup {0}
    BY <1>0, <2>2 DEF TableTypes, Cache!ConnectionAttempt
  <2>3. left' \subseteq Sockets
    BY <1>0, <2>1, <2>2 DEF LifeTypes
  <2> QED
    BY <1>0, <2>1, <2>3 DEF LifeTypes, ClosedInv
<1>12. ASSUME Cache!ClosePending PROVE Goal
  <2>1. /\ UNCHANGED <<local, wants, hasSd, dying, opens, drops, looping, left, conns, swapped, pending>>
        /\ looping /\ taken' \subseteq taken
    BY <1>12 DEF Cache!ClosePending, Cache!cases, Cache!table
  <2> QED
    BY <1>0, <2>1 DEF LifeTypes, ClosedInv
<1>13. ASSUME Cache!CloseReleases PROVE Goal
  <2>1. /\ UNCHANGED <<local, wants, hasSd, dying, opens, drops, taken, left, conns, swapped, pending>>
        /\ looping' = FALSE /\ taken = {} /\ \A u \in Uris : swapped[u] = 0
    BY <1>0, <1>13 DEF Cache!CloseReleases, Cache!AtAttempt, Cache!cases, Cache!table
  <2> QED
    BY <1>0, <2>1 DEF LifeTypes, ClosedInv
<1>14. ASSUME UNCHANGED Cache!vars PROVE Goal
  BY <1>1, <1>14 DEF Cache!vars, Cache!cases, Cache!life, Cache!closer, Cache!table
<1> QED
  BY <1>2, <1>3, <1>4, <1>5, <1>6, <1>7, <1>8, <1>9, <1>10, <1>11, <1>12, <1>13, <1>14
     DEF Cache!Next, Cache!CloseLoops

LEMMA CacheInit == ASSUME Cache!CacheAssumption, Cache!Init PROVE CacheInv /\ MadeInv
<1>m. /\ Cache!NotAsked = -3 /\ Cache!Running = -2 /\ Cache!Failed = -1 /\ Cache!NoAttempt = 0
      /\ Cache!NoUri = 0 /\ Cache!NoSocket = 0 /\ Sockets \subseteq Nat /\ Attempts \subseteq Nat \ {0}
  BY DEF Cache!CacheAssumption, Cache!NotAsked, Cache!Running, Cache!Failed, Cache!NoAttempt,
         Cache!NoUri, Cache!NoSocket
<1>1. Cache!NoneAttempt \in Cache!ConnectionAttempt /\ Cache!NoneAttempt.prom = Cache!Running
  BY DEF Cache!NoneAttempt, Cache!ConnectionAttempt, Cache!NoSocket, Cache!NoUri
<1>2. TableTypes /\ WaitInv /\ ClosedInv
  BY <1>m, <1>1 DEF Cache!Init, TableTypes, WaitInv, ClosedInv
<1>3. SockTypes
  BY <1>m DEF Cache!Init, SockTypes
<1>4. SockInv /\ MadeInv
  BY <1>m DEF Cache!Init, SockInv, SockAt, MadeInv
<1>5. GivenInv
  BY <1>m, <1>1 DEF Cache!Init, GivenInv
<1>6. LifeTypes
  <2>1. PICK k \in Cases : local = k[1] /\ wants = k[2] /\ hasSd = k[3] /\ opens = k[4] /\ drops = k[5]
    BY DEF Cache!Init
  <2>2. k \in BOOLEAN \X [Requests -> Infos] \X BOOLEAN \X Nat \X Nat
    BY DEF Cache!CacheAssumption
  <2>3. local \in BOOLEAN /\ hasSd \in BOOLEAN
    BY <2>1, <2>2
  <2>4. wants \in [Requests -> Infos] /\ opens \in Nat /\ drops \in Nat
    BY <2>1, <2>2
  <2>5. dying \in BOOLEAN /\ looping \in BOOLEAN /\ taken = {} /\ left = {}
    BY DEF Cache!Init
  <2> QED
    BY <2>3, <2>4, <2>5 DEF LifeTypes
<1> QED
  BY <1>2, <1>3, <1>4, <1>5, <1>6 DEF CacheInv

\* A socket that the cache has made is pending, or in the hands of close(), until it is
\* disconnected.
LEMMA MadeKept ==
  ASSUME Cache!CacheAssumption, CacheInv, MadeInv, [Cache!Next]_Cache!vars
  PROVE  MadeInv'
<1> DEFINE Open(s) == sock[s].rel # 0 /\ sock[s].state \in {"connecting", "up"}
           OpenNext(s) == sock'[s].rel # 0 /\ sock'[s].state \in {"connecting", "up"}
           Kept == UNCHANGED <<taken, left>>
<1>0. /\ SockTypes /\ SockInv /\ LifeTypes /\ Cache!NoUri = 0
      /\ \A s \in Sockets : Open(s) => s \in pending \cup taken \cup left
  BY DEF CacheInv, MadeInv, Cache!NoUri
<1>1. ASSUME \A s \in Sockets : OpenNext(s) => s \in pending' \cup taken' \cup left'
      PROVE  MadeInv'
  BY <1>1 DEF MadeInv
<1>2. ASSUME Kept, pending' = pending, \A s \in Sockets : OpenNext(s) => Open(s)
      PROVE  MadeInv'
  BY <1>0, <1>1, <1>2
<1>3. ASSUME NEW r \in Requests, Cache!Refused(r) \/ Cache!Found(r) PROVE MadeInv'
  BY <1>2, <1>3 DEF Cache!Refused, Cache!Found, Cache!life, Cache!closer
<1>4. ASSUME NEW r \in Requests, Cache!Connect(r) PROVE MadeInv'
  <2>1. Kept
    BY <1>4 DEF Cache!Connect, Cache!life, Cache!closer
  <2>2. PICK New \in SUBSET Cache!FreeSockets :
           /\ pending' = pending \cup New
           /\ \A x \in Sockets : x \notin New => sock'[x] = sock[x]
    <3>1. PICK New \in SUBSET Cache!FreeSockets : \E g \in [New -> Uris] : Makes(New, g, wants[r])
      BY <1>4, ConnectMakes
    <3> QED
      BY <3>1 DEF Makes
  <2> QED
    BY <1>0, <1>1, <2>1, <2>2
<1>5. ASSUME NEW s \in Sockets, NEW v \in {"value", "error"}, Cache!ConnectEnds(s, v) PROVE MadeInv'
  <2>1. /\ Kept /\ pending' = pending /\ sock[s].state = "connecting"
        /\ sock' = [sock EXCEPT ![s].state = IF v = "value" THEN "up" ELSE "down"]
    BY <1>5 DEF Cache!ConnectEnds, Cache!life, Cache!closer
  <2> QED
    BY <1>0, <1>2, <2>1, SockSet
<1>6. ASSUME NEW s \in Sockets, Cache!Disconnects(s) PROVE MadeInv'
  <2>1. Kept /\ pending' = pending /\ sock' = [sock EXCEPT ![s].state = "down"]
    BY <1>6 DEF Cache!Disconnects, Cache!closer
  <2> QED
    BY <1>0, <1>2, <2>1, SockSet
<1>7. ASSUME NEW s \in Sockets, result[s] \in {"value", "error"}, Cache!Reject(s), Kept PROVE MadeInv'
  <2>1. /\ pending' = pending \ {s} /\ sock'[s].state \notin {"connecting", "up"}
        /\ \A x \in Sockets : x # s => sock'[x] = sock[x]
    BY <1>0, <1>7, RejectKeeps
  <2> QED
    BY <1>0, <1>1, <1>7, <2>1
<1>8. ASSUME NEW s \in Sockets, Cache!ResultGone(s) \/ Cache!ResultLate(s) PROVE MadeInv'
  BY <1>7, <1>8 DEF Cache!ResultGone, Cache!ResultLate, Cache!life, Cache!closer
<1>9. ASSUME NEW s \in Sockets, Cache!ResultDying(s) PROVE MadeInv'
  BY <1>2, <1>7, <1>9 DEF Cache!ResultDying, Cache!life, Cache!closer
<1>10. ASSUME NEW s \in Sockets, Cache!ResultError(s) PROVE MadeInv'
  <2>1. /\ Kept /\ sock' = sock /\ pending' = pending \ {s} /\ sock[s].state = "down"
    BY <1>0, <1>10 DEF Cache!ResultError, Cache!life, Cache!closer, SockInv, SockAt
  <2> QED
    BY <1>0, <1>1, <2>1
<1>11. ASSUME NEW s \in Sockets, Cache!ResultConnected(s) \/ Cache!insert(s) \/ Cache!onSocketDisconnected(s)
       PROVE  MadeInv'
  BY <1>2, <1>11 DEF Cache!ResultConnected, Cache!insert, Cache!onSocketDisconnected, Cache!life, Cache!closer
<1>12. ASSUME NEW s \in Sockets, Cache!disconnect(s) PROVE MadeInv'
  <2>1. Kept /\ pending' = pending /\ Cache!Closing({s})
    BY <1>12 DEF Cache!disconnect, Cache!closer
  <2> QED
    BY <1>0, <1>2, <2>1, ClosingKeeps
<1>13. ASSUME Cache!addSdSocketToCache PROVE MadeInv'
  <2>1. PICK s \in Cache!FreeSockets : s = Cache!Min(Cache!FreeSockets)
    BY <1>13, LeastIn DEF Cache!addSdSocketToCache, Cache!FreeSockets, Cache!CacheAssumption
  <2>2. /\ Kept /\ pending' = pending
        /\ sock' = [sock EXCEPT ![s] = [state |-> "up", uri |-> Head(SdUris), rel |-> 0]]
    BY <1>0, <1>13, <2>1 DEF Cache!addSdSocketToCache, Cache!closer
  <2>3. s \in Sockets
    BY DEF Cache!FreeSockets
  <2>4. sock'[s].rel = 0 /\ \A x \in Sockets : x # s => sock'[x] = sock[x]
    BY <1>0, <2>2, <2>3 DEF SockTypes
  <2> QED
    BY <1>0, <1>2, <2>2, <2>4
<1>14. ASSUME Cache!close PROVE MadeInv'
  <2>1. left' = left /\ sock' = sock /\ taken' = pending /\ ~looping
    BY <1>14 DEF Cache!close
  <2>2. taken = {}
    BY <2>1 DEF CacheInv, ClosedInv
  <2> QED
    BY <1>0, <1>1, <2>1, <2>2
<1>15. ASSUME Cache!init \/ Cache!CloseReleases PROVE MadeInv'
  <2>1. Kept /\ UNCHANGED <<pending, sock>>
    BY <1>15 DEF Cache!init, Cache!CloseReleases, Cache!closer
  <2> QED
    BY <1>2, <2>1
<1>17. ASSUME NEW S, Cache!Closing(S), pending' = pending, left' = left, taken \ S \subseteq taken' PROVE MadeInv'
  BY <1>0, <1>1, <1>17, ClosingKeeps
<1>18. ASSUME Cache!CloseConnected PROVE MadeInv'
  BY <1>17, <1>18 DEF Cache!CloseConnected, Cache!life, Cache!closer
<1>19. ASSUME Cache!CloseAttempt PROVE MadeInv'
  BY <1>2, <1>19 DEF Cache!CloseAttempt, Cache!life, Cache!closer
<1>20. ASSUME Cache!CloseThrows PROVE MadeInv'
  <2>1. UNCHANGED <<pending, sock>> /\ left \cup taken \subseteq left'
    BY <1>20 DEF Cache!CloseThrows
  <2> QED
    BY <1>0, <1>1, <2>1
<1>21. ASSUME Cache!ClosePending PROVE MadeInv'
  <2>1. PICK S : Cache!Closing(S) /\ taken' = taken \ S /\ pending' = pending /\ left' = left
    BY <1>21 DEF Cache!ClosePending
  <2> QED
    BY <1>17, <2>1
<1>16. ASSUME UNCHANGED Cache!vars PROVE MadeInv'
  BY <1>2, <1>16 DEF Cache!vars, Cache!life, Cache!closer
<1> QED
  BY <1>3, <1>4, <1>5, <1>6, <1>8, <1>9, <1>10, <1>11, <1>12, <1>13, <1>14, <1>15, <1>16,
     <1>18, <1>19, <1>20, <1>21
     DEF Cache!Next, Cache!socket, Cache!onSocketParallelConnectionAttempt, Cache!CloseLoops

-----------------------------------------------------------------------------

\* Every step preserves the invariant.
LEMMA CacheNext ==
  ASSUME Cache!CacheAssumption PROVE CacheInv /\ [Cache!Next]_Cache!vars => CacheInv'
<1> SUFFICES ASSUME CacheInv, [Cache!Next]_Cache!vars PROVE CacheInv'
  OBVIOUS
<1>1. SockTypes' /\ SockInv' /\ \A s \in Sockets : inserts'[s] # <<>> => result'[s] = "handled"
  BY SocketsKept
<1>2. /\ TableTypes' /\ WaitInv'
      /\ \A a \in Attempts : att'[a].prom \in Sockets => result'[att'[a].prom] = "handled"
      /\ \A r \in Requests : answer'[r] \in Sockets => result'[answer'[r]] = "handled"
  BY TablesKept
<1>3. GivenInv'
  BY <1>1, <1>2 DEF GivenInv
<1> QED
  BY <1>1, <1>2, <1>3, LifeKept DEF CacheInv

\* The inductive invariant of the cache.
THEOREM CacheInvariant == ASSUME Cache!CacheAssumption PROVE Cache!Spec => []CacheInv
<1>1. Cache!Init => CacheInv
  BY CacheInit
<1>2. CacheInv /\ [Cache!Next]_Cache!vars => CacheInv'
  BY CacheNext
<1> QED
  BY <1>1, <1>2, PTL DEF Cache!Spec

\* A request that runs always waits for an attempt in the map or in the one that close() goes
\* through, and none is left when close() is over, whether or not an exception left it:
\* socket() and the callbacks of the connections leave no request behind.
THEOREM CacheNoneStranded ==
  ASSUME Cache!CacheAssumption
  PROVE  Cache!Spec => [](Cache!NoneStranded /\ Cache!CloseAnswers)
<1>1. CacheInv => Cache!NoneStranded /\ Cache!CloseAnswers
  <2> SUFFICES ASSUME CacheInv PROVE Cache!NoneStranded /\ Cache!CloseAnswers
    OBVIOUS
  <2>1. Cache!NoneStranded
    BY DEF CacheInv, WaitInv, Cache!NoneStranded
  <2>2. ASSUME dying, ~looping, NEW r \in Requests, answer[r] = Cache!Running PROVE FALSE
    <3>1. PICK u \in Uris : waits[r] \in {conns[u], swapped[u]} /\ waits[r] \in Attempts
      BY <2>2 DEF CacheInv, WaitInv
    <3> QED
      BY <2>2, <3>1 DEF CacheInv, ClosedInv, Cache!CacheAssumption
  <2> QED
    BY <2>1, <2>2 DEF Cache!CloseAnswers
<1> QED
  BY <1>1, CacheInvariant, PTL

\* No request gets a socket that is still connecting.
THEOREM CacheAnswersConnected ==
  ASSUME Cache!CacheAssumption PROVE Cache!Spec => []Cache!AnswersConnected
<1>1. CacheInv => Cache!AnswersConnected
  BY DEF CacheInv, GivenInv, SockInv, SockAt, SockTypes, Cache!AnswersConnected
<1> QED
  BY <1>1, CacheInvariant, PTL

\* Whatever requests, connections and disconnections come between the steps of close(), and
\* however often the session connects again, close() has disconnected every socket that the
\* cache has made when it is over, but for those that a close() left by an exception has dropped.
THEOREM CacheCloses ==
  ASSUME Cache!CacheAssumption
  PROVE  Cache!Spec => []Cache!CloseLeavesNone
<1>1. Cache!Init => CacheInv /\ MadeInv
  BY CacheInit
<1>2. CacheInv /\ MadeInv /\ [Cache!Next]_Cache!vars => (CacheInv /\ MadeInv)'
  BY CacheNext, MadeKept
<1>3. CacheInv /\ MadeInv => Cache!CloseLeavesNone
  <2> SUFFICES ASSUME CacheInv, MadeInv PROVE Cache!CloseLeavesNone
    OBVIOUS
  <2>1. dying /\ ~looping => pending = {} /\ taken = {}
    BY DEF CacheInv, ClosedInv
  <2> QED
    BY <2>1 DEF MadeInv, Cache!CloseLeavesNone, Cache!NoUri
<1> QED
  BY <1>1, <1>2, <1>3, PTL DEF Cache!Spec

=============================================================================
