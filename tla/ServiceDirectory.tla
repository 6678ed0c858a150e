-------------------------- MODULE ServiceDirectory --------------------------
(***************************************************************************)
(* The naming service of a session: src/messaging/servicedirectory.cpp.    *)
(*                                                                         *)
(* Every method runs under ServiceDirectory::mutex, and a remote call runs *)
(* under BoundObject::_mutex from the assignment of _currentSocket to its  *)
(* reset, so each method is one atomic action.  The calls of one socket    *)
(* and its `disconnected` signal go through one strand, so no call of a    *)
(* socket is handled after removeClientSocket has been called for it.      *)
(*                                                                         *)
(* A method that throws changes nothing, except updateServiceInfo, whose   *)
(* loop over the connected services comes before its search.               *)
(***************************************************************************)
EXTENDS Naturals, FiniteSets

CONSTANTS
  Sockets,          \* client sockets; each carries the calls of one session
  NullSocket,       \* currentSocket() of a call made by the directory's own session
  NoSocket,         \* "no entry" in idxToSocket
  Names,            \* service names
  DirectoryName,    \* Session::serviceDirectoryServiceName()
  DirectorySession, \* the session id of the directory's own entry ("0", or "")
  Endpoints,        \* endpoint lists
  MaxServices       \* bound on servicesCount

ASSUME DirectoryAssumption ==
  /\ NullSocket \notin Sockets
  /\ NoSocket \notin Sockets \cup {NullSocket}
  /\ DirectorySession \notin Sockets \cup {NullSocket}
  /\ DirectoryName \in Names
  /\ Endpoints # {}
  /\ MaxServices \in Nat \ {0}

VARIABLES
  pendingServices,   \* ids registered and not ready
  connectedServices, \* ids registered and ready
  info,              \* the ServiceInfo held for an id by either map
  nameToIdx,         \* name -> id, 0 when there is no entry
  socketToIdx,       \* caller -> ids to unregister when its socket goes
  idxToSocket,       \* id -> socket, NoSocket when there is no entry
  servicesCount,
  socketState,       \* "new", "bound" to the directory's object, or "gone"
  start,             \* progress of Session_SD::listenStandalone
  regid,             \* the id the directory gave itself, 0 before
  announced,         \* ids for which serviceAdded was emitted
  withdrawn          \* ids for which serviceRemoved was emitted

maps == <<pendingServices, connectedServices, info, nameToIdx, socketToIdx,
          idxToSocket, servicesCount, announced, withdrawn>>

vars == <<maps, socketState, start, regid>>

Callers == Sockets \cup {NullSocket}

Ids == 1 .. MaxServices

\* Message::Service_ServiceDirectory
Service_ServiceDirectory == 1

ServiceInfo ==
  [name : Names, sessionId : Callers \cup {DirectorySession}, endpoints : Endpoints]

Registered == pendingServices \cup connectedServices

TypeOK ==
  /\ pendingServices \subseteq Ids
  /\ connectedServices \subseteq Ids
  /\ info \in [Ids -> ServiceInfo]
  /\ nameToIdx \in [Names -> Ids \cup {0}]
  /\ socketToIdx \in [Callers -> SUBSET Ids]
  /\ idxToSocket \in [Ids -> Callers \cup {NoSocket}]
  /\ servicesCount \in 0 .. MaxServices
  /\ socketState \in [Sockets -> {"new", "bound", "gone"}]
  /\ start \in {"listening", "registered", "done", "failed"}
  /\ regid \in Ids \cup {0}
  /\ announced \subseteq Ids
  /\ withdrawn \subseteq Ids

Init ==
  /\ pendingServices = {}
  /\ connectedServices = {}
  /\ info \in [Ids -> {[name |-> DirectoryName, sessionId |-> DirectorySession,
                        endpoints |-> CHOOSE e \in Endpoints : TRUE]}]
  /\ nameToIdx = [n \in Names |-> 0]
  /\ socketToIdx = [c \in Callers |-> {}]
  /\ idxToSocket = [i \in Ids |-> NoSocket]
  /\ servicesCount = 0
  /\ socketState = [s \in Sockets |-> "new"]
  /\ start = "listening"
  /\ regid = 0
  /\ announced = {}
  /\ withdrawn = {}

-----------------------------------------------------------------------------
(* Plausible mistakes in the methods; no action below uses them.           *)

\* unregisterService without nameToIdx.erase(it).
UnregisterKeepsName(ids) ==
  /\ pendingServices' = pendingServices \ ids
  /\ connectedServices' = connectedServices \ ids
  /\ socketToIdx' = [c \in Callers |-> socketToIdx[c] \ ids]
  /\ withdrawn' = withdrawn \cup ids
  /\ UNCHANGED <<nameToIdx, info, servicesCount, announced>>

\* serviceReady without pendingServices.erase(itService).
ReadyStaysPending(idx) ==
  /\ idx \in pendingServices
  /\ connectedServices' = connectedServices \cup {idx}
  /\ announced' = announced \cup {idx}
  /\ UNCHANGED <<pendingServices, info, nameToIdx, socketToIdx, idxToSocket,
                 servicesCount, withdrawn>>

-----------------------------------------------------------------------------
(* The methods.                                                            *)

\* registerService: refuses a name that is taken; the first id of all is kept
\* out of socketToIdx, being taken for the directory's own.
RegisterService(c, si) ==
  /\ nameToIdx[si.name] = 0
  /\ servicesCount < MaxServices
  /\ LET idx == servicesCount + 1 IN
       /\ servicesCount' = idx
       /\ nameToIdx' = [nameToIdx EXCEPT ![si.name] = idx]
       /\ socketToIdx' = IF idx # Service_ServiceDirectory
                           THEN [socketToIdx EXCEPT ![c] = @ \cup {idx}]
                           ELSE socketToIdx
       /\ pendingServices' = pendingServices \cup {idx}
       /\ info' = [info EXCEPT ![idx] = si]
       /\ idxToSocket' = [idxToSocket EXCEPT ![idx] = c]
  /\ UNCHANGED <<connectedServices, announced, withdrawn>>

\* unregisterService finds the service in either map and its name in nameToIdx,
\* or throws.
CanUnregister(idx) == idx \in Registered /\ nameToIdx[info[idx].name] # 0

\* The effect of unregisterService on each id of a set.  idxToSocket keeps its
\* entries, and serviceRemoved is emitted for a pending service as well.
Unregister(ids) ==
  /\ nameToIdx' = [n \in Names |-> IF \E i \in ids : info[i].name = n
                                     THEN 0 ELSE nameToIdx[n]]
  /\ pendingServices' = pendingServices \ ids
  /\ connectedServices' = connectedServices \ ids
  /\ socketToIdx' = [c \in Callers |-> socketToIdx[c] \ ids]
  /\ withdrawn' = withdrawn \cup ids
  /\ UNCHANGED <<info, servicesCount, announced>>

UnregisterService(idx) ==
  /\ CanUnregister(idx)
  /\ Unregister({idx})
  /\ UNCHANGED idxToSocket

\* removeClientSocket: the callback of BoundObject::unbindFromSocket.
RemoveClientSocket(s) ==
  /\ Unregister({i \in socketToIdx[s] : CanUnregister(i)})
  /\ idxToSocket' = [i \in Ids |-> IF idxToSocket[i] = s THEN NoSocket
                                     ELSE idxToSocket[i]]

\* updateServiceInfo: the endpoints of every connected service of the session,
\* then the whole entry of the service itself.
UpdateServiceInfo(idx, si) ==
  /\ info' = [i \in Ids |->
       IF i = idx /\ i \in Registered THEN si
       ELSE IF i \in connectedServices /\ info[i].sessionId = si.sessionId
         THEN [info[i] EXCEPT !.endpoints = si.endpoints]
       ELSE info[i]]
  /\ UNCHANGED <<pendingServices, connectedServices, nameToIdx, socketToIdx,
                 idxToSocket, servicesCount, announced, withdrawn>>

\* serviceReady: announces a pending service.
ServiceReady(idx) ==
  /\ idx \in pendingServices
  /\ pendingServices' = pendingServices \ {idx}
  /\ connectedServices' = connectedServices \cup {idx}
  /\ announced' = announced \cup {idx}
  /\ UNCHANGED <<info, nameToIdx, socketToIdx, idxToSocket, servicesCount, withdrawn>>

-----------------------------------------------------------------------------
(* Session_SD::listenStandalone.  The directory's object is reachable, and *)
(* its server listens, before the continuation below runs.                 *)

DirectoryInfo(e) ==
  [name |-> DirectoryName, sessionId |-> DirectorySession, endpoints |-> e]

\* The continuation of the barrier: nothing but new endpoints when id 1 is
\* connected, else a registration that fails when the name is taken.
ListenRegister(e) ==
  /\ start = "listening"
  /\ \/ /\ Service_ServiceDirectory \in connectedServices
        /\ info' = [info EXCEPT ![Service_ServiceDirectory].endpoints = e]
        /\ start' = "done"
        /\ UNCHANGED <<pendingServices, connectedServices, nameToIdx, socketToIdx,
                       idxToSocket, servicesCount, announced, withdrawn, regid>>
     \/ /\ Service_ServiceDirectory \notin connectedServices
        /\ RegisterService(NullSocket, DirectoryInfo(e))
        /\ regid' = servicesCount'
        /\ start' = "registered"
     \/ /\ Service_ServiceDirectory \notin connectedServices
        /\ nameToIdx[DirectoryName] # 0
        /\ start' = "failed"
        /\ UNCHANGED <<maps, regid>>
  /\ UNCHANGED socketState

\* serviceReady(1), which throws when #1 is not pending.
ListenReady ==
  /\ start = "registered"
  /\ \/ ServiceReady(Service_ServiceDirectory) /\ start' = "done"
     \/ /\ Service_ServiceDirectory \notin pendingServices
        /\ start' = "failed"
        /\ UNCHANGED maps
  /\ UNCHANGED <<socketState, regid>>

\* endpointsChanged of the directory's own server, connected last in
\* listenStandalone: Session_SD::updateServiceInfo.
EndpointsChanged(e) ==
  /\ start = "done"
  /\ regid # 0
  /\ UpdateServiceInfo(Service_ServiceDirectory, DirectoryInfo(e))
  /\ UNCHANGED <<socketState, start, regid>>

-----------------------------------------------------------------------------
(* The clients.                                                            *)

\* The server binds the directory's object to an authenticated socket.  Nothing
\* makes it wait for listenStandalone's continuation.
BindSocket(s) ==
  /\ socketState[s] = "new"
  /\ socketState' = [socketState EXCEPT ![s] = "bound"]
  /\ UNCHANGED <<maps, start, regid>>

\* Server::removeSocket, from the socket's `disconnected` signal.
SocketDisconnected(s) ==
  /\ socketState[s] = "bound"
  /\ socketState' = [socketState EXCEPT ![s] = "gone"]
  /\ RemoveClientSocket(s)
  /\ UNCHANGED <<start, regid>>

\* A remote caller is a bound socket; the directory's own session calls once
\* listenStandalone is over.
MayCall(c) == IF c = NullSocket THEN start = "done" ELSE socketState[c] = "bound"

CallRegisterService(c, n, e) ==
  /\ MayCall(c)
  /\ RegisterService(c, [name |-> n, sessionId |-> c, endpoints |-> e])
  /\ UNCHANGED <<socketState, start, regid>>

\* Session::unregisterService takes any id.
CallUnregisterService(c, idx) ==
  /\ MayCall(c)
  /\ UnregisterService(idx)
  /\ UNCHANGED <<socketState, start, regid>>

\* A registrar reports ready, and updates, ids it was given, the latter under
\* the names it registered.
CallServiceReady(c, idx) ==
  /\ MayCall(c)
  /\ idxToSocket[idx] = c
  /\ ServiceReady(idx)
  /\ UNCHANGED <<socketState, start, regid>>

CallUpdateServiceInfo(c, idx, e) ==
  /\ MayCall(c)
  /\ idxToSocket[idx] = c
  /\ info[idx].sessionId = c
  /\ UpdateServiceInfo(idx, [info[idx] EXCEPT !.endpoints = e])
  /\ UNCHANGED <<socketState, start, regid>>

Next ==
  \/ \E e \in Endpoints : ListenRegister(e)
  \/ ListenReady
  \/ \E e \in Endpoints : EndpointsChanged(e)
  \/ \E s \in Sockets : BindSocket(s)
  \/ \E s \in Sockets : SocketDisconnected(s)
  \/ \E c \in Callers, n \in Names, e \in Endpoints : CallRegisterService(c, n, e)
  \/ \E c \in Callers, idx \in Ids : CallUnregisterService(c, idx)
  \/ \E c \in Callers, idx \in Ids : CallServiceReady(c, idx)
  \/ \E c \in Callers, idx \in Ids, e \in Endpoints : CallUpdateServiceInfo(c, idx, e)

Spec == Init /\ [][Next]_vars

-----------------------------------------------------------------------------
(* Properties.                                                             *)

\* "serviceDirectory must have id '1'": the assertion on regid at the end of
\* listenStandalone.  A client served before the continuation breaks it.
DirectoryIsOne == regid \in {0, Service_ServiceDirectory}

\* nameToIdx is exactly the index of the services in the two maps: a name is
\* taken if and only if one service, pending or connected, has it, which is what
\* unregisterService's "Mapping error" takes for granted.  (When #1 is a client's
\* service, Session_SD::updateServiceInfo renames it.)
NamesExact ==
  DirectoryIsOne =>
    /\ \A n \in Names : nameToIdx[n] # 0 =>
         nameToIdx[n] \in Registered /\ info[nameToIdx[n]].name = n
    /\ \A i \in Registered : nameToIdx[info[i].name] = i

\* A listener that adds on serviceAdded and removes on serviceRemoved holds
\* exactly the connected services: no service is announced twice, comes back
\* after its removal, or leaves unannounced (serviceReady, unregisterService,
\* removeClientSocket).
MirrorExact ==
  /\ connectedServices = announced \ withdrawn
  /\ pendingServices \cap (announced \cup withdrawn) = {}

\* Every service but #1 belongs to exactly one caller, which is still there and
\* takes it away when its socket is removed: no service of a disconnected client
\* stays in the directory (removeClientSocket).
OwnersAlive ==
  DirectoryIsOne =>
    \A i \in Registered \ {Service_ServiceDirectory} :
      \E c \in Callers :
        /\ c \in Sockets => socketState[c] = "bound"
        /\ \A d \in Callers : i \in socketToIdx[d] <=> d = c

\* _socketOfService never hands out a socket that has been removed, although
\* unregisterService leaves its entries in idxToSocket.
SocketsHandedOutLive ==
  \A i \in Ids : idxToSocket[i] \in Sockets => socketState[idxToSocket[i]] = "bound"

=============================================================================
