----------------------- MODULE ServiceDirectoryProofs -----------------------
(***************************************************************************)
(* The service directory keeps its index, its signals and its sockets      *)
(* consistent, for any number of clients, names and services.  So it does  *)
(* among the registrars of Naming, whose calls are among those of Next,    *)
(* and what registerService returned is what the directory announces.      *)
(***************************************************************************)
EXTENDS Naming, TLAPS

\* Ids above servicesCount have left no trace.
Fresh ==
  \A i \in Ids : i > servicesCount =>
    /\ i \notin Registered
    /\ i \notin announced
    /\ i \notin withdrawn
    /\ \A c \in Callers : i \notin socketToIdx[c]

\* The id the directory gave itself was given out, and not before it registered.
OwnId == regid <= servicesCount /\ (start = "listening" => regid = 0)

\* The directory's own entry keeps its name, through updates as well.
OwnEntry ==
  regid = Service_ServiceDirectory /\ Service_ServiceDirectory \in Registered
    => info[Service_ServiceDirectory].name = DirectoryName

\* The vectors of socketToIdx partition the registered services other than #1, by
\* the socket each was registered through.
Owned ==
  DirectoryIsOne =>
    /\ \A i \in Registered \ {Service_ServiceDirectory} :
         /\ idxToSocket[i] \in Callers
         /\ \A d \in Callers : i \in socketToIdx[d] <=> d = idxToSocket[i]
    /\ \A d \in Callers : socketToIdx[d] \subseteq Registered

IInv ==
  /\ TypeOK
  /\ Fresh
  /\ MirrorExact
  /\ NamesExact
  /\ OwnId
  /\ OwnEntry
  /\ Owned
  /\ SocketsHandedOutLive

-----------------------------------------------------------------------------

\* The empty directory satisfies the invariant.
LEMMA InitInv == Init => IInv
<1> SUFFICES ASSUME Init PROVE IInv
  OBVIOUS
<1> USE DirectoryAssumption
<1>0. Ids \subseteq Nat \ {0}
  BY DEF Ids
<1>1. TypeOK
  <2>1. (CHOOSE e \in Endpoints : TRUE) \in Endpoints
    OBVIOUS
  <2>2. [name |-> DirectoryName, sessionId |-> DirectorySession,
         endpoints |-> CHOOSE e \in Endpoints : TRUE] \in ServiceInfo
    BY <2>1 DEF ServiceInfo
  <2>3. info \in [Ids -> ServiceInfo]
    BY <2>2 DEF Init
  <2> QED
    BY <2>3 DEF Init, TypeOK, Callers
<1>2. Fresh /\ MirrorExact /\ OwnId /\ OwnEntry /\ Owned
  BY DEF Init, Fresh, MirrorExact, OwnId, OwnEntry, Owned, Registered
<1>3. NamesExact
  BY DEF Init, NamesExact, Registered
<1>4. SocketsHandedOutLive
  BY DEF Init, SocketsHandedOutLive
<1> QED
  BY <1>1, <1>2, <1>3, <1>4 DEF IInv

-----------------------------------------------------------------------------
(* What each method preserves, whoever calls it.  The lemmas speak of the  *)
(* maps; regid and socketState are given by the caller.                    *)

\* registerService preserves the invariant, also when the directory registers
\* itself.
LEMMA RegisterKeeps ==
  ASSUME IInv, NEW c \in Callers, NEW si \in ServiceInfo, RegisterService(c, si),
         c \in Sockets => socketState[c] = "bound",
         socketState' = socketState,
         start' \in {"listening", "registered", "done", "failed"},
         start' = "listening" => start = "listening" /\ regid' = regid,
         \/ regid' = regid
         \/ regid' = servicesCount' /\ regid = 0 /\ si.name = DirectoryName
  PROVE  IInv'
<1> USE DirectoryAssumption
<1> DEFINE idx == servicesCount + 1
<1>1. /\ servicesCount \in Nat /\ idx \in Ids /\ idx > servicesCount
      /\ idx \notin Registered /\ idx \notin announced /\ idx \notin withdrawn
      /\ \A d \in Callers : idx \notin socketToIdx[d]
  BY DEF IInv, TypeOK, Fresh, RegisterService, Ids
<1>2. /\ servicesCount' = idx
      /\ nameToIdx' = [nameToIdx EXCEPT ![si.name] = idx]
      /\ pendingServices' = pendingServices \cup {idx}
      /\ info' = [info EXCEPT ![idx] = si]
      /\ idxToSocket' = [idxToSocket EXCEPT ![idx] = c]
      /\ UNCHANGED <<connectedServices, announced, withdrawn>>
      /\ nameToIdx[si.name] = 0
  BY DEF RegisterService
<1>3. /\ \A d \in Callers : socketToIdx'[d] = IF d = c /\ idx # Service_ServiceDirectory
                                                 THEN socketToIdx[d] \cup {idx}
                                                 ELSE socketToIdx[d]
      /\ socketToIdx' \in [Callers -> SUBSET Ids]
  BY <1>1 DEF RegisterService, IInv, TypeOK
<1>4. TypeOK'
  BY <1>1, <1>2, <1>3 DEF IInv, TypeOK, ServiceInfo, Ids
<1>5. Registered' = Registered \cup {idx}
  BY <1>2 DEF Registered
<1>6. Fresh'
  <2> SUFFICES ASSUME NEW i \in Ids, i > idx
               PROVE  /\ i \notin Registered' /\ i \notin announced' /\ i \notin withdrawn'
                      /\ \A d \in Callers : i \notin socketToIdx'[d]
    BY <1>2 DEF Fresh
  <2>1. i > servicesCount /\ i # idx
    BY <1>1 DEF Ids
  <2> QED
    BY <1>2, <1>3, <1>5, <2>1 DEF IInv, Fresh
<1>7. MirrorExact'
  BY <1>1, <1>2 DEF IInv, MirrorExact, Registered
<1>8. DirectoryIsOne' => DirectoryIsOne
  BY <1>1 DEF DirectoryIsOne, IInv, TypeOK, Service_ServiceDirectory
<1>9. NamesExact'
  <2> SUFFICES ASSUME DirectoryIsOne'
               PROVE  /\ \A n \in Names : nameToIdx'[n] # 0 =>
                           nameToIdx'[n] \in Registered' /\ info'[nameToIdx'[n]].name = n
                      /\ \A i \in Registered' : nameToIdx'[info'[i].name] = i
    BY DEF NamesExact
  <2>1. /\ \A n \in Names : nameToIdx[n] # 0 =>
             nameToIdx[n] \in Registered /\ info[nameToIdx[n]].name = n
        /\ \A i \in Registered : nameToIdx[info[i].name] = i
    BY <1>8 DEF IInv, NamesExact
  <2>2. si.name \in Names /\ Registered \subseteq Ids /\ 0 \notin Ids
        /\ \A i \in Ids : info[i].name \in Names
    BY DEF ServiceInfo, IInv, TypeOK, Registered, Ids
  <2>3. \A n \in Names : nameToIdx'[n] = IF n = si.name THEN idx ELSE nameToIdx[n]
    BY <1>2, <2>2 DEF IInv, TypeOK
  <2>4. \A i \in Ids : info'[i] = IF i = idx THEN si ELSE info[i]
    BY <1>2 DEF IInv, TypeOK
  <2>5. \A i \in Registered : info[i].name # si.name
    BY <2>1, <2>2, <1>2
  <2> QED
    BY <1>1, <1>5, <2>1, <2>2, <2>3, <2>4, <2>5
<1>10. OwnId' /\ OwnEntry'
  <2>1. OwnId'
    BY <1>1, <1>2 DEF IInv, OwnId, TypeOK, Ids
  <2>2. CASE idx = Service_ServiceDirectory
    <3>1. info'[idx] = si
      BY <1>1, <1>2 DEF IInv, TypeOK
    <3>2. regid' = Service_ServiceDirectory => si.name = DirectoryName
      BY <1>1, <1>2, <2>2 DEF IInv, OwnId, TypeOK, Ids
    <3> QED
      BY <2>1, <2>2, <3>1, <3>2 DEF OwnEntry
  <2>3. CASE idx # Service_ServiceDirectory
    <3>1. info'[Service_ServiceDirectory] = info[Service_ServiceDirectory]
      BY <1>1, <1>2, <2>3 DEF IInv, TypeOK, Service_ServiceDirectory, Ids
    <3>2. regid' = Service_ServiceDirectory => regid = Service_ServiceDirectory
      BY <1>2, <2>3
    <3> QED
      BY <1>5, <2>1, <2>3, <3>1, <3>2 DEF IInv, OwnEntry
  <2> QED
    BY <2>2, <2>3
<1>11. Owned'
  <2> SUFFICES ASSUME DirectoryIsOne'
               PROVE  /\ \A i \in Registered' \ {Service_ServiceDirectory} :
                           /\ idxToSocket'[i] \in Callers
                           /\ \A d \in Callers : i \in socketToIdx'[d] <=> d = idxToSocket'[i]
                      /\ \A d \in Callers : socketToIdx'[d] \subseteq Registered'
    BY DEF Owned
  <2>1. \A i \in Ids : idxToSocket'[i] = IF i = idx THEN c ELSE idxToSocket[i]
    BY <1>1, <1>2 DEF IInv, TypeOK
  <2>2. Registered \subseteq Ids
    BY DEF IInv, TypeOK, Registered
  <2> QED
    BY <1>1, <1>3, <1>5, <1>8, <2>1, <2>2 DEF IInv, Owned
<1>12. SocketsHandedOutLive'
  BY <1>1, <1>2 DEF IInv, SocketsHandedOutLive, TypeOK
<1> QED
  BY <1>4, <1>6, <1>7, <1>9, <1>10, <1>11, <1>12 DEF IInv

\* Unregistering services that are registered preserves every part of the
\* invariant; the entries of idxToSocket may stay or go as in removeClientSocket.
LEMMA UnregisterKeeps ==
  ASSUME IInv, NEW ids \in SUBSET Registered, Unregister(ids),
         idxToSocket' \in [Ids -> Callers \cup {NoSocket}],
         \A i \in Registered \ ids : DirectoryIsOne /\ i # Service_ServiceDirectory
           => idxToSocket'[i] = idxToSocket[i],
         SocketsHandedOutLive',
         socketState' \in [Sockets -> {"new", "bound", "gone"}],
         UNCHANGED <<start, regid>>
  PROVE  IInv'
<1> USE DirectoryAssumption
<1>1. /\ pendingServices' = pendingServices \ ids
      /\ connectedServices' = connectedServices \ ids
      /\ withdrawn' = withdrawn \cup ids
      /\ UNCHANGED <<info, servicesCount, announced>>
      /\ \A n \in Names : nameToIdx'[n] = IF \E i \in ids : info[i].name = n
                                            THEN 0 ELSE nameToIdx[n]
      /\ \A d \in Callers : socketToIdx'[d] = socketToIdx[d] \ ids
  BY DEF Unregister
<1>2. Registered' = Registered \ ids /\ Registered \subseteq Ids
  BY <1>1 DEF Registered, IInv, TypeOK
<1>3. TypeOK'
  <2>1. nameToIdx' \in [Names -> Ids \cup {0}]
    BY DEF Unregister, IInv, TypeOK
  <2>2. socketToIdx' \in [Callers -> SUBSET Ids]
    BY DEF Unregister, IInv, TypeOK
  <2> QED
    BY <1>1, <1>2, <2>1, <2>2 DEF IInv, TypeOK
<1>4. Fresh'
  BY <1>1, <1>2 DEF IInv, Fresh
<1>5. MirrorExact'
  BY <1>1 DEF IInv, MirrorExact, Registered
<1>6. DirectoryIsOne' <=> DirectoryIsOne
  BY DEF DirectoryIsOne
<1>7. NamesExact'
  <2> SUFFICES ASSUME DirectoryIsOne
               PROVE  /\ \A n \in Names : nameToIdx'[n] # 0 =>
                           nameToIdx'[n] \in Registered' /\ info'[nameToIdx'[n]].name = n
                      /\ \A i \in Registered' : nameToIdx'[info'[i].name] = i
    BY <1>6 DEF NamesExact
  <2>1. /\ \A n \in Names : nameToIdx[n] # 0 =>
             nameToIdx[n] \in Registered /\ info[nameToIdx[n]].name = n
        /\ \A i \in Registered : nameToIdx[info[i].name] = i
    BY DEF IInv, NamesExact
  <2>2. \A i \in Ids : info[i].name \in Names
    BY DEF ServiceInfo, IInv, TypeOK
  <2>3. ids \subseteq Registered
    OBVIOUS
  <2> QED
    BY <1>1, <1>2, <2>1, <2>2, <2>3
<1>8. OwnId' /\ OwnEntry'
  BY <1>1, <1>2 DEF IInv, OwnId, OwnEntry
<1>9. Owned'
  <2> SUFFICES ASSUME DirectoryIsOne
               PROVE  /\ \A i \in Registered' \ {Service_ServiceDirectory} :
                           /\ idxToSocket'[i] \in Callers
                           /\ \A d \in Callers : i \in socketToIdx'[d] <=> d = idxToSocket'[i]
                      /\ \A d \in Callers : socketToIdx'[d] \subseteq Registered'
    BY <1>6 DEF Owned
  <2> QED
    BY <1>1, <1>2 DEF IInv, Owned
<1> QED
  BY <1>3, <1>4, <1>5, <1>7, <1>8, <1>9 DEF IInv

\* updateServiceInfo preserves the invariant when the entry keeps its name.
LEMMA UpdateKeeps ==
  ASSUME IInv, NEW idx \in Ids, NEW si \in ServiceInfo, UpdateServiceInfo(idx, si),
         idx \in Registered /\ DirectoryIsOne => si.name = info[idx].name,
         UNCHANGED <<socketState, start, regid>>
  PROVE  IInv'
<1> USE DirectoryAssumption
<1>1. UNCHANGED <<pendingServices, connectedServices, nameToIdx, socketToIdx,
                  idxToSocket, servicesCount, announced, withdrawn, Registered,
                  DirectoryIsOne>>
  BY DEF UpdateServiceInfo, Registered, DirectoryIsOne
<1>2. \A i \in Ids : [info[i] EXCEPT !.endpoints = si.endpoints] \in ServiceInfo
                     /\ [info[i] EXCEPT !.endpoints = si.endpoints].name = info[i].name
  BY DEF IInv, TypeOK, ServiceInfo
<1>3. info' \in [Ids -> ServiceInfo]
  BY <1>2 DEF UpdateServiceInfo, IInv, TypeOK
<1>4. \A i \in Registered : DirectoryIsOne => info'[i].name = info[i].name
  <2>1. Registered \subseteq Ids
    BY DEF IInv, TypeOK, Registered
  <2> QED
    BY <1>2, <2>1 DEF UpdateServiceInfo
<1>5. TypeOK' /\ Fresh' /\ MirrorExact' /\ Owned' /\ SocketsHandedOutLive'
  BY <1>1, <1>3 DEF IInv, TypeOK, Fresh, MirrorExact, Owned, SocketsHandedOutLive
<1>6. NamesExact'
  BY <1>1, <1>4 DEF IInv, NamesExact
<1>7. OwnId' /\ OwnEntry'
  BY <1>1, <1>4 DEF IInv, OwnId, OwnEntry, DirectoryIsOne
<1> QED
  BY <1>5, <1>6, <1>7 DEF IInv

\* serviceReady preserves the invariant.
LEMMA ReadyKeeps ==
  ASSUME IInv, NEW idx, ServiceReady(idx),
         start' \in {"listening", "registered", "done", "failed"},
         start' = "listening" => start = "listening" /\ regid' = regid,
         UNCHANGED <<socketState, regid>>
  PROVE  IInv'
<1>1. /\ idx \in pendingServices
      /\ pendingServices' = pendingServices \ {idx}
      /\ connectedServices' = connectedServices \cup {idx}
      /\ announced' = announced \cup {idx}
      /\ UNCHANGED <<info, nameToIdx, socketToIdx, idxToSocket, servicesCount, withdrawn>>
  BY DEF ServiceReady
<1>2. Registered' = Registered /\ (DirectoryIsOne' <=> DirectoryIsOne)
  BY <1>1 DEF Registered, DirectoryIsOne
<1>3. TypeOK'
  BY <1>1 DEF IInv, TypeOK
<1>4. Fresh'
  BY <1>1, <1>2 DEF IInv, Fresh, Registered, TypeOK
<1>5. MirrorExact'
  BY <1>1 DEF IInv, MirrorExact
<1>6. NamesExact' /\ OwnId' /\ OwnEntry' /\ Owned' /\ SocketsHandedOutLive'
  BY <1>1, <1>2 DEF IInv, NamesExact, OwnId, OwnEntry, Owned, SocketsHandedOutLive
<1> QED
  BY <1>3, <1>4, <1>5, <1>6 DEF IInv

-----------------------------------------------------------------------------

\* Every step of the directory and its clients preserves the invariant.
LEMMA NextInv == IInv /\ [Next]_vars => IInv'
<1> SUFFICES ASSUME IInv, [Next]_vars PROVE IInv'
  OBVIOUS
<1> USE DirectoryAssumption
<1>0. Service_ServiceDirectory \in Ids
  BY DEF Service_ServiceDirectory, Ids
<1>1. ASSUME NEW e \in Endpoints, ListenRegister(e) PROVE IInv'
  <2>1. CASE /\ Service_ServiceDirectory \in connectedServices
             /\ info' = [info EXCEPT ![Service_ServiceDirectory].endpoints = e]
             /\ start' = "done"
             /\ UNCHANGED <<pendingServices, connectedServices, nameToIdx, socketToIdx,
                            idxToSocket, servicesCount, announced, withdrawn, regid>>
    <3>1. UNCHANGED <<Registered, DirectoryIsOne, socketState>>
      BY <1>1, <2>1 DEF Registered, DirectoryIsOne, ListenRegister
    <3>2. info' \in [Ids -> ServiceInfo] /\ \A i \in Ids : info'[i].name = info[i].name
      BY <1>0, <2>1 DEF IInv, TypeOK, ServiceInfo
    <3>3. Registered \subseteq Ids
      BY DEF IInv, TypeOK, Registered
    <3>4. TypeOK' /\ Fresh' /\ MirrorExact' /\ Owned' /\ SocketsHandedOutLive'
      BY <2>1, <3>1, <3>2 DEF IInv, TypeOK, Fresh, MirrorExact, Owned, SocketsHandedOutLive
    <3>5. NamesExact' /\ OwnId' /\ OwnEntry'
      BY <2>1, <3>1, <3>2, <3>3, <1>0 DEF IInv, NamesExact, OwnId, OwnEntry, TypeOK
    <3> QED
      BY <3>4, <3>5 DEF IInv
  <2>2. CASE /\ RegisterService(NullSocket, DirectoryInfo(e))
             /\ regid' = servicesCount'
             /\ start' = "registered"
    <3>1. DirectoryInfo(e) \in ServiceInfo /\ DirectoryInfo(e).name = DirectoryName
      BY DEF DirectoryInfo, ServiceInfo
    <3>2. regid = 0
      BY <1>1 DEF ListenRegister, IInv, OwnId
    <3> QED
      BY <1>1, <2>2, <3>1, <3>2, RegisterKeeps DEF ListenRegister, Callers
  <2>3. CASE start' = "failed" /\ UNCHANGED <<maps, regid>>
    BY <1>1, <2>3 DEF ListenRegister, maps, IInv, TypeOK, Fresh, MirrorExact, NamesExact,
         OwnId, OwnEntry, Owned, SocketsHandedOutLive, Registered, DirectoryIsOne
  <2> QED
    BY <1>1, <2>1, <2>2, <2>3 DEF ListenRegister
<1>2. ASSUME ListenReady PROVE IInv'
  <2>1. CASE ServiceReady(Service_ServiceDirectory) /\ start' = "done"
    BY <1>2, <2>1, ReadyKeeps DEF ListenReady
  <2>2. CASE start' = "failed" /\ UNCHANGED maps
    BY <1>2, <2>2 DEF ListenReady, maps, IInv, TypeOK, Fresh, MirrorExact, NamesExact,
         OwnId, OwnEntry, Owned, SocketsHandedOutLive, Registered, DirectoryIsOne
  <2> QED
    BY <1>2, <2>1, <2>2 DEF ListenReady
<1>3. ASSUME NEW e \in Endpoints, EndpointsChanged(e) PROVE IInv'
  <2>1. DirectoryInfo(e) \in ServiceInfo /\ DirectoryInfo(e).name = DirectoryName
    BY DEF DirectoryInfo, ServiceInfo
  <2>2. Service_ServiceDirectory \in Registered /\ DirectoryIsOne
          => DirectoryInfo(e).name = info[Service_ServiceDirectory].name
    BY <1>3, <2>1 DEF EndpointsChanged, IInv, OwnEntry, DirectoryIsOne
  <2> QED
    BY <1>0, <1>3, <2>1, <2>2, UpdateKeeps DEF EndpointsChanged
<1>4. ASSUME NEW s \in Sockets, BindSocket(s) PROVE IInv'
  BY <1>4 DEF BindSocket, maps, IInv, TypeOK, Fresh, MirrorExact, NamesExact, OwnId, OwnEntry,
       Owned, SocketsHandedOutLive, Registered, DirectoryIsOne
<1>5. ASSUME NEW s \in Sockets, SocketDisconnected(s) PROVE IInv'
  <2> DEFINE ids == {i \in socketToIdx[s] : CanUnregister(i)}
  <2>1. ids \in SUBSET Registered
    BY DEF CanUnregister
  <2>2. /\ Unregister(ids)
        /\ idxToSocket' = [i \in Ids |-> IF idxToSocket[i] = s THEN NoSocket
                                           ELSE idxToSocket[i]]
        /\ socketState' = [socketState EXCEPT ![s] = "gone"]
        /\ UNCHANGED <<start, regid>>
    BY <1>5 DEF SocketDisconnected, RemoveClientSocket
  <2>3. idxToSocket' \in [Ids -> Callers \cup {NoSocket}]
    BY <2>2 DEF IInv, TypeOK
  <2>4. socketState' \in [Sockets -> {"new", "bound", "gone"}]
    BY <2>2 DEF IInv, TypeOK
  <2>5. ASSUME NEW i \in Registered \ ids, DirectoryIsOne, i # Service_ServiceDirectory
        PROVE  idxToSocket'[i] = idxToSocket[i]
    <3>1. i \in Ids /\ info[i].name \in Names
      BY DEF IInv, TypeOK, Registered, ServiceInfo
    <3>2. nameToIdx[info[i].name] = i /\ i # 0
      BY <2>5, <3>1 DEF IInv, NamesExact, Ids
    <3>3. CanUnregister(i)
      BY <3>2 DEF CanUnregister
    <3>4. i \notin socketToIdx[s]
      BY <3>3
    <3>5. s \in Callers
      BY DEF Callers
    <3>6. idxToSocket[i] # s
      BY <2>5, <3>4, <3>5 DEF IInv, Owned
    <3> QED
      BY <2>2, <3>1, <3>6
  <2>6. SocketsHandedOutLive'
    BY <2>2 DEF IInv, TypeOK, SocketsHandedOutLive
  <2> HIDE DEF ids
  <2> QED
    BY <2>1, <2>2, <2>3, <2>4, <2>5, <2>6, UnregisterKeeps
<1>6. ASSUME NEW c \in Callers, NEW n \in Names, NEW e \in Endpoints,
             CallRegisterService(c, n, e)
      PROVE  IInv'
  <2> DEFINE si == [name |-> n, sessionId |-> c, endpoints |-> e]
  <2>1. si \in ServiceInfo
    BY DEF ServiceInfo
  <2>2. c \in Sockets => socketState[c] = "bound"
    BY <1>6 DEF CallRegisterService, MayCall
  <2>3. RegisterService(c, si) /\ UNCHANGED <<socketState, start, regid>>
    BY <1>6 DEF CallRegisterService
  <2>4. start' \in {"listening", "registered", "done", "failed"}
    BY <2>3 DEF IInv, TypeOK
  <2> HIDE DEF si
  <2> QED
    BY <2>1, <2>2, <2>3, <2>4, RegisterKeeps
<1>7. ASSUME NEW c \in Callers, NEW idx \in Ids, CallUnregisterService(c, idx) PROVE IInv'
  <2>1. /\ Unregister({idx}) /\ {idx} \in SUBSET Registered
        /\ UNCHANGED <<idxToSocket, socketState, start, regid>>
    BY <1>7 DEF CallUnregisterService, UnregisterService, CanUnregister
  <2>2. /\ idxToSocket' \in [Ids -> Callers \cup {NoSocket}]
        /\ socketState' \in [Sockets -> {"new", "bound", "gone"}]
        /\ SocketsHandedOutLive'
    BY <2>1 DEF IInv, TypeOK, SocketsHandedOutLive
  <2> QED
    BY <2>1, <2>2, UnregisterKeeps
<1>8. ASSUME NEW c \in Callers, NEW idx \in Ids, CallServiceReady(c, idx) PROVE IInv'
  <2>1. start' \in {"listening", "registered", "done", "failed"}
    BY <1>8 DEF CallServiceReady, IInv, TypeOK
  <2> QED
    BY <1>8, <2>1, ReadyKeeps DEF CallServiceReady
<1>9. ASSUME NEW c \in Callers, NEW idx \in Ids, NEW e \in Endpoints,
             CallUpdateServiceInfo(c, idx, e)
      PROVE  IInv'
  <2> DEFINE si == [info[idx] EXCEPT !.endpoints = e]
  <2>1. si \in ServiceInfo /\ si.name = info[idx].name
    BY DEF IInv, TypeOK, ServiceInfo
  <2>2. UpdateServiceInfo(idx, si) /\ UNCHANGED <<socketState, start, regid>>
    BY <1>9 DEF CallUpdateServiceInfo
  <2> HIDE DEF si
  <2> QED
    BY <2>1, <2>2, UpdateKeeps
<1>10. ASSUME UNCHANGED vars PROVE IInv'
  BY <1>10 DEF vars, maps, IInv, TypeOK, Fresh, MirrorExact, NamesExact, OwnId, OwnEntry,
       Owned, SocketsHandedOutLive, Registered, DirectoryIsOne
<1> QED
  BY <1>1, <1>2, <1>3, <1>4, <1>5, <1>6, <1>7, <1>8, <1>9, <1>10 DEF Next

\* The inductive invariant holds in every reachable state of the directory.
THEOREM DirectoryInvariant == Spec => []IInv
  BY InitInv, NextInv, PTL DEF Spec

\* Every variable of the directory keeps its type.
THEOREM TypeCorrect == Spec => []TypeOK
<1>1. IInv => TypeOK
  BY DEF IInv
<1> QED
  BY <1>1, DirectoryInvariant, PTL

\* The index of names is exact as long as the directory has id 1: registering,
\* acknowledging, updating and unregistering never separate nameToIdx from the
\* maps of services.
THEOREM NamesCorrect == Spec => []NamesExact
<1>1. IInv => NamesExact
  BY DEF IInv
<1> QED
  BY <1>1, DirectoryInvariant, PTL

\* The signals serviceAdded and serviceRemoved tell exactly which services are
\* connected.
THEOREM MirrorCorrect == Spec => []MirrorExact
<1>1. IInv => MirrorExact
  BY DEF IInv
<1> QED
  BY <1>1, DirectoryInvariant, PTL

\* The vectors of socketToIdx and idxToSocket together say who is there.
LEMMA OwnersFromInv == IInv => OwnersAlive
<1> SUFFICES ASSUME IInv, DirectoryIsOne,
                    NEW i \in Registered \ {Service_ServiceDirectory}
             PROVE  \E c \in Callers :
                      /\ c \in Sockets => socketState[c] = "bound"
                      /\ \A d \in Callers : i \in socketToIdx[d] <=> d = c
  BY DEF OwnersAlive
<1>1. /\ idxToSocket[i] \in Callers
      /\ \A d \in Callers : i \in socketToIdx[d] <=> d = idxToSocket[i]
  BY DEF IInv, Owned
<1>2. idxToSocket[i] \in Sockets => socketState[idxToSocket[i]] = "bound"
  BY DEF IInv, SocketsHandedOutLive, TypeOK, Registered
<1> QED
  BY <1>1, <1>2

\* A registered service belongs to one caller that is still connected, so nothing
\* of a disconnected client stays in the directory.
THEOREM OwnersCorrect == Spec => []OwnersAlive
  BY OwnersFromInv, DirectoryInvariant, PTL

\* _socketOfService never answers with a socket that has been removed.
THEOREM SocketsCorrect == Spec => []SocketsHandedOutLive
<1>1. IInv => SocketsHandedOutLive
  BY DEF IInv
<1> QED
  BY <1>1, DirectoryInvariant, PTL

-----------------------------------------------------------------------------
(***************************************************************************)
(* The directory among its clients: Naming.                                *)
(***************************************************************************)

\* The requests on their way, and the tasks of a server's strand.
Sent(c) == {toSD[c][k] : k \in DOMAIN toSD[c]}
Queued(c) == {tasks[c][k] : k \in DOMAIN tasks[c]}

\* The directory registered itself before anybody else, and not through a socket.
FirstIsOwn ==
  /\ regid = Service_ServiceDirectory /\ start = "done" /\ servicesCount >= 1
  /\ idxToSocket[Service_ServiceDirectory] = NullSocket

\* The ids that clients were given.
Given == 2 .. servicesCount

\* A client's socket is bound at least until its link is lost.
UpIsBound == \A c \in Clients : link[c] = "up" => socketState[c] = "bound"

\* A service goes with its client, or because somebody asked for it.
GivenStays ==
  \A i \in Given :
    /\ info[i].sessionId \in Clients
    /\ idxToSocket[i] \in {info[i].sessionId, NoSocket}
    /\ socketState[info[i].sessionId] = "bound" => idxToSocket[i] = info[i].sessionId
    /\ i \in asked \/ i \in Registered \/ socketState[info[i].sessionId] = "gone"

\* The id i was given to client c for the name n.
GivenTo(c, i, n) == i \in Given /\ info[i].sessionId = c /\ info[i].name = n

\* What is on its way between a client and the directory speaks of the client's ids.
MessagesTrue ==
  \A c \in Clients :
    /\ \A m \in Sent(c) :
         /\ m.op = "ready" => \E n \in ServiceNames : GivenTo(c, m.id, n)
         /\ m.op = "unregister" => m.id \in asked
    /\ \A r \in replies[c] :
         /\ r.op = "register" /\ r.id # 0 => GivenTo(c, r.id, r.name)
         /\ r.op = "ready" /\ r.ok => r.id \in announced

\* So do the calls of a client.
RequestsTrue ==
  \A c \in Clients, n \in ServiceNames :
    /\ request[c][n].st \in {"stored", "acked", "ok"} => GivenTo(c, request[c][n].id, n)
    /\ request[c][n].st = "ok" => request[c][n].id \in announced

\* Only what was asked for is taken away from a registrar and its server.
RemovedIsAsked ==
  \A c \in Clients :
    /\ \A u \in unregister[c] : u.id \in asked
    /\ \A t \in Queued(c) : t[1] = "remove" => t[2] \in asked

\* The registrar has the service, and its server the object, or a task that adds it.
Hosted(c, i) ==
  /\ \E n \in ServiceNames : <<i, n>> \in services[c]
  /\ i \in bound[c] \/ <<"add", i>> \in Queued(c)

\* The registrar stores a service before it reports it ready.
HostedFirst ==
  /\ \A c \in Clients, n \in ServiceNames :
       request[c][n].st = "stored" /\ request[c][n].id \notin asked
         => Hosted(c, request[c][n].id)
  /\ \A c \in Clients : \A m \in Sent(c) :
       m.op = "ready" /\ m.id \notin asked => Hosted(c, m.id)
  /\ \A i \in Given : i \in announced \ asked => Hosted(info[i].sessionId, i)

\* The inductive invariant of the composition.
NInv ==
  /\ IInv /\ NTypeOK /\ FirstIsOwn /\ UpIsBound /\ GivenStays
  /\ MessagesTrue /\ RequestsTrue /\ RemovedIsAsked /\ HostedFirst

\* What Send() adds, and nothing else, is on its way.
LEMMA SendAdds ==
  ASSUME NTypeOK, NEW c \in Clients, NEW m \in Requests, Send(c, m)
  PROVE  /\ toSD' \in [Clients -> Seq(Requests)]
         /\ \A d \in Clients : Sent(d)' \subseteq Sent(d) \cup {x \in {m} : d = c}
<1>1. toSD \in [Clients -> Seq(Requests)]
  BY DEF NTypeOK
<1>2. CASE link[c] # "up"
  BY <1>1, <1>2 DEF Send, Sent
<1>3. CASE link[c] = "up"
  <2>1. toSD' = [toSD EXCEPT ![c] = Append(@, m)]
    BY <1>3 DEF Send
  <2>2. Append(toSD[c], m) \in Seq(Requests)
    BY <1>1
  <2>3. \A k \in DOMAIN Append(toSD[c], m) :
          \/ k \in DOMAIN toSD[c] /\ Append(toSD[c], m)[k] = toSD[c][k]
          \/ Append(toSD[c], m)[k] = m
    BY <1>1
  <2>4. \A d \in Clients : toSD'[d] = IF d = c THEN Append(toSD[c], m) ELSE toSD[d]
    BY <1>1, <2>1
  <2>5. toSD' \in [Clients -> Seq(Requests)]
    BY <1>1, <2>1, <2>2
  <2> QED
    BY <2>3, <2>4, <2>5 DEF Sent
<1> QED
  BY <1>2, <1>3

\* The directory takes the first request.
LEMMA TailTakes ==
  ASSUME NTypeOK, NEW c \in Clients, toSD[c] # <<>>, toSD' = [toSD EXCEPT ![c] = Tail(@)]
  PROVE  /\ toSD' \in [Clients -> Seq(Requests)]
         /\ Head(toSD[c]) \in Sent(c) /\ Head(toSD[c]) \in Requests
         /\ \A d \in Clients : Sent(d)' \subseteq Sent(d)
<1>1. toSD \in [Clients -> Seq(Requests)]
  BY DEF NTypeOK
<1>2. /\ Tail(toSD[c]) \in Seq(Requests) /\ 1 \in DOMAIN toSD[c]
      /\ Head(toSD[c]) = toSD[c][1] /\ toSD[c][1] \in Requests
      /\ \A k \in DOMAIN Tail(toSD[c]) : k + 1 \in DOMAIN toSD[c] /\ Tail(toSD[c])[k] = toSD[c][k + 1]
  BY <1>1
<1>3. \A d \in Clients : toSD'[d] = IF d = c THEN Tail(toSD[c]) ELSE toSD[d]
  BY <1>1
<1>4. toSD' \in [Clients -> Seq(Requests)]
  BY <1>1, <1>2
<1> QED
  BY <1>2, <1>3, <1>4 DEF Sent

\* A link that is lost loses the last requests.
LEMMA LossCuts ==
  ASSUME NTypeOK, NEW c \in Clients, NEW k \in 0 .. Len(toSD[c]),
         toSD' = [toSD EXCEPT ![c] = SubSeq(@, 1, k)]
  PROVE  /\ toSD' \in [Clients -> Seq(Requests)]
         /\ \A d \in Clients : Sent(d)' \subseteq Sent(d)
<1>1. toSD \in [Clients -> Seq(Requests)]
  BY DEF NTypeOK
<1>2. /\ SubSeq(toSD[c], 1, k) \in Seq(Requests)
      /\ \A j \in DOMAIN SubSeq(toSD[c], 1, k) :
           j \in DOMAIN toSD[c] /\ SubSeq(toSD[c], 1, k)[j] = toSD[c][j]
  <2>1. toSD[c] \in Seq(Requests) /\ Len(toSD[c]) \in Nat
    BY <1>1
  <2>2. /\ DOMAIN SubSeq(toSD[c], 1, k) = 1 .. k
        /\ \A j \in 1 .. k : SubSeq(toSD[c], 1, k)[j] = toSD[c][j]
    BY <2>1
  <2> QED
    BY <2>1, <2>2
<1>3. \A d \in Clients : toSD'[d] = IF d = c THEN SubSeq(toSD[c], 1, k) ELSE toSD[d]
  BY <1>1
<1>4. toSD' \in [Clients -> Seq(Requests)]
  BY <1>1, <1>2
<1> QED
  BY <1>2, <1>3, <1>4 DEF Sent

\* What is posted to a server's strand is behind the tasks it has.
LEMMA TaskPosted ==
  ASSUME NTypeOK, NEW c \in Clients, NEW t \in {"add", "remove"} \X Ids,
         tasks' = [tasks EXCEPT ![c] = Append(@, t)]
  PROVE  /\ tasks' \in [Clients -> Seq({"add", "remove"} \X Ids)]
         /\ \A d \in Clients : Queued(d)' = Queued(d) \cup {x \in {t} : d = c}
<1>1. tasks \in [Clients -> Seq({"add", "remove"} \X Ids)]
  BY DEF NTypeOK
<1> DEFINE T == {"add", "remove"} \X Ids
<1>2. t \in T /\ tasks[c] \in Seq(T)
  BY <1>1
<1> HIDE DEF T
<1>3. /\ Append(tasks[c], t) \in Seq(T)
      /\ DOMAIN Append(tasks[c], t) = DOMAIN tasks[c] \cup {Len(tasks[c]) + 1}
      /\ Len(tasks[c]) + 1 \notin DOMAIN tasks[c]
      /\ Append(tasks[c], t)[Len(tasks[c]) + 1] = t
      /\ \A k \in DOMAIN tasks[c] : Append(tasks[c], t)[k] = tasks[c][k]
  BY <1>2
<1>4. \A d \in Clients : tasks'[d] = IF d = c THEN Append(tasks[c], t) ELSE tasks[d]
  BY <1>1
<1>5. tasks' \in [Clients -> Seq(T)]
  BY <1>1, <1>3 DEF T
<1> QED
  BY <1>3, <1>4, <1>5 DEF Queued, T

\* The strand runs its first task, and keeps the others.
LEMMA TaskRun ==
  ASSUME NTypeOK, NEW c \in Clients, tasks[c] # <<>>, tasks' = [tasks EXCEPT ![c] = Tail(@)]
  PROVE  /\ tasks' \in [Clients -> Seq({"add", "remove"} \X Ids)]
         /\ Head(tasks[c]) \in {"add", "remove"} \X Ids /\ Head(tasks[c]) \in Queued(c)
         /\ \A d \in Clients : /\ Queued(d)' \subseteq Queued(d)
                               /\ Queued(d) \subseteq Queued(d)' \cup {x \in {Head(tasks[c])} : d = c}
<1>1. tasks \in [Clients -> Seq({"add", "remove"} \X Ids)]
  BY DEF NTypeOK
<1> DEFINE T == {"add", "remove"} \X Ids
<1>2. tasks[c] \in Seq(T)
  BY <1>1
<1> HIDE DEF T
<1>3. /\ Tail(tasks[c]) \in Seq(T) /\ 1 \in DOMAIN tasks[c]
      /\ Head(tasks[c]) = tasks[c][1] /\ tasks[c][1] \in T
      /\ \A k \in DOMAIN Tail(tasks[c]) : k + 1 \in DOMAIN tasks[c] /\ Tail(tasks[c])[k] = tasks[c][k + 1]
      /\ \A k \in DOMAIN tasks[c] : k # 1 => k - 1 \in DOMAIN Tail(tasks[c])
                                             /\ Tail(tasks[c])[k - 1] = tasks[c][k]
  BY <1>2
<1>4. \A d \in Clients : tasks'[d] = IF d = c THEN Tail(tasks[c]) ELSE tasks[d]
  BY <1>1
<1>5. tasks' \in [Clients -> Seq(T)]
  BY <1>1, <1>3 DEF T
<1>6. \A d \in Clients : /\ Queued(d)' \subseteq Queued(d)
                         /\ Queued(d) \subseteq Queued(d)' \cup {x \in {Head(tasks[c])} : d = c}
  <2> SUFFICES ASSUME NEW d \in Clients
               PROVE  /\ Queued(d)' \subseteq Queued(d)
                      /\ Queued(d) \subseteq Queued(d)' \cup {x \in {Head(tasks[c])} : d = c}
    OBVIOUS
  <2>1. CASE d # c
    BY <1>4, <2>1 DEF Queued
  <2>2. CASE d = c
    <3>1. \A k \in DOMAIN tasks'[c] : tasks'[c][k] \in Queued(c)
      BY <1>3, <1>4 DEF Queued
    <3>2. ASSUME NEW k \in DOMAIN tasks[c], k # 1
          PROVE  tasks[c][k] \in {tasks'[c][j] : j \in DOMAIN tasks'[c]}
      <4>1. k - 1 \in DOMAIN tasks'[c] /\ tasks'[c][k - 1] = tasks[c][k]
        BY <1>3, <1>4, <3>2
      <4> QED
        BY <4>1
    <3> QED
      BY <1>3, <2>2, <3>1, <3>2 DEF Queued
  <2> QED
    BY <2>1, <2>2
<1> QED
  BY <1>3, <1>5, <1>6 DEF Queued, T

\* The fields of a request.
LEMMA RequestFields ==
  ASSUME NEW m \in Requests
  PROVE  /\ m.op = "register" => m.name \in ServiceNames
         /\ m.op \in {"ready", "unregister"} => m.id \in Ids
  BY DEF Requests

\* Only the strand of a client's socket changes the directory.
LEMMA OthersLeaveIt ==
  ASSUME NNext
  PROVE  UNCHANGED vars \/ \E c \in Clients : SocketStrand(c)
<1>1. ASSUME NEW c \in Clients, NEW n \in ServiceNames,
             CallRegister(c, n) \/ CallUnregister(c, n) \/ AckService(c, n) \/ FailRequest(c, n)
      PROVE  UNCHANGED vars
  BY <1>1 DEF CallRegister, CallUnregister, AckService, FailRequest, directory
<1>2. ASSUME NEW c \in Clients,
             \/ StoreService(c) \/ FinishRegister(c) \/ EraseService(c) \/ ForgetName(c)
             \/ RunServerTask(c) \/ LinkLost(c)
      PROVE  UNCHANGED vars
  BY <1>2 DEF StoreService, FinishRegister, EraseService, ForgetName, RunServerTask, LinkLost,
              directory
<1>3. ASSUME Subscribed \/ Asked \/ OnServiceAdded \/ Unsubscribe PROVE UNCHANGED vars
  BY <1>3 DEF Subscribed, Asked, OnServiceAdded, Unsubscribe, directory
<1> QED
  BY <1>1, <1>2, <1>3 DEF NNext, RegisterStep

\* A request that the directory handles is a call of one of its methods, or one that is
\* refused and changes nothing.
LEMMA HandledIsCall ==
  ASSUME NInv, NEW c \in Clients, HandleMessage(c)
  PROVE  [Next]_vars
<1> DEFINE m == Head(toSD[c])
<1>0. /\ toSD[c] # <<>> /\ toSD' = [toSD EXCEPT ![c] = Tail(@)]
      /\ UNCHANGED <<socketState, start, regid>>
  BY DEF HandleMessage
<1>1. m \in Sent(c) /\ m \in Requests
  BY <1>0, TailTakes DEF NInv
<1>2. /\ c \in Callers /\ MayCall(c)
  BY DirectoryAssumption DEF HandleMessage, Callers, Clients, MayCall
<1>3. HandleRegister(c, m) \/ HandleReady(c, m) \/ HandleUnregister(c, m)
  BY DEF HandleMessage
<1>4. /\ m.op = "register" => m.name \in ServiceNames
      /\ m.op \in {"ready", "unregister"} => m.id \in Ids
  BY <1>1, RequestFields
<1>5. m.op = "ready" => idxToSocket[m.id] = c
  <2> SUFFICES ASSUME m.op = "ready" PROVE idxToSocket[m.id] = c
    OBVIOUS
  <2>1. m.id \in Given /\ info[m.id].sessionId = c
    BY <1>1 DEF NInv, MessagesTrue, GivenTo
  <2>2. socketState[c] = "bound"
    BY DEF HandleMessage
  <2> QED
    BY <2>1, <2>2 DEF NInv, GivenStays
<1> HIDE DEF m
<1>6. CASE HandleRegister(c, m)
  <2>1. CASE UNCHANGED maps
    BY <1>0, <2>1 DEF vars
  <2>2. CASE RegisterService(c, [name |-> m.name, sessionId |-> c, endpoints |-> TheEndpoints])
    <3>1. m.name \in Names /\ TheEndpoints \in Endpoints
      BY <1>4, <1>6, DirectoryAssumption DEF HandleRegister, ServiceNames, TheEndpoints
    <3>2. CallRegisterService(c, m.name, TheEndpoints)
      BY <1>0, <1>2, <2>2 DEF CallRegisterService
    <3> QED
      BY <1>2, <3>1, <3>2 DEF Next
  <2> QED
    BY <1>6, <2>1, <2>2 DEF HandleRegister
<1>7. CASE HandleReady(c, m)
  <2>1. CASE UNCHANGED maps
    BY <1>0, <2>1 DEF vars
  <2>2. CASE ServiceReady(m.id)
    <3>1. m.id \in Ids /\ CallServiceReady(c, m.id)
      BY <1>0, <1>2, <1>4, <1>5, <1>7, <2>2 DEF HandleReady, CallServiceReady
    <3> QED
      BY <1>2, <3>1 DEF Next
  <2> QED
    BY <1>7, <2>1, <2>2 DEF HandleReady
<1>8. CASE HandleUnregister(c, m)
  <2>1. CASE UNCHANGED maps
    BY <1>0, <2>1 DEF vars
  <2>2. CASE UnregisterService(m.id)
    <3>1. m.id \in Ids /\ CallUnregisterService(c, m.id)
      BY <1>0, <1>2, <1>4, <1>8, <2>2 DEF HandleUnregister, CallUnregisterService
    <3> QED
      BY <1>2, <3>1 DEF Next
  <2> QED
    BY <1>8, <2>1, <2>2 DEF HandleUnregister
<1> QED
  BY <1>3, <1>6, <1>7, <1>8

\* A step of the whole is a step of the directory, or none.
LEMMA StepsAreDirectorySteps == ASSUME NInv, NNext PROVE [Next]_vars
<1>1. ASSUME NEW c \in Clients, DirectorySeesLoss(c) PROVE [Next]_vars
  BY <1>1 DEF DirectorySeesLoss, Next, Clients
<1> QED
  BY <1>1, OthersLeaveIt, HandledIsCall DEF SocketStrand

\* Ids that were given out keep their entries, whatever becomes of the service.
LEMMA GivenLasts ==
  ASSUME NInv, NNext
  PROVE  /\ asked \subseteq asked' /\ announced \subseteq announced'
         /\ servicesCount' \in Nat /\ servicesCount <= servicesCount' /\ Given \subseteq Given'
         /\ \A i \in Given : info'[i] = info[i]
         /\ \A c, i, n : GivenTo(c, i, n) => GivenTo(c, i, n)'
<1>0. servicesCount \in Nat /\ servicesCount <= MaxServices /\ info \in [Ids -> ServiceInfo]
      /\ MaxServices \in Nat
  BY DirectoryAssumption DEF NInv, IInv, TypeOK
<1>1. asked \subseteq asked'
  <2>1. ASSUME NEW c \in Clients, NEW n \in ServiceNames,
               CallRegister(c, n) \/ AckService(c, n) \/ FailRequest(c, n)
        PROVE  asked' = asked
    BY <2>1 DEF CallRegister, AckService, FailRequest
  <2>2. ASSUME NEW c \in Clients, NEW n \in ServiceNames, CallUnregister(c, n)
        PROVE  asked \subseteq asked'
    BY <2>2 DEF CallUnregister
  <2>3. ASSUME NEW c \in Clients,
               \/ StoreService(c) \/ FinishRegister(c) \/ EraseService(c) \/ ForgetName(c)
               \/ RunServerTask(c) \/ LinkLost(c) \/ SocketStrand(c)
        PROVE  asked' = asked
    BY <2>3 DEF StoreService, FinishRegister, EraseService, ForgetName, RunServerTask, LinkLost,
                SocketStrand, HandleMessage, DirectorySeesLoss, clients
  <2>4. ASSUME Subscribed \/ Asked \/ OnServiceAdded \/ Unsubscribe PROVE asked' = asked
    BY <2>4 DEF Subscribed, Asked, OnServiceAdded, Unsubscribe, clients
  <2> QED
    BY <2>1, <2>2, <2>3, <2>4 DEF NNext, RegisterStep
<1>2. \/ UNCHANGED <<announced, servicesCount, info>>
      \/ announced \subseteq announced' /\ UNCHANGED <<servicesCount, info>>
      \/ \E c \in Clients, si \in ServiceInfo :
           RegisterService(c, si)
  <2>1. CASE UNCHANGED vars
    BY <2>1 DEF vars, maps
  <2>2. ASSUME NEW c \in Clients, DirectorySeesLoss(c)
        PROVE  UNCHANGED <<announced, servicesCount, info>>
    BY <2>2 DEF DirectorySeesLoss, SocketDisconnected, RemoveClientSocket, Unregister
  <2>3. ASSUME NEW c \in Clients, HandleMessage(c)
        PROVE  \/ announced \subseteq announced' /\ UNCHANGED <<servicesCount, info>>
               \/ \E si \in ServiceInfo : RegisterService(c, si)
    <3> DEFINE m == Head(toSD[c])
    <3>1. m \in Requests
      BY <2>3, TailTakes DEF NInv, HandleMessage
    <3>2. HandleRegister(c, m) \/ HandleReady(c, m) \/ HandleUnregister(c, m)
      BY <2>3 DEF HandleMessage
    <3> HIDE DEF m
    <3>3. CASE HandleRegister(c, m)
      <4>1. [name |-> m.name, sessionId |-> c, endpoints |-> TheEndpoints] \in ServiceInfo
        BY <3>1, <3>3, RequestFields, DirectoryAssumption
           DEF HandleRegister, ServiceInfo, ServiceNames, TheEndpoints, Clients, Callers
      <4> QED
        BY <3>3, <4>1 DEF HandleRegister, maps
    <3>4. CASE HandleReady(c, m)
      BY <3>4 DEF HandleReady, ServiceReady, maps
    <3>5. CASE HandleUnregister(c, m)
      BY <3>5 DEF HandleUnregister, UnregisterService, Unregister, maps
    <3> QED
      BY <3>2, <3>3, <3>4, <3>5
  <2> QED
    BY <2>1, <2>2, <2>3, OthersLeaveIt DEF SocketStrand
<1>3. ASSUME NEW c \in Clients, NEW si \in ServiceInfo, RegisterService(c, si)
      PROVE  /\ servicesCount' = servicesCount + 1 /\ announced' = announced
             /\ info' = [info EXCEPT ![servicesCount + 1] = si]
  BY <1>3 DEF RegisterService
<1>4. /\ announced \subseteq announced' /\ servicesCount' \in Nat /\ servicesCount <= servicesCount'
      /\ \A i \in Given : info'[i] = info[i]
  BY <1>0, <1>2, <1>3 DEF Given, Ids
<1>5. Given \subseteq Given'
  BY <1>0, <1>4 DEF Given
<1> QED
  BY <1>1, <1>4, <1>5 DEF GivenTo

\* The fields of an answer.
LEMMA ReplyFields ==
  ASSUME NEW r \in Replies
  PROVE  /\ r.op = "register" => r.name \in ServiceNames /\ r.id \in Ids \cup {0}
         /\ r.op = "ready" => r.id \in Ids /\ r.ok \in BOOLEAN
         /\ r.op \in {"register", "ready"}
  BY DEF Replies

\* An id that was given out is one of the directory's.
LEMMA GivenIsId == ASSUME NInv PROVE Given \subseteq Ids /\ 1 \notin Given /\ Given \subseteq Nat
<1>1. servicesCount \in Nat /\ servicesCount <= MaxServices /\ MaxServices \in Nat
  BY DirectoryAssumption DEF NInv, IInv, TypeOK
<1> QED
  BY <1>1 DEF Given, Ids

\* A call of registerService.
Calls == [st : RequestStates, id : Ids \cup {0}]

\* The types of what the registrars' calls have: link, requests, answers and calls.
CallTypes ==
  /\ link \in [Clients -> {"up", "down"}]
  /\ toSD \in [Clients -> Seq(Requests)]
  /\ replies \in [Clients -> SUBSET Replies]
  /\ request \in [Clients -> [ServiceNames -> Calls]]

\* The types of the rest.
HostTypes ==
  /\ services \in [Clients -> SUBSET (Ids \X ServiceNames)]
  /\ nameIndex \in [Clients -> [ServiceNames -> Ids \cup {0}]]
  /\ tasks \in [Clients -> Seq({"add", "remove"} \X Ids)]
  /\ bound \in [Clients -> SUBSET Ids]
  /\ unregister \in [Clients -> SUBSET [id : Ids, name : ServiceNames \cup {DirectoryName},
                                        st : {"erase", "forget"}]]
  /\ asked \subseteq Ids

\* The types of the waiting session.
WaiterTypes ==
  /\ waiter \in {"connecting", "asking", "absent", "done"}
  /\ subscribed \in BOOLEAN /\ events \subseteq Names

\* A call's record can be replaced.
LEMMA RequestSet ==
  ASSUME CallTypes, NEW c \in Clients, NEW n \in ServiceNames, NEW s \in RequestStates,
         NEW i \in Ids \cup {0}, request' = [request EXCEPT ![c][n] = [st |-> s, id |-> i]]
  PROVE  /\ request' \in [Clients -> [ServiceNames -> Calls]]
         /\ request'[c][n].st = s /\ request'[c][n].id = i
         /\ \A d \in Clients, x \in ServiceNames : d # c \/ x # n => request'[d][x] = request[d][x]
<1>1. PICK v \in Calls : v = [st |-> s, id |-> i] /\ request' = [request EXCEPT ![c][n] = v]
  BY DEF Calls
<1>2. request \in [Clients -> [ServiceNames -> Calls]]
  BY DEF CallTypes
<1>3. /\ request' \in [Clients -> [ServiceNames -> Calls]] /\ request'[c][n] = v
      /\ \A d \in Clients, x \in ServiceNames : d # c \/ x # n => request'[d][x] = request[d][x]
  BY <1>1, <1>2
<1> QED
  BY <1>1, <1>3

\* And its state alone.
LEMMA RequestMoves ==
  ASSUME CallTypes, NEW c \in Clients, NEW n \in ServiceNames, NEW s \in RequestStates,
         request' = [request EXCEPT ![c][n].st = s]
  PROVE  /\ request' \in [Clients -> [ServiceNames -> Calls]]
         /\ request'[c][n].st = s /\ request'[c][n].id = request[c][n].id
         /\ \A d \in Clients, x \in ServiceNames : d # c \/ x # n => request'[d][x] = request[d][x]
<1>1. request \in [Clients -> [ServiceNames -> Calls]] /\ request[c][n] \in Calls
  BY DEF CallTypes
<1>2. /\ [st |-> s, id |-> request[c][n].id] \in Calls
      /\ [request[c][n] EXCEPT !.st = s] = [st |-> s, id |-> request[c][n].id]
  BY <1>1 DEF Calls
<1>3. request' = [request EXCEPT ![c][n] = [request[c][n] EXCEPT !.st = s]]
  BY <1>1
<1>4. PICK v \in Calls : /\ v = [st |-> s, id |-> request[c][n].id]
                         /\ request' = [request EXCEPT ![c][n] = v]
  BY <1>2, <1>3
<1>5. /\ request' \in [Clients -> [ServiceNames -> Calls]] /\ request'[c][n] = v
      /\ \A d \in Clients, x \in ServiceNames : d # c \/ x # n => request'[d][x] = request[d][x]
  BY <1>1, <1>4
<1> QED
  BY <1>4, <1>5

\* A call that starts is sent, and has no id.
LEMMA RequestSent ==
  ASSUME CallTypes, NEW c \in Clients, NEW n \in ServiceNames, CallRegister(c, n)
  PROVE  /\ request'[c][n].st = "sent" /\ request'[c][n].id = 0
         /\ \A d \in Clients, x \in ServiceNames : d # c \/ x # n => request'[d][x] = request[d][x]
<1>1. PICK v \in Calls : v = [st |-> "sent", id |-> 0] /\ request' = [request EXCEPT ![c][n] = v]
  BY DEF CallRegister, Calls, RequestStates
<1>2. request \in [Clients -> [ServiceNames -> Calls]]
  BY DEF CallTypes
<1>3. /\ request'[c][n] = v
      /\ \A d \in Clients, x \in ServiceNames : d # c \/ x # n => request'[d][x] = request[d][x]
  BY <1>1, <1>2
<1> QED
  BY <1>1, <1>3

\* A call that is acknowledged, fails or finishes is no longer "stored", and the others
\* go on as they were.
LEMMA RequestLeaves ==
  ASSUME CallTypes, NEW c \in Clients,
         (\E n \in ServiceNames : AckService(c, n) \/ FailRequest(c, n)) \/ FinishRegister(c)
  PROVE  \E n \in ServiceNames :
           /\ request'[c][n].st # "stored"
           /\ \A d \in Clients, x \in ServiceNames : d # c \/ x # n => request'[d][x] = request[d][x]
<1>1. PICK n \in ServiceNames, s \in {"acked", "ok", "failed"} :
        request' = [request EXCEPT ![c][n].st = s]
  BY DEF AckService, FailRequest, FinishRegister
<1>2. s \in RequestStates /\ s # "stored"
  BY DEF RequestStates
<1>3. /\ request' \in [Clients -> [ServiceNames -> Calls]]
      /\ request'[c][n].st = s /\ request'[c][n].id = request[c][n].id
      /\ \A d \in Clients, x \in ServiceNames : d # c \/ x # n => request'[d][x] = request[d][x]
  BY <1>1, <1>2, RequestMoves, ZenonT(60)
<1> QED
  BY <1>2, <1>3

\* The type invariant in its three parts.
LEMMA TypeParts == NTypeOK <=> TypeOK /\ CallTypes /\ HostTypes /\ WaiterTypes
  BY DEF NTypeOK, CallTypes, Calls, HostTypes, WaiterTypes

\* Every step keeps the types of the clients.
LEMMA ClientTypesKept == ASSUME NInv, NNext PROVE CallTypes' /\ HostTypes'
<1> USE DEF CallTypes, HostTypes
<1>0. NTypeOK /\ CallTypes /\ HostTypes
  BY TypeParts DEF NInv
<1>1. ASSUME NEW c \in Clients, NEW n \in ServiceNames, CallRegister(c, n)
      PROVE  CallTypes' /\ HostTypes'
  <2>1. [op |-> "register", name |-> n] \in Requests /\ "sent" \in RequestStates
    BY DEF Requests, RequestStates
  <2>2. toSD' \in [Clients -> Seq(Requests)]
    BY <1>0, <1>1, <2>1, SendAdds DEF CallRegister
  <2>3. request' \in [Clients -> [ServiceNames -> Calls]]
    BY <1>0, <1>1, <2>1, RequestSet DEF CallRegister
  <2> QED
    BY <1>0, <1>1, <2>2, <2>3 DEF CallRegister
<1>2. ASSUME NEW c \in Clients, StoreService(c) PROVE CallTypes' /\ HostTypes'
  <2> PICK r \in replies[c] :
        /\ r.op = "register"
        /\ replies' = [replies EXCEPT ![c] = @ \ {r}]
        /\ IF r.id = 0
             THEN /\ request' = [request EXCEPT ![c][r.name].st = "failed"]
                  /\ UNCHANGED <<services, tasks>>
             ELSE /\ request' = [request EXCEPT ![c][r.name] = [st |-> "stored", id |-> r.id]]
                  /\ services' = [services EXCEPT ![c] = @ \cup {<<r.id, r.name>>}]
                  /\ tasks' = [tasks EXCEPT ![c] = Append(@, <<"add", r.id>>)]
        /\ UNCHANGED <<link, toSD, nameIndex, bound, unregister, asked>>
    BY <1>2 DEF StoreService
  <2>1. r.name \in ServiceNames /\ r.id \in Ids \cup {0}
    BY <1>0, ReplyFields
  <2>2. replies' \in [Clients -> SUBSET Replies]
    BY <1>0
  <2>3. CASE r.id = 0
    <3>1. request' \in [Clients -> [ServiceNames -> Calls]]
      BY <1>0, <2>1, <2>3, RequestMoves DEF RequestStates
    <3> QED
      BY <1>0, <2>2, <2>3, <3>1
  <2>4. CASE r.id # 0
    <3>1. request' \in [Clients -> [ServiceNames -> Calls]]
      BY <1>0, <2>1, <2>4, RequestSet DEF RequestStates
    <3>2. r.id \in Ids /\ <<"add", r.id>> \in {"add", "remove"} \X Ids
      BY <2>1, <2>4
    <3>3. tasks' \in [Clients -> Seq({"add", "remove"} \X Ids)]
      BY <1>0, <2>4, <3>2, TaskPosted
    <3>4. services' \in [Clients -> SUBSET (Ids \X ServiceNames)]
      <4> DEFINE p == <<r.id, r.name>>
      <4>1. p \in Ids \X ServiceNames /\ services' = [services EXCEPT ![c] = @ \cup {p}]
        BY <2>1, <2>4, <3>2
      <4> HIDE DEF p
      <4> QED
        BY <1>0, <4>1
    <3> QED
      BY <1>0, <2>2, <3>1, <3>3, <3>4
  <2> QED
    BY <2>3, <2>4
<1>3. ASSUME NEW c \in Clients, NEW n \in ServiceNames, AckService(c, n)
      PROVE  CallTypes' /\ HostTypes'
  <2>1. request[c][n].id \in Ids
    BY <1>3, GivenIsId DEF AckService, NInv, RequestsTrue, GivenTo
  <2>2. [op |-> "ready", id |-> request[c][n].id] \in Requests
    BY <2>1 DEF Requests
  <2>3. toSD' \in [Clients -> Seq(Requests)]
    BY <1>0, <1>3, <2>2, SendAdds DEF AckService
  <2>4. request' \in [Clients -> [ServiceNames -> Calls]]
    BY <1>0, <1>3, RequestMoves DEF AckService, RequestStates
  <2>5. nameIndex' \in [Clients -> [ServiceNames -> Ids \cup {0}]]
    BY <1>0, <1>3, <2>1 DEF AckService
  <2> QED
    BY <1>0, <1>3, <2>3, <2>4, <2>5 DEF AckService
<1>4. ASSUME NEW c \in Clients, FinishRegister(c) PROVE CallTypes' /\ HostTypes'
  <2> PICK r \in replies[c], n \in ServiceNames :
        /\ replies' = [replies EXCEPT ![c] = @ \ {r}]
        /\ request' = [request EXCEPT ![c][n].st = IF r.ok THEN "ok" ELSE "failed"]
        /\ UNCHANGED <<link, toSD, services, nameIndex, tasks, bound, unregister, asked>>
    BY <1>4 DEF FinishRegister
  <2>1. request' \in [Clients -> [ServiceNames -> Calls]]
    BY <1>0, RequestMoves DEF RequestStates
  <2>2. replies' \in [Clients -> SUBSET Replies]
    BY <1>0
  <2> QED
    BY <1>0, <2>1, <2>2
<1>5. ASSUME NEW c \in Clients, NEW n \in ServiceNames, FailRequest(c, n)
      PROVE  CallTypes' /\ HostTypes'
  <2>1. request' \in [Clients -> [ServiceNames -> Calls]]
    BY <1>0, <1>5, RequestMoves DEF FailRequest, RequestStates
  <2> QED
    BY <1>0, <1>5, <2>1 DEF FailRequest
<1>6. ASSUME NEW c \in Clients, NEW n \in ServiceNames, CallUnregister(c, n)
      PROVE  CallTypes' /\ HostTypes'
  <2>1. request[c][n].id \in Ids
    BY <1>6, GivenIsId DEF CallUnregister, NInv, RequestsTrue, GivenTo
  <2>2. [op |-> "unregister", id |-> request[c][n].id] \in Requests
    BY <2>1 DEF Requests
  <2>3. toSD' \in [Clients -> Seq(Requests)]
    BY <1>0, <1>6, <2>2, SendAdds DEF CallUnregister
  <2>4. asked' \subseteq Ids
    BY <1>0, <1>6, <2>1 DEF CallUnregister
  <2>5. [id |-> request[c][n].id, name |-> DirectoryName, st |-> "erase"]
          \in [id : Ids, name : ServiceNames \cup {DirectoryName}, st : {"erase", "forget"}]
    BY <2>1
  <2>6. unregister' \in [Clients -> SUBSET [id : Ids, name : ServiceNames \cup {DirectoryName},
                                            st : {"erase", "forget"}]]
    BY <1>0, <1>6, <2>5 DEF CallUnregister
  <2> QED
    BY <1>0, <1>6, <2>3, <2>4, <2>6 DEF CallUnregister
<1>7. ASSUME NEW c \in Clients, EraseService(c) PROVE CallTypes' /\ HostTypes'
  <2> PICK u \in unregister[c], s \in services[c] :
        /\ services' = [services EXCEPT ![c] = @ \ {s}]
        /\ tasks' = [tasks EXCEPT ![c] = Append(@, <<"remove", u.id>>)]
        /\ unregister' = [unregister EXCEPT ![c] =
             (@ \ {u}) \cup {[id |-> u.id, name |-> s[2], st |-> "forget"]}]
        /\ UNCHANGED <<link, toSD, replies, request, nameIndex, bound, asked>>
    BY <1>7 DEF EraseService
  <2>1. u.id \in Ids /\ s[2] \in ServiceNames
    BY <1>0
  <2>2. tasks' \in [Clients -> Seq({"add", "remove"} \X Ids)]
    <3>1. <<"remove", u.id>> \in {"add", "remove"} \X Ids
      BY <2>1
    <3> QED
      BY <1>0, <3>1, TaskPosted
  <2>3. services' \in [Clients -> SUBSET (Ids \X ServiceNames)]
    BY <1>0
  <2>4. [id |-> u.id, name |-> s[2], st |-> "forget"]
          \in [id : Ids, name : ServiceNames \cup {DirectoryName}, st : {"erase", "forget"}]
    BY <2>1
  <2>5. unregister' \in [Clients -> SUBSET [id : Ids, name : ServiceNames \cup {DirectoryName},
                                            st : {"erase", "forget"}]]
    BY <1>0, <2>4
  <2> QED
    BY <1>0, <2>2, <2>3, <2>5
<1>8. ASSUME NEW c \in Clients, ForgetName(c) PROVE CallTypes' /\ HostTypes'
  <2>1. nameIndex' \in [Clients -> [ServiceNames -> Ids \cup {0}]]
    <3>1. \E u \in unregister[c] : nameIndex' = [nameIndex EXCEPT ![c][u.name] = 0]
      BY <1>8 DEF ForgetName
    <3>2. PICK x : nameIndex' = [nameIndex EXCEPT ![c][x] = 0]
      BY <3>1
    <3>3. nameIndex \in [Clients -> [ServiceNames -> Ids \cup {0}]]
      BY <1>0
    <3> QED
      BY <3>2, <3>3
  <2>2. unregister' \in [Clients -> SUBSET [id : Ids, name : ServiceNames \cup {DirectoryName},
                                            st : {"erase", "forget"}]]
    <3>1. \E u \in unregister[c] : unregister' = [unregister EXCEPT ![c] = @ \ {u}]
      BY <1>8 DEF ForgetName
    <3> QED
      BY <1>0, <3>1
  <2> QED
    BY <1>0, <1>8, <2>1, <2>2 DEF ForgetName
<1>9. ASSUME NEW c \in Clients, RunServerTask(c) PROVE CallTypes' /\ HostTypes'
  <2>1. /\ tasks' \in [Clients -> Seq({"add", "remove"} \X Ids)]
        /\ Head(tasks[c])[2] \in Ids
    BY <1>0, <1>9, TaskRun DEF RunServerTask
  <2>2. bound' \in [Clients -> SUBSET Ids]
    BY <1>0, <1>9, <2>1 DEF RunServerTask
  <2> QED
    BY <1>0, <1>9, <2>1, <2>2 DEF RunServerTask
<1>10. ASSUME NEW c \in Clients, LinkLost(c) PROVE CallTypes' /\ HostTypes'
  <2>1. toSD' \in [Clients -> Seq(Requests)]
    BY <1>0, <1>10, LossCuts DEF LinkLost
  <2>2. link' \in [Clients -> {"up", "down"}]
    BY <1>0, <1>10 DEF LinkLost
  <2> QED
    BY <1>0, <1>10, <2>1, <2>2 DEF LinkLost
<1>11. ASSUME NEW c \in Clients, HandleMessage(c) PROVE CallTypes' /\ HostTypes'
  <2> DEFINE m == Head(toSD[c])
  <2>1. m \in Requests /\ toSD' \in [Clients -> Seq(Requests)]
    BY <1>0, <1>11, TailTakes DEF HandleMessage
  <2>2. HandleRegister(c, m) \/ HandleReady(c, m) \/ HandleUnregister(c, m)
    BY <1>11 DEF HandleMessage
  <2> HIDE DEF m
  <2>3. replies' = replies \/ \E r \in Replies : replies' = [replies EXCEPT ![c] = @ \cup {r}]
    <3>1. CASE HandleRegister(c, m)
      <4>1. m.name \in ServiceNames
        BY <2>1, <3>1, RequestFields DEF HandleRegister
      <4>2. \A i \in Ids \cup {0} : [op |-> "register", name |-> m.name, id |-> i] \in Replies
        BY <4>1 DEF Replies
      <4>3. RegisterService(c, [name |-> m.name, sessionId |-> c, endpoints |-> TheEndpoints])
              => servicesCount' \in Ids
        BY DirectoryAssumption DEF RegisterService, NInv, IInv, TypeOK, Ids
      <4> QED
        BY <3>1, <4>2, <4>3 DEF HandleRegister, Reply
    <3>2. CASE HandleReady(c, m)
      <4>1. m.id \in Ids
        BY <2>1, <3>2, RequestFields DEF HandleReady
      <4>2. \A b \in BOOLEAN : [op |-> "ready", id |-> m.id, ok |-> b] \in Replies
        BY <4>1 DEF Replies
      <4> QED
        BY <3>2, <4>2 DEF HandleReady, Reply
    <3>3. CASE HandleUnregister(c, m)
      BY <3>3 DEF HandleUnregister
    <3> QED
      BY <2>2, <3>1, <3>2, <3>3
  <2>4. replies' \in [Clients -> SUBSET Replies]
    <3>1. replies \in [Clients -> SUBSET Replies]
      BY <1>0
    <3> QED
      BY <2>3, <3>1
  <2> QED
    BY <1>0, <1>11, <2>1, <2>4 DEF HandleMessage
<1>12. ASSUME NEW c \in Clients, DirectorySeesLoss(c) PROVE CallTypes' /\ HostTypes'
  BY <1>0, <1>12 DEF DirectorySeesLoss, clients
<1>13. ASSUME Subscribed \/ Asked \/ OnServiceAdded \/ Unsubscribe PROVE CallTypes' /\ HostTypes'
  BY <1>0, <1>13 DEF Subscribed, Asked, OnServiceAdded, Unsubscribe, clients
<1> QED
  BY <1>1, <1>2, <1>3, <1>4, <1>5, <1>6, <1>7, <1>8, <1>9, <1>10, <1>11, <1>12, <1>13
     DEF NNext, RegisterStep, SocketStrand

\* And those of the waiting session.
LEMMA WaiterTypesKept == ASSUME NInv, NNext PROVE WaiterTypes'
<1>0. WaiterTypes /\ NTypeOK /\ TypeOK
  BY TypeParts DEF NInv
<1>1. ASSUME NEW c \in Clients, NEW n \in ServiceNames,
             CallRegister(c, n) \/ CallUnregister(c, n) \/ AckService(c, n) \/ FailRequest(c, n)
      PROVE  UNCHANGED waiting
  BY <1>1 DEF CallRegister, CallUnregister, AckService, FailRequest
<1>2. ASSUME NEW c \in Clients,
             \/ StoreService(c) \/ FinishRegister(c) \/ EraseService(c) \/ ForgetName(c)
             \/ RunServerTask(c) \/ LinkLost(c) \/ DirectorySeesLoss(c)
      PROVE  UNCHANGED waiting
  BY <1>2 DEF StoreService, FinishRegister, EraseService, ForgetName, RunServerTask, LinkLost,
              DirectorySeesLoss
<1>3. ASSUME NEW c \in Clients, HandleMessage(c) PROVE WaiterTypes'
  <2> DEFINE m == Head(toSD[c])
  <2>1. m \in Requests
    BY <1>0, <1>3, TailTakes DEF HandleMessage
  <2>2. HandleRegister(c, m) \/ HandleReady(c, m) \/ HandleUnregister(c, m)
    BY <1>3 DEF HandleMessage
  <2> HIDE DEF m
  <2>3. events' \subseteq Names
    <3>1. CASE HandleReady(c, m)
      <4>1. m.id \in Ids
        BY <2>1, <3>1, RequestFields DEF HandleReady
      <4>2. info[m.id].name \in Names
        BY <1>0, <4>1 DEF TypeOK, ServiceInfo
      <4> QED
        BY <1>0, <3>1, <4>2 DEF HandleReady, WaiterTypes
    <3> QED
      BY <1>0, <2>2, <3>1 DEF HandleRegister, HandleUnregister, WaiterTypes
  <2> QED
    BY <1>0, <1>3, <2>3 DEF HandleMessage, WaiterTypes
<1>4. ASSUME Subscribed \/ Asked \/ OnServiceAdded \/ Unsubscribe PROVE WaiterTypes'
  BY <1>0, <1>4 DEF Subscribed, Asked, OnServiceAdded, Unsubscribe, WaiterTypes
<1>5. CASE UNCHANGED waiting
  BY <1>0, <1>5 DEF waiting, WaiterTypes
<1> QED
  BY <1>1, <1>2, <1>3, <1>4, <1>5 DEF NNext, RegisterStep, SocketStrand

\* The directory stays up, and knows a client until its link is lost.
LEMMA UpKept == ASSUME NInv, NNext PROVE FirstIsOwn' /\ UpIsBound'
<1>1. UNCHANGED <<start, regid>>
  <2>1. UNCHANGED vars => UNCHANGED <<start, regid>>
    BY DEF vars
  <2> QED
    BY <2>1, OthersLeaveIt DEF SocketStrand, HandleMessage, DirectorySeesLoss, SocketDisconnected
<1>2. FirstIsOwn'
  <2>1. servicesCount \in Nat /\ servicesCount' \in Nat /\ servicesCount <= servicesCount'
    BY GivenLasts DEF NInv, IInv, TypeOK
  <2>2. /\ idxToSocket \in [Ids -> Callers \cup {NoSocket}] /\ 1 \in Ids
        /\ servicesCount \in Nat /\ servicesCount >= 1 /\ idxToSocket[1] = NullSocket
        /\ NullSocket \notin Clients
    BY DirectoryAssumption DEF NInv, IInv, TypeOK, FirstIsOwn, Service_ServiceDirectory, Ids, Clients
  <2>3. UNCHANGED vars => idxToSocket' = idxToSocket
    BY DEF vars, maps
  <2>4. ASSUME NEW c \in Clients, HandleMessage(c) PROVE idxToSocket'[1] = NullSocket
    <3>1. \/ idxToSocket' = idxToSocket
          \/ idxToSocket' = [idxToSocket EXCEPT ![servicesCount + 1] = c]
      BY <2>4 DEF HandleMessage, HandleRegister, HandleReady, HandleUnregister, RegisterService,
                  ServiceReady, UnregisterService, maps
    <3> QED
      BY <2>2, <3>1
  <2>5. ASSUME NEW c \in Clients, DirectorySeesLoss(c) PROVE idxToSocket'[1] = NullSocket
    BY <2>2, <2>5 DEF DirectorySeesLoss, SocketDisconnected, RemoveClientSocket
  <2>6. idxToSocket'[1] = NullSocket
    BY <2>2, <2>3, <2>4, <2>5, OthersLeaveIt DEF SocketStrand
  <2> QED
    BY <1>1, <2>1, <2>6 DEF NInv, FirstIsOwn, Service_ServiceDirectory
<1>3. \A c \in Clients : link'[c] = "up" => link[c] = "up"
  <2>1. link \in [Clients -> {"up", "down"}]
    BY DEF NInv, NTypeOK
  <2>2. ASSUME NEW c \in Clients, LinkLost(c)
        PROVE  \A d \in Clients : link'[d] = "up" => link[d] = "up"
    BY <2>1, <2>2 DEF LinkLost
  <2>3. ASSUME NEW c \in Clients, NEW n \in ServiceNames,
               CallRegister(c, n) \/ CallUnregister(c, n) \/ AckService(c, n) \/ FailRequest(c, n)
        PROVE  link' = link
    BY <2>3 DEF CallRegister, CallUnregister, AckService, FailRequest
  <2>4. ASSUME NEW c \in Clients,
               \/ StoreService(c) \/ FinishRegister(c) \/ EraseService(c) \/ ForgetName(c)
               \/ RunServerTask(c) \/ SocketStrand(c)
        PROVE  link' = link
    BY <2>4 DEF StoreService, FinishRegister, EraseService, ForgetName, RunServerTask,
                SocketStrand, HandleMessage, DirectorySeesLoss, clients
  <2>5. ASSUME Subscribed \/ Asked \/ OnServiceAdded \/ Unsubscribe PROVE link' = link
    BY <2>5 DEF Subscribed, Asked, OnServiceAdded, Unsubscribe, clients
  <2> QED
    BY <2>2, <2>3, <2>4, <2>5 DEF NNext, RegisterStep
<1>4. \/ socketState' = socketState
      \/ \E c \in Clients : link[c] = "down" /\ socketState' = [socketState EXCEPT ![c] = "gone"]
  <2>1. UNCHANGED vars => socketState' = socketState
    BY DEF vars
  <2> QED
    BY <2>1, OthersLeaveIt DEF SocketStrand, HandleMessage, DirectorySeesLoss, SocketDisconnected
<1>5. socketState \in [Clients -> {"new", "bound", "gone"}]
  BY DEF NInv, IInv, TypeOK, Clients
<1>6. UpIsBound'
  BY <1>3, <1>4, <1>5 DEF NInv, UpIsBound
<1> QED
  BY <1>2, <1>6

\* A lost client takes the services that it was given, and no others.
LEMMA LossKeepsGiven ==
  ASSUME NInv, NNext, NEW c \in Clients, DirectorySeesLoss(c)
  PROVE  GivenStays'
<1> DEFINE ids == {i \in socketToIdx[c] : CanUnregister(i)}
<1>1. /\ socketState' = [socketState EXCEPT ![c] = "gone"]
      /\ idxToSocket' = [i \in Ids |-> IF idxToSocket[i] = c THEN NoSocket ELSE idxToSocket[i]]
      /\ pendingServices' = pendingServices \ ids /\ connectedServices' = connectedServices \ ids
      /\ UNCHANGED <<info, servicesCount, asked>>
  BY DEF DirectorySeesLoss, SocketDisconnected, RemoveClientSocket, Unregister, clients
<1>2. socketState \in [Clients -> {"new", "bound", "gone"}] /\ c \in Callers /\ c # NoSocket
  BY DirectoryAssumption DEF NInv, IInv, TypeOK, Clients, Callers
<1>3. Given' = Given /\ Given \subseteq Ids /\ 1 \notin Given
  BY <1>1, GivenIsId DEF Given
<1>4. \A i \in Given : i \in ids => info[i].sessionId = c
  <2> SUFFICES ASSUME NEW i \in Given, i \in ids PROVE info[i].sessionId = c
    OBVIOUS
  <2>1. i \in Registered \ {Service_ServiceDirectory} /\ i \in socketToIdx[c]
    BY <1>3 DEF CanUnregister, Service_ServiceDirectory
  <2>2. DirectoryIsOne
    BY DEF NInv, FirstIsOwn, DirectoryIsOne
  <2>3. idxToSocket[i] = c
    BY <1>2, <2>1, <2>2 DEF NInv, IInv, Owned
  <2> QED
    BY <1>2, <2>3 DEF NInv, GivenStays
<1> HIDE DEF ids
<1>5. \A i \in Given : i \in Registered => i \in Registered' \/ i \in ids
  BY <1>1 DEF Registered
<1> QED
  BY <1>1, <1>2, <1>3, <1>4, <1>5 DEF NInv, GivenStays

\* A method keeps the entries of the services that were not asked for.
LEMMA CallKeepsGiven ==
  ASSUME NInv, NNext, NEW c \in Clients, HandleMessage(c)
  PROVE  GivenStays'
<1> DEFINE m == Head(toSD[c])
<1>0. toSD[c] # <<>> /\ toSD' = [toSD EXCEPT ![c] = Tail(@)] /\ asked' = asked
      /\ socketState' = socketState /\ socketState[c] = "bound"
  BY DEF HandleMessage
<1>1. m \in Sent(c) /\ m \in Requests
  BY <1>0, TailTakes DEF NInv
<1>2. HandleRegister(c, m) \/ HandleReady(c, m) \/ HandleUnregister(c, m)
  BY DEF HandleMessage
<1>3. m.op = "unregister" => m.id \in asked
  BY <1>1 DEF NInv, MessagesTrue
<1>4. Given \subseteq Ids /\ servicesCount \in Nat
  BY GivenIsId DEF NInv, IInv, TypeOK
<1> HIDE DEF m
<1>5. CASE UNCHANGED maps
  BY <1>0, <1>5 DEF maps, NInv, GivenStays, Given, Registered
<1>6. CASE /\ m.op = "register"
           /\ RegisterService(c, [name |-> m.name, sessionId |-> c, endpoints |-> TheEndpoints])
  <2> DEFINE idx == servicesCount + 1
  <2>1. /\ servicesCount' = idx /\ idx \in Ids
        /\ pendingServices' = pendingServices \cup {idx} /\ connectedServices' = connectedServices
        /\ idxToSocket' = [idxToSocket EXCEPT ![idx] = c]
    BY <1>4, <1>6, DirectoryAssumption DEF RegisterService, Ids
  <2>2. info' = [info EXCEPT ![idx] = [name |-> m.name, sessionId |-> c, endpoints |-> TheEndpoints]]
    BY <1>6 DEF RegisterService
  <2>3. info'[idx].sessionId = c /\ \A i \in Ids : i # idx => info'[i] = info[i]
    BY <2>1, <2>2 DEF NInv, IInv, TypeOK
  <2>4. idxToSocket'[idx] = c /\ \A i \in Ids : i # idx => idxToSocket'[i] = idxToSocket[i]
    BY <2>1 DEF NInv, IInv, TypeOK
  <2>5. Given' \subseteq Given \cup {idx}
    BY <1>4, <2>1 DEF Given
  <2>6. Registered' = Registered \cup {idx}
    BY <2>1 DEF Registered
  <2> HIDE DEF idx
  <2>7. ASSUME NEW i \in Given', i = idx
        PROVE  /\ info'[i].sessionId \in Clients
               /\ idxToSocket'[i] = info'[i].sessionId
               /\ i \in Registered'
    BY <2>3, <2>4, <2>6, <2>7
  <2>8. ASSUME NEW i \in Given', i # idx
        PROVE  i \in Given /\ info'[i] = info[i] /\ idxToSocket'[i] = idxToSocket[i]
               /\ (i \in Registered => i \in Registered')
    BY <1>4, <2>3, <2>4, <2>5, <2>6, <2>8
  <2> QED
    BY <1>0, <2>7, <2>8 DEF NInv, GivenStays
<1>7. CASE ServiceReady(m.id)
  <2>1. Registered' = Registered /\ UNCHANGED <<info, idxToSocket, servicesCount>>
    BY <1>7 DEF ServiceReady, Registered
  <2> QED
    BY <1>0, <2>1 DEF NInv, GivenStays, Given
<1>8. CASE m.op = "unregister" /\ UnregisterService(m.id)
  <2>1. Registered' = Registered \ {m.id} /\ UNCHANGED <<info, idxToSocket, servicesCount>>
    BY <1>8 DEF UnregisterService, Unregister, Registered
  <2> QED
    BY <1>0, <1>3, <1>8, <2>1 DEF NInv, GivenStays, Given
<1> QED
  BY <1>2, <1>5, <1>6, <1>7, <1>8 DEF HandleRegister, HandleReady, HandleUnregister

\* Every step keeps what was given out, until it is asked back or its client goes.
LEMMA GivenKept == ASSUME NInv, NNext PROVE GivenStays'
<1>1. CASE UNCHANGED vars
  <2>1. UNCHANGED <<Given, Registered, info, idxToSocket, socketState>>
    BY <1>1 DEF vars, maps, Given, Registered
  <2>2. asked \subseteq asked'
    BY GivenLasts
  <2> QED
    BY <2>1, <2>2 DEF NInv, GivenStays
<1> QED
  BY <1>1, OthersLeaveIt, LossKeepsGiven, CallKeepsGiven DEF SocketStrand

\* Every step keeps to the ids that were given out.
LEMMA RemovedKept == ASSUME NInv, NNext PROVE RemovedIsAsked'
<1>0. /\ asked \subseteq asked' /\ NTypeOK
      /\ \A c \in Clients : \A u \in unregister[c] : u.id \in asked
      /\ \A c \in Clients : \A t \in Queued(c) : t[1] = "remove" => t[2] \in asked
  BY GivenLasts DEF NInv, RemovedIsAsked
<1>1. /\ tasks \in [Clients -> Seq({"add", "remove"} \X Ids)]
      /\ unregister \in [Clients -> SUBSET [id : Ids, name : ServiceNames \cup {DirectoryName},
                                            st : {"erase", "forget"}]]
      /\ services \in [Clients -> SUBSET (Ids \X ServiceNames)]
      /\ replies \in [Clients -> SUBSET Replies]
  BY <1>0 DEF NTypeOK
<1>2. CASE UNCHANGED <<tasks, unregister>>
  BY <1>0, <1>2 DEF RemovedIsAsked, Queued
<1>3. ASSUME NEW c \in Clients, StoreService(c) PROVE RemovedIsAsked'
  <2>1. PICK r \in replies[c] :
          /\ r.op = "register" /\ unregister' = unregister
          /\ \/ tasks' = tasks
             \/ r.id # 0 /\ tasks' = [tasks EXCEPT ![c] = Append(@, <<"add", r.id>>)]
    BY <1>3 DEF StoreService
  <2>2. CASE r.id # 0 /\ tasks' = [tasks EXCEPT ![c] = Append(@, <<"add", r.id>>)]
    <3>1. r.id \in Ids
      BY <1>1, <2>1, <2>2, ReplyFields
    <3>2. <<"add", r.id>> \in {"add", "remove"} \X Ids
      BY <3>1
    <3>3. \A d \in Clients : Queued(d)' = Queued(d) \cup {x \in {<<"add", r.id>>} : d = c}
      BY <1>0, <2>2, <3>2, TaskPosted
    <3> QED
      BY <1>0, <2>1, <3>3 DEF RemovedIsAsked
  <2> QED
    BY <1>2, <2>1, <2>2
<1>4. ASSUME NEW c \in Clients, NEW n \in ServiceNames, CallUnregister(c, n) PROVE RemovedIsAsked'
  <2>1. /\ tasks' = tasks /\ request[c][n].id \in asked'
        /\ \A d \in Clients : \A u \in unregister'[d] :
             u \in unregister[d] \/ u = [id |-> request[c][n].id, name |-> DirectoryName, st |-> "erase"]
    BY <1>1, <1>4 DEF CallUnregister
  <2> QED
    BY <1>0, <2>1 DEF RemovedIsAsked, Queued
<1>5. ASSUME NEW c \in Clients, EraseService(c) PROVE RemovedIsAsked'
  <2>1. PICK u \in unregister[c], s \in services[c] :
        /\ tasks' = [tasks EXCEPT ![c] = Append(@, <<"remove", u.id>>)]
        /\ unregister' = [unregister EXCEPT ![c] =
             (@ \ {u}) \cup {[id |-> u.id, name |-> s[2], st |-> "forget"]}]
    BY <1>5 DEF EraseService
  <2>2. u.id \in Ids /\ u.id \in asked
    BY <1>0, <1>1
  <2>3. <<"remove", u.id>> \in {"add", "remove"} \X Ids
    BY <2>2
  <2>4. \A d \in Clients : Queued(d)' = Queued(d) \cup {x \in {<<"remove", u.id>>} : d = c}
    BY <1>0, <2>1, <2>3, TaskPosted
  <2>5. \A d \in Clients : \A w \in unregister'[d] :
          w \in unregister[d] \/ w = [id |-> u.id, name |-> s[2], st |-> "forget"]
    BY <1>1, <2>1
  <2>6. \A d \in Clients : \A w \in unregister'[d] : w.id \in asked'
    BY <1>0, <2>2, <2>5
  <2>7. \A d \in Clients : \A t \in Queued(d)' : t[1] = "remove" => t[2] \in asked'
    BY <1>0, <2>2, <2>4
  <2> QED
    BY <2>6, <2>7 DEF RemovedIsAsked
<1>6. ASSUME NEW c \in Clients, ForgetName(c) PROVE RemovedIsAsked'
  <2>1. tasks' = tasks /\ \E u \in unregister[c] : unregister' = [unregister EXCEPT ![c] = @ \ {u}]
    BY <1>6 DEF ForgetName
  <2>2. \A d \in Clients : unregister'[d] \subseteq unregister[d]
    BY <1>1, <2>1
  <2> QED
    BY <1>0, <2>1, <2>2 DEF RemovedIsAsked, Queued
<1>7. ASSUME NEW c \in Clients, RunServerTask(c) PROVE RemovedIsAsked'
  <2>1. unregister' = unregister /\ \A d \in Clients : Queued(d)' \subseteq Queued(d)
    BY <1>0, <1>7, TaskRun DEF RunServerTask
  <2> QED
    BY <1>0, <2>1 DEF RemovedIsAsked
<1>8. ASSUME NEW c \in Clients, NEW n \in ServiceNames,
             CallRegister(c, n) \/ AckService(c, n) \/ FailRequest(c, n)
      PROVE  UNCHANGED <<tasks, unregister>>
  BY <1>8 DEF CallRegister, AckService, FailRequest
<1>9. ASSUME NEW c \in Clients, FinishRegister(c) \/ LinkLost(c) \/ SocketStrand(c)
      PROVE  UNCHANGED <<tasks, unregister>>
  BY <1>9 DEF FinishRegister, LinkLost, SocketStrand, HandleMessage, DirectorySeesLoss, clients
<1>10. ASSUME Subscribed \/ Asked \/ OnServiceAdded \/ Unsubscribe PROVE UNCHANGED <<tasks, unregister>>
  BY <1>10 DEF Subscribed, Asked, OnServiceAdded, Unsubscribe, clients
<1> QED
  BY <1>2, <1>3, <1>4, <1>5, <1>6, <1>7, <1>8, <1>9, <1>10 DEF NNext, RegisterStep

\* A registrar and its server keep what they were not asked to give up.
LEMMA HostedLasts ==
  ASSUME NInv, NNext, NEW c \in Clients, NEW i \in Ids, i \notin asked, Hosted(c, i)
  PROVE  Hosted(c, i)'
<1>0. NTypeOK
  BY DEF NInv
<1>1. /\ services \in [Clients -> SUBSET (Ids \X ServiceNames)] /\ bound \in [Clients -> SUBSET Ids]
      /\ replies \in [Clients -> SUBSET Replies]
      /\ \A d \in Clients : \A u \in unregister[d] : u.id \in Ids
  BY <1>0 DEF NTypeOK
<1>2. CASE UNCHANGED <<services, tasks, bound>>
  BY <1>2 DEF Hosted, Queued
<1>3. ASSUME NEW d \in Clients, StoreService(d) PROVE Hosted(c, i)'
  <2>1. PICK r \in replies[d] :
          /\ r.op = "register" /\ bound' = bound
          /\ \/ UNCHANGED <<services, tasks>>
             \/ /\ r.id # 0 /\ services' = [services EXCEPT ![d] = @ \cup {<<r.id, r.name>>}]
                /\ tasks' = [tasks EXCEPT ![d] = Append(@, <<"add", r.id>>)]
    BY <1>3 DEF StoreService
  <2>2. CASE /\ r.id # 0 /\ services' = [services EXCEPT ![d] = @ \cup {<<r.id, r.name>>}]
             /\ tasks' = [tasks EXCEPT ![d] = Append(@, <<"add", r.id>>)]
    <3>1. r.id \in Ids
      BY <1>1, <2>1, <2>2, ReplyFields
    <3>2. <<"add", r.id>> \in {"add", "remove"} \X Ids
      BY <3>1
    <3>3. Queued(c) \subseteq Queued(c)'
      <4>1. \A e \in Clients : Queued(e)' = Queued(e) \cup {x \in {<<"add", r.id>>} : e = d}
        BY <1>0, <2>2, <3>2, TaskPosted, ZenonT(60)
      <4> QED
        BY <4>1
    <3>4. services[c] \subseteq services'[c]
      BY <1>1, <2>2
    <3> QED
      BY <2>1, <3>3, <3>4 DEF Hosted
  <2> QED
    BY <1>2, <2>1, <2>2
<1>4. ASSUME NEW d \in Clients, EraseService(d) PROVE Hosted(c, i)'
  <2>1. PICK u \in unregister[d], s \in services[d] :
          /\ s[1] = u.id /\ bound' = bound
          /\ services' = [services EXCEPT ![d] = @ \ {s}]
          /\ tasks' = [tasks EXCEPT ![d] = Append(@, <<"remove", u.id>>)]
    BY <1>4 DEF EraseService
  <2>2. u.id \in asked /\ u.id \in Ids
    BY <1>1 DEF NInv, RemovedIsAsked
  <2>3. <<"remove", u.id>> \in {"add", "remove"} \X Ids
    BY <2>2
  <2>4. Queued(c) \subseteq Queued(c)'
    <3>1. \A e \in Clients : Queued(e)' = Queued(e) \cup {x \in {<<"remove", u.id>>} : e = d}
      BY <1>0, <2>1, <2>3, TaskPosted, ZenonT(60)
    <3> QED
      BY <3>1
  <2>5. \A n \in ServiceNames : <<i, n>> \in services[c] => <<i, n>> \in services'[c]
    <3>1. s[1] # i
      BY <2>1, <2>2
    <3>2. \A n \in ServiceNames : <<i, n>> # s
      BY <3>1
    <3> QED
      BY <1>1, <2>1, <3>2
  <2> QED
    BY <2>1, <2>4, <2>5 DEF Hosted
<1>5. ASSUME NEW d \in Clients, RunServerTask(d) PROVE Hosted(c, i)'
  <2>1. PICK t : t = Head(tasks[d])
    OBVIOUS
  <2>2. /\ bound' = [bound EXCEPT ![d] = IF t[1] = "add" THEN @ \cup {t[2]} ELSE @ \ {t[2]}]
        /\ services' = services /\ tasks[d] # <<>> /\ tasks' = [tasks EXCEPT ![d] = Tail(@)]
    BY <1>5, <2>1 DEF RunServerTask
  <2>3. /\ t \in {"add", "remove"} \X Ids /\ t \in Queued(d)
        /\ Queued(c) \subseteq Queued(c)' \cup {x \in {t} : c = d}
    BY <1>0, <2>1, <2>2, TaskRun
  <2>4. t[1] = "remove" => t[2] # i
    BY <2>3 DEF NInv, RemovedIsAsked
  <2>5. i \in bound[c] => i \in bound'[c]
    BY <1>1, <2>2, <2>3, <2>4
  <2>6. t = <<"add", i>> => i \in bound'[d]
    BY <1>1, <2>2
  <2> QED
    BY <2>2, <2>3, <2>5, <2>6 DEF Hosted
<1>6. ASSUME NEW d \in Clients, NEW n \in ServiceNames,
             CallRegister(d, n) \/ CallUnregister(d, n) \/ AckService(d, n) \/ FailRequest(d, n)
      PROVE  UNCHANGED <<services, tasks, bound>>
  BY <1>6 DEF CallRegister, CallUnregister, AckService, FailRequest
<1>7. ASSUME NEW d \in Clients,
             FinishRegister(d) \/ ForgetName(d) \/ LinkLost(d) \/ SocketStrand(d)
      PROVE  UNCHANGED <<services, tasks, bound>>
  BY <1>7 DEF FinishRegister, ForgetName, LinkLost, SocketStrand, HandleMessage,
              DirectorySeesLoss, clients
<1>8. ASSUME Subscribed \/ Asked \/ OnServiceAdded \/ Unsubscribe
      PROVE  UNCHANGED <<services, tasks, bound>>
  BY <1>8 DEF Subscribed, Asked, OnServiceAdded, Unsubscribe, clients
<1> QED
  BY <1>2, <1>3, <1>4, <1>5, <1>6, <1>7, <1>8 DEF NNext, RegisterStep

\* A request that is sent is a registration, the acknowledgement of a service that is
\* stored, or the end of one that was asked for.
LEMMA WhatIsSent ==
  ASSUME NInv, NNext, NEW c \in Clients, NEW m \in Sent(c)', m \notin Sent(c)
  PROVE  /\ m.op = "ready" => \E n \in ServiceNames : /\ request[c][n].st = "stored"
                                                      /\ request[c][n].id = m.id
         /\ m.op = "unregister" => m.id \in asked'
<1>0. NTypeOK
  BY DEF NInv
<1>1. ASSUME NEW d \in Clients, NEW n \in ServiceNames, CallRegister(d, n)
      PROVE  m.op = "register"
  <2>1. [op |-> "register", name |-> n] \in Requests
    BY DEF Requests
  <2>2. m = [op |-> "register", name |-> n]
    BY <1>0, <1>1, <2>1, SendAdds DEF CallRegister
  <2> QED
    BY <2>2
<1>2. ASSUME NEW d \in Clients, NEW n \in ServiceNames, AckService(d, n)
      PROVE  m.op = "ready" /\ request[c][n].st = "stored" /\ request[c][n].id = m.id
  <2>1. PICK i : i = request[d][n].id
    OBVIOUS
  <2>2. i \in Ids /\ request[d][n].st = "stored"
    BY <1>2, <2>1, GivenIsId DEF AckService, NInv, RequestsTrue, GivenTo
  <2>3. [op |-> "ready", id |-> i] \in Requests
    BY <2>2 DEF Requests
  <2>4. Send(d, [op |-> "ready", id |-> i])
    BY <1>2, <2>1 DEF AckService
  <2>5. m = [op |-> "ready", id |-> i] /\ d = c
    BY <1>0, <2>3, <2>4, SendAdds
  <2> QED
    BY <2>1, <2>2, <2>5
<1>3. ASSUME NEW d \in Clients, NEW n \in ServiceNames, CallUnregister(d, n)
      PROVE  m.op = "unregister" /\ m.id \in asked'
  <2>1. PICK i : i = request[d][n].id
    OBVIOUS
  <2>2. i \in Ids /\ i \in asked'
    BY <1>3, <2>1, GivenIsId DEF CallUnregister, NInv, RequestsTrue, GivenTo
  <2>3. [op |-> "unregister", id |-> i] \in Requests
    BY <2>2 DEF Requests
  <2>4. Send(d, [op |-> "unregister", id |-> i])
    BY <1>3, <2>1 DEF CallUnregister
  <2>5. m = [op |-> "unregister", id |-> i]
    BY <1>0, <2>3, <2>4, SendAdds
  <2> QED
    BY <2>2, <2>5
<1>4. ASSUME NEW d \in Clients, LinkLost(d) PROVE FALSE
  BY <1>0, <1>4, LossCuts DEF LinkLost
<1>5. ASSUME NEW d \in Clients, HandleMessage(d) PROVE FALSE
  BY <1>0, <1>5, TailTakes DEF HandleMessage
<1>6. CASE toSD' = toSD
  BY <1>6 DEF Sent
<1>7. ASSUME NEW d \in Clients, NEW n \in ServiceNames, FailRequest(d, n) PROVE toSD' = toSD
  BY <1>7 DEF FailRequest
<1>8. ASSUME NEW d \in Clients,
             \/ StoreService(d) \/ FinishRegister(d) \/ EraseService(d) \/ ForgetName(d)
             \/ RunServerTask(d) \/ DirectorySeesLoss(d)
      PROVE  toSD' = toSD
  BY <1>8 DEF StoreService, FinishRegister, EraseService, ForgetName, RunServerTask,
              DirectorySeesLoss, clients
<1>9. ASSUME Subscribed \/ Asked \/ OnServiceAdded \/ Unsubscribe PROVE toSD' = toSD
  BY <1>9 DEF Subscribed, Asked, OnServiceAdded, Unsubscribe, clients
<1> QED
  BY <1>1, <1>2, <1>3, <1>4, <1>5, <1>6, <1>7, <1>8, <1>9 DEF NNext, RegisterStep, SocketStrand

\* An answer with an id gives it to its client, and one to serviceReady is true.
LEMMA WhatIsAnswered ==
  ASSUME NInv, NNext, NEW c \in Clients, NEW r \in replies'[c], r \notin replies[c]
  PROVE  /\ r.op = "register" /\ r.id # 0 => GivenTo(c, r.id, r.name)'
         /\ r.op = "ready" /\ r.ok => r.id \in announced'
<1>0. NTypeOK /\ replies \in [Clients -> SUBSET Replies]
  BY DEF NInv, NTypeOK
<1>1. ASSUME NEW d \in Clients, HandleMessage(d)
      PROVE  /\ r.op = "register" /\ r.id # 0 => GivenTo(c, r.id, r.name)'
             /\ r.op = "ready" /\ r.ok => r.id \in announced'
  <2>1. PICK m : m = Head(toSD[d])
    OBVIOUS
  <2>2. m \in Requests
    BY <1>0, <1>1, <2>1, TailTakes DEF HandleMessage
  <2>3. HandleRegister(d, m) \/ HandleReady(d, m) \/ HandleUnregister(d, m)
    BY <1>1, <2>1 DEF HandleMessage
  <2>4. CASE HandleRegister(d, m)
    <3>1. PICK i : i = servicesCount'
      OBVIOUS
    <3>2. CASE /\ RegisterService(d, [name |-> m.name, sessionId |-> d, endpoints |-> TheEndpoints])
               /\ Reply(d, [op |-> "register", name |-> m.name, id |-> servicesCount'])
      <4>1. /\ i = servicesCount + 1 /\ i \in Ids /\ i \in Given'
        BY <3>1, <3>2, DirectoryAssumption
           DEF RegisterService, NInv, IInv, TypeOK, FirstIsOwn, Ids, Given
      <4>2. info' = [info EXCEPT ![i] = [name |-> m.name, sessionId |-> d, endpoints |-> TheEndpoints]]
        BY <3>2, <4>1 DEF RegisterService
      <4>3. info'[i] = [name |-> m.name, sessionId |-> d, endpoints |-> TheEndpoints]
        BY <4>1, <4>2 DEF NInv, IInv, TypeOK
      <4>4. r = [op |-> "register", name |-> m.name, id |-> i] /\ d = c
        BY <1>0, <3>1, <3>2 DEF Reply
      <4> QED
        BY <4>1, <4>3, <4>4 DEF GivenTo
    <3>3. CASE Reply(d, [op |-> "register", name |-> m.name, id |-> 0])
      <4>1. r = [op |-> "register", name |-> m.name, id |-> 0]
        BY <1>0, <3>3 DEF Reply
      <4> QED
        BY <4>1
    <3> QED
      BY <2>4, <3>2, <3>3 DEF HandleRegister
  <2>5. CASE HandleReady(d, m)
    <3>1. CASE ServiceReady(m.id) /\ Reply(d, [op |-> "ready", id |-> m.id, ok |-> TRUE])
      <4>1. r = [op |-> "ready", id |-> m.id, ok |-> TRUE] /\ m.id \in announced'
        BY <1>0, <3>1 DEF Reply, ServiceReady
      <4> QED
        BY <4>1
    <3>2. CASE Reply(d, [op |-> "ready", id |-> m.id, ok |-> FALSE])
      <4>1. r = [op |-> "ready", id |-> m.id, ok |-> FALSE]
        BY <1>0, <3>2 DEF Reply
      <4> QED
        BY <4>1
    <3> QED
      BY <2>5, <3>1, <3>2 DEF HandleReady
  <2>6. CASE HandleUnregister(d, m)
    BY <2>6 DEF HandleUnregister
  <2> QED
    BY <2>3, <2>4, <2>5, <2>6
<1>2. ASSUME NEW d \in Clients, StoreService(d) \/ FinishRegister(d) PROVE FALSE
  <2>1. \E q \in replies[d] : replies' = [replies EXCEPT ![d] = @ \ {q}]
    BY <1>2 DEF StoreService, FinishRegister
  <2> QED
    BY <1>0, <2>1
<1>3. ASSUME NEW d \in Clients, NEW n \in ServiceNames,
             CallRegister(d, n) \/ CallUnregister(d, n) \/ AckService(d, n) \/ FailRequest(d, n)
      PROVE  replies' = replies
  BY <1>3 DEF CallRegister, CallUnregister, AckService, FailRequest
<1>4. ASSUME NEW d \in Clients,
             \/ EraseService(d) \/ ForgetName(d) \/ RunServerTask(d) \/ LinkLost(d)
             \/ DirectorySeesLoss(d)
      PROVE  replies' = replies
  BY <1>4 DEF EraseService, ForgetName, RunServerTask, LinkLost, DirectorySeesLoss, clients
<1>5. ASSUME Subscribed \/ Asked \/ OnServiceAdded \/ Unsubscribe PROVE replies' = replies
  BY <1>5 DEF Subscribed, Asked, OnServiceAdded, Unsubscribe, clients
<1> QED
  BY <1>1, <1>2, <1>3, <1>4, <1>5 DEF NNext, RegisterStep, SocketStrand

\* Messages stay true.
LEMMA MessagesKept == ASSUME NInv, NNext PROVE MessagesTrue'
<1>1. ASSUME NEW c \in Clients, NEW m \in Sent(c)'
      PROVE  /\ m.op = "ready" => \E n \in ServiceNames : GivenTo(c, m.id, n)'
             /\ m.op = "unregister" => m.id \in asked'
  <2>1. CASE m \in Sent(c)
    BY <2>1, GivenLasts DEF NInv, MessagesTrue
  <2>2. CASE m \notin Sent(c)
    <3>1. m.op = "ready" => \E n \in ServiceNames : GivenTo(c, m.id, n)
      BY <2>2, WhatIsSent DEF NInv, RequestsTrue
    <3> QED
      BY <2>2, <3>1, WhatIsSent, GivenLasts
  <2> QED
    BY <2>1, <2>2
<1>2. ASSUME NEW c \in Clients, NEW r \in replies'[c]
      PROVE  /\ r.op = "register" /\ r.id # 0 => GivenTo(c, r.id, r.name)'
             /\ r.op = "ready" /\ r.ok => r.id \in announced'
  <2>1. CASE r \in replies[c]
    BY <2>1, GivenLasts DEF NInv, MessagesTrue
  <2> QED
    BY <2>1, WhatIsAnswered
<1> QED
  BY <1>1, <1>2 DEF MessagesTrue

\* A call that goes on has an id of its client's, and one that succeeds is announced.
LEMMA RequestsKept == ASSUME NInv, NNext PROVE RequestsTrue'
<1>0. CallTypes /\ replies \in [Clients -> SUBSET Replies]
  BY TypeParts DEF NInv, CallTypes
<1>1. ASSUME NEW c \in Clients, NEW n \in ServiceNames, request'[c][n] = request[c][n]
      PROVE  /\ request'[c][n].st \in {"stored", "acked", "ok"} => GivenTo(c, request[c][n].id, n)'
             /\ request'[c][n].st = "ok" => request'[c][n].id \in announced'
  <2>1. PICK i : i = request[c][n].id
    OBVIOUS
  <2>2. i = request'[c][n].id
    BY <1>1, <2>1
  <2>3. /\ request[c][n].st \in {"stored", "acked", "ok"} => GivenTo(c, i, n)
        /\ request[c][n].st = "ok" => i \in announced
    BY <2>1 DEF NInv, RequestsTrue
  <2>4. request[c][n].st \in {"stored", "acked", "ok"} => GivenTo(c, i, n)'
    BY <2>3, GivenLasts
  <2>5. request'[c][n].st \in {"stored", "acked", "ok"} => GivenTo(c, request[c][n].id, n)'
    BY <1>1, <2>2, <2>4 DEF GivenTo
  <2> QED
    BY <1>1, <2>1, <2>3, <2>5, GivenLasts
<1>2. CASE request' = request
  BY <1>1, <1>2 DEF RequestsTrue
<1>3. ASSUME NEW c \in Clients, NEW n \in ServiceNames, NEW s \in RequestStates, NEW i \in Ids \cup {0},
             request'[c][n].st = s /\ request'[c][n].id = i,
             \A d \in Clients, x \in ServiceNames : d # c \/ x # n => request'[d][x] = request[d][x],
             s \in {"stored", "acked", "ok"} => GivenTo(c, i, n),
             s = "ok" => i \in announced
      PROVE  RequestsTrue'
  <2>1. /\ s \in {"stored", "acked", "ok"} => GivenTo(c, i, n)'
        /\ s = "ok" => i \in announced'
    BY <1>3, GivenLasts
  <2>3. ASSUME NEW d \in Clients, NEW x \in ServiceNames
        PROVE  /\ request'[d][x].st \in {"stored", "acked", "ok"} => GivenTo(d, request[d][x].id, x)'
               /\ request'[d][x].st = "ok" => request'[d][x].id \in announced'
    <3>1. CASE d = c /\ x = n
      BY <1>3, <2>1, <3>1 DEF GivenTo
    <3>2. CASE d # c \/ x # n
      BY <1>1, <1>3, <3>2
    <3> QED
      BY <3>1, <3>2
  <2> QED
    BY <2>3 DEF RequestsTrue
<1>4. ASSUME NEW c \in Clients, NEW n \in ServiceNames, CallRegister(c, n) PROVE RequestsTrue'
  <2>1. "sent" \in RequestStates
    BY DEF RequestStates
  <2>2. /\ request'[c][n].st = "sent" /\ request'[c][n].id = 0
        /\ \A d \in Clients, x \in ServiceNames : d # c \/ x # n => request'[d][x] = request[d][x]
    BY <1>0, <1>4, RequestSent
  <2> QED
    BY <1>3, <2>1, <2>2
<1>5. ASSUME NEW c \in Clients, StoreService(c) PROVE RequestsTrue'
  <2>1. PICK r \in replies[c] :
        /\ r.op = "register"
        /\ \/ r.id = 0 /\ request' = [request EXCEPT ![c][r.name].st = "failed"]
           \/ r.id # 0 /\ request' = [request EXCEPT ![c][r.name] = [st |-> "stored", id |-> r.id]]
    BY <1>5 DEF StoreService
  <2>2. r.name \in ServiceNames /\ r.id \in Ids \cup {0} /\ (r.id # 0 => GivenTo(c, r.id, r.name))
    BY <1>0, <2>1, ReplyFields DEF NInv, MessagesTrue
  <2>3. PICK n \in ServiceNames, i \in Ids \cup {0} : n = r.name /\ i = r.id
    BY <2>2
  <2>4. CASE i = 0
    <3>1. PICK j \in Ids \cup {0} : j = request[c][n].id
      BY <1>0 DEF CallTypes, Calls
    <3>2. /\ request'[c][n].st = "failed" /\ request'[c][n].id = j
          /\ \A d \in Clients, x \in ServiceNames : d # c \/ x # n => request'[d][x] = request[d][x]
      BY <1>0, <2>1, <2>3, <2>4, <3>1, RequestMoves DEF RequestStates
    <3> QED
      BY <1>3, <3>2 DEF RequestStates
  <2>5. CASE i # 0
    <3>1. "stored" \in RequestStates
      BY DEF RequestStates
    <3>2. /\ request'[c][n].st = "stored" /\ request'[c][n].id = i
          /\ \A d \in Clients, x \in ServiceNames : d # c \/ x # n => request'[d][x] = request[d][x]
      BY <1>0, <2>1, <2>3, <2>5, <3>1, RequestSet
    <3> QED
      BY <1>3, <2>2, <2>3, <2>5, <3>1, <3>2
  <2> QED
    BY <2>4, <2>5
<1>6. ASSUME NEW c \in Clients, NEW n \in ServiceNames,
             AckService(c, n) \/ FailRequest(c, n)
      PROVE  RequestsTrue'
  <2>1. PICK s \in {"acked", "failed"} :
          /\ request' = [request EXCEPT ![c][n].st = s]
          /\ s = "acked" => request[c][n].st = "stored"
    BY <1>6 DEF AckService, FailRequest
  <2>2. PICK j \in Ids \cup {0} : j = request[c][n].id
    BY <1>0 DEF CallTypes, Calls
  <2>3. /\ request'[c][n].st = s /\ request'[c][n].id = j
        /\ \A d \in Clients, x \in ServiceNames : d # c \/ x # n => request'[d][x] = request[d][x]
    BY <1>0, <2>1, <2>2, RequestMoves DEF RequestStates
  <2>4. s = "acked" => GivenTo(c, j, n)
    BY <2>1, <2>2 DEF NInv, RequestsTrue
  <2> QED
    BY <1>3, <2>3, <2>4 DEF RequestStates
<1>7. ASSUME NEW c \in Clients, FinishRegister(c) PROVE RequestsTrue'
  <2>1. PICK r \in replies[c], n \in ServiceNames :
          /\ r.op = "ready" /\ request[c][n] = [st |-> "acked", id |-> r.id]
          /\ request' = [request EXCEPT ![c][n].st = IF r.ok THEN "ok" ELSE "failed"]
    BY <1>7 DEF FinishRegister
  <2>2. PICK j \in Ids \cup {0} : j = r.id
    BY <1>0, <2>1, ReplyFields
  <2>3. PICK s \in {"ok", "failed"} :
          request' = [request EXCEPT ![c][n].st = s] /\ (s = "ok" => r.ok)
    BY <2>1
  <2>4. request[c][n].id = j /\ request[c][n].st = "acked"
    BY <2>1, <2>2
  <2>5. /\ request'[c][n].st = s /\ request'[c][n].id = j
        /\ \A d \in Clients, x \in ServiceNames : d # c \/ x # n => request'[d][x] = request[d][x]
    BY <1>0, <2>3, <2>4, RequestMoves, ZenonT(60) DEF RequestStates
  <2>6. GivenTo(c, j, n) /\ (s = "ok" => j \in announced)
    BY <2>1, <2>2, <2>3, <2>4 DEF NInv, RequestsTrue, MessagesTrue
  <2> QED
    BY <1>3, <2>5, <2>6 DEF RequestStates
<1>8. ASSUME NEW c \in Clients, NEW n \in ServiceNames, CallUnregister(c, n) PROVE request' = request
  BY <1>8 DEF CallUnregister
<1>9. ASSUME NEW c \in Clients,
             EraseService(c) \/ ForgetName(c) \/ RunServerTask(c) \/ LinkLost(c) \/ SocketStrand(c)
      PROVE  request' = request
  BY <1>9 DEF EraseService, ForgetName, RunServerTask, LinkLost, SocketStrand, HandleMessage,
              DirectorySeesLoss, clients
<1>10. ASSUME Subscribed \/ Asked \/ OnServiceAdded \/ Unsubscribe PROVE request' = request
  BY <1>10 DEF Subscribed, Asked, OnServiceAdded, Unsubscribe, clients
<1> QED
  BY <1>2, <1>4, <1>5, <1>6, <1>7, <1>8, <1>9, <1>10 DEF NNext, RegisterStep

\* A service is stored, and its object given to the server, before anything says that it
\* is ready.
LEMMA HostedKept == ASSUME NInv, NNext PROVE HostedFirst'
<1>0. /\ NTypeOK /\ CallTypes /\ HostTypes /\ asked \subseteq asked'
      /\ replies \in [Clients -> SUBSET Replies]
  BY TypeParts, GivenLasts DEF NInv, CallTypes
<1>1. ASSUME NEW c \in Clients, NEW n \in ServiceNames,
             request'[c][n].st = "stored", request'[c][n].id \notin asked'
      PROVE  Hosted(c, request[c][n].id)'
  <2>1. PICK i : i = request'[c][n].id
    OBVIOUS
  <2>2. CASE request[c][n].st = "stored" /\ request[c][n].id = i
    <3>1. Hosted(c, i) /\ i \notin asked /\ i \in Ids
      BY <1>0, <1>1, <2>1, <2>2, GivenIsId DEF NInv, HostedFirst, RequestsTrue, GivenTo
    <3>2. Hosted(c, i)'
      BY <3>1, HostedLasts
    <3> QED
      BY <2>1, <3>2 DEF Hosted
  <2>3. CASE ~(request[c][n].st = "stored" /\ request[c][n].id = i)
    <3>1. /\ i \in Ids /\ services' = [services EXCEPT ![c] = @ \cup {<<i, n>>}]
          /\ tasks' = [tasks EXCEPT ![c] = Append(@, <<"add", i>>)]
      <4>1. ASSUME NEW d \in Clients, StoreService(d)
            PROVE  /\ i \in Ids /\ services' = [services EXCEPT ![c] = @ \cup {<<i, n>>}]
                   /\ tasks' = [tasks EXCEPT ![c] = Append(@, <<"add", i>>)]
        <5>1. PICK r \in replies[d] :
                /\ r.op = "register"
                /\ \/ r.id = 0 /\ request' = [request EXCEPT ![d][r.name].st = "failed"]
                   \/ /\ r.id # 0
                      /\ request' = [request EXCEPT ![d][r.name] = [st |-> "stored", id |-> r.id]]
                      /\ services' = [services EXCEPT ![d] = @ \cup {<<r.id, r.name>>}]
                      /\ tasks' = [tasks EXCEPT ![d] = Append(@, <<"add", r.id>>)]
          BY <4>1 DEF StoreService
        <5>2. r.name \in ServiceNames /\ r.id \in Ids \cup {0}
          BY <1>0, <5>1, ReplyFields
        <5>3. PICK x \in ServiceNames, j \in Ids \cup {0} : x = r.name /\ j = r.id
          BY <5>2
        <5>4. CASE j = 0
          <6>1. /\ request'[d][x].st = "failed"
                /\ \A e \in Clients, y \in ServiceNames :
                     e # d \/ y # x => request'[e][y] = request[e][y]
            BY <1>0, <5>1, <5>3, <5>4, RequestMoves DEF RequestStates
          <6> QED
            BY <1>1, <2>1, <2>3, <6>1
        <5>5. CASE j # 0
          <6>1. "stored" \in RequestStates
            BY DEF RequestStates
          <6>2. /\ request'[d][x].st = "stored" /\ request'[d][x].id = j
                /\ \A e \in Clients, y \in ServiceNames :
                     e # d \/ y # x => request'[e][y] = request[e][y]
            BY <1>0, <5>1, <5>3, <5>5, <6>1, RequestSet
          <6>3. d = c /\ x = n /\ i = j
            BY <1>1, <2>1, <2>3, <6>2
          <6> QED
            BY <5>1, <5>3, <5>5, <6>3
        <5> QED
          BY <5>4, <5>5
      <4>2. ASSUME NEW d \in Clients, NEW x \in ServiceNames, CallRegister(d, x) PROVE FALSE
        <5>1. /\ request'[d][x].st = "sent"
              /\ \A e \in Clients, y \in ServiceNames :
                   e # d \/ y # x => request'[e][y] = request[e][y]
          BY <1>0, <4>2, RequestSent
        <5> QED
          BY <1>1, <2>1, <2>3, <5>1
      <4>4. ASSUME NEW d \in Clients,
                   (\E x \in ServiceNames : AckService(d, x) \/ FailRequest(d, x)) \/ FinishRegister(d)
            PROVE  FALSE
        <5>1. PICK x \in ServiceNames :
                /\ request'[d][x].st # "stored"
                /\ \A e \in Clients, y \in ServiceNames :
                     e # d \/ y # x => request'[e][y] = request[e][y]
          BY <1>0, <4>4, RequestLeaves
        <5> QED
          BY <1>1, <2>1, <2>3, <5>1
      <4>6. request' # request
        BY <1>1, <2>1, <2>3
      <4>7. ASSUME NEW d \in Clients, NEW x \in ServiceNames, CallUnregister(d, x) PROVE FALSE
        BY <4>6, <4>7 DEF CallUnregister
      <4>8. ASSUME NEW d \in Clients,
                   EraseService(d) \/ ForgetName(d) \/ RunServerTask(d) \/ LinkLost(d) \/ SocketStrand(d)
            PROVE  FALSE
        BY <4>6, <4>8 DEF EraseService, ForgetName, RunServerTask, LinkLost, SocketStrand,
                          HandleMessage, DirectorySeesLoss, clients
      <4>9. ASSUME Subscribed \/ Asked \/ OnServiceAdded \/ Unsubscribe PROVE FALSE
        BY <4>6, <4>9 DEF Subscribed, Asked, OnServiceAdded, Unsubscribe, clients
      <4> QED
        BY <4>1, <4>2, <4>4, <4>7, <4>8, <4>9 DEF NNext, RegisterStep
    <3>2. <<"add", i>> \in {"add", "remove"} \X Ids
      BY <3>1
    <3>3. \A e \in Clients : Queued(e)' = Queued(e) \cup {x \in {<<"add", i>>} : e = c}
      BY <1>0, <3>1, <3>2, TaskPosted
    <3>4. <<"add", i>> \in Queued(c)'
      BY <3>3
    <3>5. <<i, n>> \in services'[c]
      BY <1>0, <3>1 DEF HostTypes
    <3>6. Hosted(c, i)'
      BY <3>4, <3>5 DEF Hosted
    <3> QED
      BY <2>1, <3>6 DEF Hosted
  <2> QED
    BY <2>2, <2>3
<1>2. ASSUME NEW c \in Clients, NEW m \in Sent(c)', m.op = "ready", m.id \notin asked'
      PROVE  Hosted(c, m.id)'
  <2>1. CASE m \in Sent(c)
    <3>1. Hosted(c, m.id) /\ m.id \in Ids /\ m.id \notin asked
      BY <1>0, <1>2, <2>1, GivenIsId DEF NInv, HostedFirst, MessagesTrue, GivenTo
    <3> QED
      BY <3>1, HostedLasts
  <2>2. CASE m \notin Sent(c)
    <3>1. PICK n \in ServiceNames : request[c][n].st = "stored" /\ request[c][n].id = m.id
      BY <1>2, <2>2, WhatIsSent
    <3>2. Hosted(c, m.id) /\ m.id \in Ids /\ m.id \notin asked
      BY <1>0, <1>2, <3>1, GivenIsId DEF NInv, HostedFirst, RequestsTrue, GivenTo
    <3> QED
      BY <3>2, HostedLasts
  <2> QED
    BY <2>1, <2>2
<1>3. ASSUME NEW i \in Given', i \in announced', i \notin asked'
      PROVE  \E c \in Clients : info'[i].sessionId = c /\ Hosted(c, i)'
  <2>1. CASE i \in announced
    <3>1. i \in Given
      <4>1. i \in Ids /\ ~(i > servicesCount) /\ servicesCount \in Nat
        BY <2>1 DEF NInv, IInv, TypeOK, Fresh
      <4>2. i \in Nat /\ i >= 2
        BY GivenLasts DEF Given
      <4> QED
        BY <4>1, <4>2 DEF Given
    <3>2. PICK c \in Clients : c = info[i].sessionId
      BY <3>1 DEF NInv, GivenStays
    <3>3. Hosted(c, i) /\ i \in Ids /\ i \notin asked
      BY <1>0, <1>3, <2>1, <3>1, <3>2, GivenIsId DEF NInv, HostedFirst
    <3>4. info'[i].sessionId = c
      BY <3>1, <3>2, GivenLasts
    <3> QED
      BY <3>3, <3>4, HostedLasts
  <2>2. CASE i \notin announced
    <3>1. ASSUME NEW d \in Clients, DirectorySeesLoss(d) PROVE announced' = announced
      BY <3>1 DEF DirectorySeesLoss, SocketDisconnected, RemoveClientSocket, Unregister
    <3>2. UNCHANGED vars => announced' = announced
      BY DEF vars, maps
    <3>3. PICK c \in Clients : HandleMessage(c)
      BY <1>3, <2>2, <3>1, <3>2, OthersLeaveIt DEF SocketStrand
    <3>4. PICK m : m = Head(toSD[c])
      OBVIOUS
    <3>5. m \in Sent(c)
      BY <1>0, <3>3, <3>4, TailTakes DEF HandleMessage
    <3>6. HandleRegister(c, m) \/ HandleReady(c, m) \/ HandleUnregister(c, m)
      BY <3>3, <3>4 DEF HandleMessage
    <3>7. m.op = "ready" /\ m.id = i /\ UNCHANGED <<info, asked>>
      <4>1. ~HandleRegister(c, m)
        BY <1>3, <2>2 DEF HandleRegister, RegisterService, maps
      <4>2. ~HandleUnregister(c, m)
        BY <1>3, <2>2 DEF HandleUnregister, UnregisterService, Unregister, maps
      <4>3. HandleReady(c, m)
        BY <3>6, <4>1, <4>2
      <4> QED
        BY <1>3, <2>2, <3>3, <4>3 DEF HandleReady, ServiceReady, maps, HandleMessage
    <3>8. Hosted(c, i) /\ i \notin asked /\ i \in Ids /\ info[i].sessionId = c
      BY <1>3, <3>5, <3>7, GivenIsId DEF NInv, HostedFirst, MessagesTrue, GivenTo
    <3> QED
      BY <3>7, <3>8, HostedLasts
  <2> QED
    BY <2>1, <2>2
<1>4. \A i \in Given' : i \in announced' \ asked' => Hosted(info[i].sessionId, i)'
  BY <1>3 DEF Hosted
<1> QED
  BY <1>1, <1>2, <1>4 DEF HostedFirst

-----------------------------------------------------------------------------

\* The directory that has just come up, with every client connected to it.
LEMMA NInitInv == NInit => NInv
<1> SUFFICES ASSUME NInit PROVE NInv
  OBVIOUS
<1> USE DirectoryAssumption
<1>0. /\ TheEndpoints \in Endpoints /\ 1 \in Ids /\ Ids \subseteq Nat \ {0}
      /\ DirectoryInfo(TheEndpoints) \in ServiceInfo
      /\ DirectoryInfo(TheEndpoints).name = DirectoryName
  <2>1. TheEndpoints \in Endpoints
    BY DEF TheEndpoints
  <2> QED
    BY <2>1 DEF Ids, DirectoryInfo, ServiceInfo
<1>1. TypeOK
  <2>1. info \in [Ids -> ServiceInfo] /\ nameToIdx \in [Names -> Ids \cup {0}]
    BY <1>0 DEF NInit, Service_ServiceDirectory
  <2>2. /\ socketToIdx \in [Callers -> SUBSET Ids]
        /\ idxToSocket \in [Ids -> Callers \cup {NoSocket}]
    BY DEF NInit, Callers
  <2>3. /\ pendingServices \subseteq Ids /\ connectedServices \subseteq Ids
        /\ regid \in Ids \cup {0} /\ announced \subseteq Ids /\ withdrawn \subseteq Ids
    BY <1>0 DEF NInit, Service_ServiceDirectory
  <2>4. servicesCount \in 0 .. MaxServices /\ socketState \in [Sockets -> {"new", "bound", "gone"}]
    BY DEF NInit
  <2>5. start \in {"listening", "registered", "done", "failed"}
    BY DEF NInit
  <2> QED
    BY <2>1, <2>2, <2>3, <2>4, <2>5 DEF TypeOK
<1>2. Registered = {1} /\ servicesCount = 1
  BY DEF NInit, Registered, Service_ServiceDirectory
<1>3. Fresh
  BY <1>0, <1>2 DEF NInit, Fresh, Service_ServiceDirectory
<1>4. MirrorExact /\ OwnId
  BY DEF NInit, MirrorExact, OwnId, Service_ServiceDirectory
<1>5. NamesExact
  BY <1>0, <1>2 DEF NInit, NamesExact, Service_ServiceDirectory
<1>6. OwnEntry /\ Owned
  BY <1>0, <1>2 DEF NInit, OwnEntry, Owned, Service_ServiceDirectory
<1>7. SocketsHandedOutLive
  BY DEF NInit, SocketsHandedOutLive
<1>8. IInv
  BY <1>1, <1>3, <1>4, <1>5, <1>6, <1>7 DEF IInv
<1>9. NTypeOK
  <2>1. "idle" \in RequestStates /\ <<>> \in Seq(Requests) /\ <<>> \in Seq({"add", "remove"} \X Ids)
    BY DEF RequestStates
  <2>2. CallTypes
    <3>1. [st |-> "idle", id |-> 0] \in Calls
      BY <2>1 DEF Calls
    <3> QED
      BY <2>1, <3>1 DEF NInit, CallTypes
  <2>3. HostTypes
    BY <2>1 DEF NInit, HostTypes
  <2>4. WaiterTypes
    BY DEF NInit, WaiterTypes
  <2> QED
    BY <1>1, <2>2, <2>3, <2>4, TypeParts
<1>10. FirstIsOwn /\ UpIsBound
  BY <1>0 DEF NInit, FirstIsOwn, UpIsBound, Service_ServiceDirectory, Clients
<1>11. Given = {}
  BY <1>2 DEF Given
<1>12. GivenStays
  BY <1>11 DEF GivenStays
<1>13. \A c \in Clients : Sent(c) = {} /\ Queued(c) = {} /\ replies[c] = {} /\ unregister[c] = {}
  <2>1. ASSUME NEW c \in Clients PROVE toSD[c] = << >> /\ tasks[c] = << >>
    BY DEF NInit
  <2> QED
    BY <2>1 DEF NInit, Sent, Queued
<1>14. \A c \in Clients, n \in ServiceNames : request[c][n].st = "idle"
  BY DEF NInit
<1>15. MessagesTrue /\ RemovedIsAsked
  BY <1>13 DEF MessagesTrue, RemovedIsAsked
<1>16. RequestsTrue
  BY <1>14 DEF RequestsTrue
<1>17. HostedFirst
  BY <1>11, <1>13, <1>14 DEF HostedFirst
<1> QED
  BY <1>8, <1>9, <1>10, <1>12, <1>15, <1>16, <1>17 DEF NInv

\* Every step of the composition preserves the invariant.
LEMMA NNextInv == NInv /\ [NNext]_allVars => NInv'
<1>1. ASSUME NInv, NNext PROVE NInv'
  <2>1. IInv'
    BY <1>1, StepsAreDirectorySteps, NextInv DEF NInv
  <2>2. NTypeOK'
    <3>1. TypeOK' /\ CallTypes' /\ HostTypes' /\ WaiterTypes'
      BY <1>1, <2>1, ClientTypesKept, WaiterTypesKept DEF IInv
    <3> QED
      BY <3>1 DEF NTypeOK, CallTypes, Calls, HostTypes, WaiterTypes
  <2>3. FirstIsOwn' /\ UpIsBound' /\ GivenStays'
    BY <1>1, UpKept, GivenKept
  <2>4. MessagesTrue' /\ RequestsTrue' /\ RemovedIsAsked' /\ HostedFirst'
    BY <1>1, MessagesKept, RequestsKept, RemovedKept, HostedKept
  <2> QED
    BY <2>1, <2>2, <2>3, <2>4 DEF NInv
<1>2. ASSUME NInv, UNCHANGED allVars PROVE NInv'
  <2>1. UNCHANGED <<vars, clients, waiting>>
    BY <1>2 DEF allVars, directory
  <2>2. IInv'
    BY <1>2, <2>1, NextInv DEF NInv
  <2>3. /\ UNCHANGED <<pendingServices, connectedServices, info, idxToSocket, servicesCount>>
        /\ UNCHANGED <<socketState, start, regid, announced>>
        /\ UNCHANGED <<link, toSD, replies, request, services, nameIndex, tasks, bound>>
        /\ UNCHANGED <<unregister, asked, waiter, subscribed, events>>
    BY <2>1 DEF vars, maps, clients, waiting
  <2>4. TypeOK'
    BY <2>2 DEF IInv
  <2>5. NTypeOK'
    BY <1>2, <2>3, <2>4 DEF NInv, NTypeOK
  <2>6. FirstIsOwn' /\ UpIsBound' /\ GivenStays'
    BY <1>2, <2>3 DEF NInv, FirstIsOwn, UpIsBound, GivenStays, Given, Registered
  <2>7. MessagesTrue' /\ RequestsTrue' /\ RemovedIsAsked'
    BY <1>2, <2>3 DEF NInv, MessagesTrue, RequestsTrue, RemovedIsAsked, Sent, Queued, GivenTo, Given
  <2>8. HostedFirst'
    <3>1. /\ Given' = Given
          /\ \A c \in Clients : Sent(c)' = Sent(c) /\ Queued(c)' = Queued(c)
      BY <2>3 DEF Given, Sent, Queued
    <3>2. HostedFirst
      BY <1>2 DEF NInv
    <3>3. \A c, i : Hosted(c, i)' <=> Hosted(c, i)
      BY <2>3 DEF Hosted, Queued
    <3>4. \A c \in Clients, n \in ServiceNames :
            request'[c][n].st = "stored" /\ request'[c][n].id \notin asked'
              => Hosted(c, request[c][n].id)'
      BY <2>3, <3>2, <3>3 DEF HostedFirst, Hosted, Queued
    <3>5. \A c \in Clients : \A m \in Sent(c)' :
            m.op = "ready" /\ m.id \notin asked' => Hosted(c, m.id)'
      BY <2>3, <3>1, <3>2, <3>3 DEF HostedFirst
    <3>6. \A i \in Given' : i \in announced' \ asked' => Hosted(info[i].sessionId, i)'
      BY <2>3, <3>1, <3>2, <3>3, ZenonT(60) DEF HostedFirst, Hosted, Queued
    <3> QED
      BY <3>4, <3>5, <3>6 DEF HostedFirst
  <2> QED
    BY <2>2, <2>5, <2>6, <2>7, <2>8 DEF NInv
<1> QED
  BY <1>1, <1>2

\* The inductive invariant holds in every reachable state of the composition.
THEOREM NamingInvariant == NSpec => []NInv
  BY NInitInv, NNextInv, PTL DEF NSpec

\* Every variable of the clients, their servers and the waiting session keeps its type,
\* and the directory's do among them.
THEOREM NamingTypes == NSpec => []NTypeOK
<1>1. NInv => NTypeOK
  BY DEF NInv
<1> QED
  BY <1>1, NamingInvariant, PTL

\* Whatever the registrars, their links and the waiting session do, what the directory sees
\* is a behaviour of ServiceDirectory: its calls come from bound sockets, a registrar reports
\* ready only ids that it was given, and nothing of a socket follows removeClientSocket.
THEOREM NamingIsDirectory == NSpec => [][Next]_vars
<1>1. NInv /\ [NNext]_allVars => [Next]_vars
  <2>1. UNCHANGED allVars => UNCHANGED vars
    BY DEF allVars, directory
  <2> QED
    BY <2>1, StepsAreDirectorySteps
<1> QED
  BY <1>1, NamingInvariant, PTL DEF NSpec

\* So the index of names stays exact among registrars as well, and every service belongs to
\* a client that is there (nameToIdx, socketToIdx; removeClientSocket).
THEOREM NamingOwners == NSpec => [](NamesExact /\ OwnersAlive)
<1>1. NInv => NamesExact /\ OwnersAlive
  BY OwnersFromInv DEF NInv, IInv
<1> QED
  BY <1>1, NamingInvariant, PTL

\* The future of registerService holds the id of a service that the directory announces
\* under that name, as long as the client is there and has not unregistered it
\* (ObjectRegistrar::onFutureFinished and serviceReady).
THEOREM AcceptedCorrect == NSpec => []AcceptedIsConnected
<1>1. ASSUME NInv, NEW c \in Clients, NEW n \in ServiceNames, NEW i,
             request[c][n].st = "ok", i = request[c][n].id, i \notin asked, link[c] = "up"
      PROVE  Offered(c, i) /\ nameToIdx[n] = i
  <2>1. i \in Given /\ info[i].sessionId = c /\ info[i].name = n /\ i \in announced
    BY <1>1 DEF NInv, RequestsTrue, GivenTo
  <2>2. socketState[c] = "bound"
    BY <1>1 DEF NInv, UpIsBound
  <2>3. idxToSocket[i] = c /\ i \in Registered
    BY <1>1, <2>1, <2>2 DEF NInv, GivenStays
  <2>4. i \in connectedServices
    BY <1>1, <2>1, <2>3 DEF NInv, IInv, MirrorExact, Registered
  <2>5. nameToIdx[info[i].name] = i
    BY <1>1, <2>3 DEF NInv, IInv, FirstIsOwn, NamesExact, DirectoryIsOne
  <2> QED
    BY <1>1, <2>1, <2>3, <2>4, <2>5 DEF Offered
<1>2. NInv => AcceptedIsConnected
  BY <1>1 DEF AcceptedIsConnected
<1> QED
  BY <1>2, NamingInvariant, PTL

\* A service that the directory announces is in its registrar's _services, and its server
\* has the object or a task that adds it: onFutureFinished stores the service and gives it
\* to the server before it calls serviceReady.
THEOREM HostedCorrect == NSpec => []OfferedIsHosted
<1>1. ASSUME NInv, NEW c \in Clients, NEW i \in Ids, Offered(c, i)
      PROVE  /\ \E n \in ServiceNames : <<i, n>> \in services[c]
             /\ i \in bound[c] \/ \E k \in 1 .. Len(tasks[c]) : tasks[c][k] = <<"add", i>>
  <2>1. i \in connectedServices /\ i \notin asked /\ idxToSocket[i] = c
    BY <1>1 DEF Offered
  <2>2. i \in announced
    BY <1>1, <2>1 DEF NInv, IInv, MirrorExact
  <2>3. i # 1
    BY <1>1, <2>1, DirectoryAssumption DEF NInv, FirstIsOwn, Service_ServiceDirectory, Clients
  <2>4. i \in Given
    <3>1. servicesCount \in Nat /\ ~(i > servicesCount) /\ i \in Nat /\ i >= 1
      BY <1>1, <2>2, DirectoryAssumption DEF NInv, IInv, TypeOK, Fresh, Ids
    <3> QED
      BY <2>3, <3>1 DEF Given
  <2>5. info[i].sessionId = c
    BY <1>1, <2>1, <2>4, DirectoryAssumption DEF NInv, GivenStays, Clients
  <2>6. Hosted(c, i)
    BY <1>1, <2>1, <2>2, <2>4, <2>5 DEF NInv, HostedFirst
  <2>7. DOMAIN tasks[c] = 1 .. Len(tasks[c])
    BY <1>1 DEF NInv, NTypeOK
  <2> QED
    BY <2>6, <2>7 DEF Hosted, Queued
<1>2. NInv => OfferedIsHosted
  BY <1>1 DEF OfferedIsHosted
<1> QED
  BY <1>2, NamingInvariant, PTL
=============================================================================
