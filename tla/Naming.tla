------------------------------- MODULE Naming -------------------------------
(***************************************************************************)
(* Registering a service and waiting for one: the ObjectRegistrar of each  *)
(* client session (src/messaging/objectregistrar.cpp), the service         *)
(* directory they talk to, and a session in Session::waitForService        *)
(* (src/messaging/session.cpp).                                            *)
(*                                                                         *)
(* A client's requests reach the directory in the order they were sent.    *)
(* The callbacks of their answers are posted to the event loop, so they    *)
(* run in any order.  A registrar's server adds and removes objects in a   *)
(* strand of its own.  A link may be lost at any time; what the directory  *)
(* had not received by then is lost with it.                               *)
(***************************************************************************)
EXTENDS ServiceDirectory, Sequences

CONSTANTS
  WaitedName,   \* the name waitForService waits for
  Unreliable    \* the clients whose link may be lost

ASSUME NamingAssumption == WaitedName \in Names /\ Unreliable \subseteq Sockets

VARIABLES
  link,       \* client -> is its socket to the directory "up" or "down"?
  toSD,       \* client -> requests on their way to the directory
  replies,    \* client -> answers whose callback has not run
  request,    \* client, name -> its registerService call
  services,   \* client -> _services, as <<id, name>>
  nameIndex,  \* client -> _serviceNameToIndex, 0 when there is no entry
  tasks,      \* client -> the strand of its server
  bound,      \* client -> ids of _boundObjects of its server
  unregister, \* client -> its unregisterService calls in progress
  asked,      \* ids for which unregisterService was called
  waiter,     \* the waitForService call
  subscribed, \* has the directory registered the waiter's subscription?
  events      \* serviceAdded events on their way to the waiter, as names

directory == vars
clients == <<link, toSD, replies, request, services, nameIndex, tasks, bound,
             unregister, asked>>
waiting == <<waiter, subscribed, events>>
allVars == <<directory, clients, waiting>>

Clients == Sockets
ServiceNames == Names \ {DirectoryName}
TheEndpoints == CHOOSE e \in Endpoints : TRUE

\* The call of registerService(name): idle; sent to the directory; its service
\* stored with the id received; acknowledged with serviceReady; over.
RequestStates == {"idle", "sent", "stored", "acked", "ok", "failed"}

Requests ==
  [op : {"register"}, name : ServiceNames] \cup [op : {"ready", "unregister"}, id : Ids]

Replies ==
  [op : {"register"}, name : ServiceNames, id : Ids \cup {0}]
    \cup [op : {"ready"}, id : Ids, ok : BOOLEAN]

NTypeOK ==
  /\ TypeOK
  /\ link \in [Clients -> {"up", "down"}]
  /\ toSD \in [Clients -> Seq(Requests)]
  /\ replies \in [Clients -> SUBSET Replies]
  /\ request \in [Clients -> [ServiceNames -> [st : RequestStates, id : Ids \cup {0}]]]
  /\ services \in [Clients -> SUBSET (Ids \X ServiceNames)]
  /\ nameIndex \in [Clients -> [ServiceNames -> Ids \cup {0}]]
  /\ tasks \in [Clients -> Seq({"add", "remove"} \X Ids)]
  /\ bound \in [Clients -> SUBSET Ids]
  /\ unregister \in [Clients -> SUBSET [id : Ids, name : ServiceNames \cup {DirectoryName},
                                          st : {"erase", "forget"}]]
  /\ asked \subseteq Ids
  /\ waiter \in {"connecting", "asking", "absent", "done"}
  /\ subscribed \in BOOLEAN
  /\ events \subseteq Names

\* The directory is up, with itself as #1, and every client is connected to it.
NInit ==
  /\ pendingServices = {}
  /\ connectedServices = {Service_ServiceDirectory}
  /\ info = [i \in Ids |-> DirectoryInfo(TheEndpoints)]
  /\ nameToIdx = [n \in Names |-> IF n = DirectoryName THEN Service_ServiceDirectory ELSE 0]
  /\ socketToIdx = [c \in Callers |-> {}]
  /\ idxToSocket = [i \in Ids |-> IF i = Service_ServiceDirectory THEN NullSocket ELSE NoSocket]
  /\ servicesCount = 1
  /\ socketState = [s \in Sockets |-> "bound"]
  /\ start = "done"
  /\ regid = Service_ServiceDirectory
  /\ announced = {Service_ServiceDirectory}
  /\ withdrawn = {}
  /\ link = [c \in Clients |-> "up"]
  /\ toSD = [c \in Clients |-> <<>>]
  /\ replies = [c \in Clients |-> {}]
  /\ request = [c \in Clients |-> [n \in ServiceNames |-> [st |-> "idle", id |-> 0]]]
  /\ services = [c \in Clients |-> {}]
  /\ nameIndex = [c \in Clients |-> [n \in ServiceNames |-> 0]]
  /\ tasks = [c \in Clients |-> <<>>]
  /\ bound = [c \in Clients |-> {}]
  /\ unregister = [c \in Clients |-> {}]
  /\ asked = {}
  /\ waiter = "connecting"
  /\ subscribed = FALSE
  /\ events = {}

-----------------------------------------------------------------------------
(* The registrar.                                                          *)

Send(c, m) ==
  toSD' = IF link[c] = "up" THEN [toSD EXCEPT ![c] = Append(@, m)] ELSE toSD

-----------------------------------------------------------------------------
(* Plausible mistakes; no action below uses them.                          *)

\* A lost link fails the registration only, not the acknowledgement.
FailSentOnly(c, n) ==
  /\ link[c] = "down"
  /\ request[c][n].st = "sent"
  /\ \A r \in replies[c] : r.op = "register" => r.name # n
  /\ request' = [request EXCEPT ![c][n].st = "failed"]
  /\ UNCHANGED <<directory, link, toSD, replies, services, nameIndex, tasks, bound,
                 unregister, asked, waiting>>

\* removeClientSocket not called for a lost link.
LossUnnoticed(c) ==
  /\ link[c] = "down"
  /\ toSD[c] = <<>>
  /\ socketState[c] = "bound"
  /\ socketState' = [socketState EXCEPT ![c] = "gone"]
  /\ UNCHANGED <<maps, start, regid, clients, waiting>>

\* waitForService asking although the subscription is not registered yet.
SubscribeLost ==
  /\ waiter = "connecting"
  /\ waiter' = "asking"
  /\ UNCHANGED <<directory, clients, subscribed, events>>

-----------------------------------------------------------------------------
\* The registrations on their way to the directory.
Outstanding ==
  UNION {{c} \X {k \in DOMAIN toSD[c] : toSD[c][k].op = "register"} : c \in Clients}

\* ObjectRegistrar::registerService.  One call at a time per client and name, and
\* none that could be given an id above MaxServices.
CallRegister(c, n) ==
  /\ link[c] = "up"
  /\ request[c][n].st \in {"idle", "failed"} \/ request[c][n].id \in asked
  /\ servicesCount + Cardinality(Outstanding) < MaxServices
  /\ request' = [request EXCEPT ![c][n] = [st |-> "sent", id |-> 0]]
  /\ Send(c, [op |-> "register", name |-> n])
  /\ UNCHANGED <<directory, link, replies, services, nameIndex, tasks, bound,
                 unregister, asked, waiting>>

\* onFutureFinished up to the unlock of _servicesMutex: an error ends the call;
\* an id is stored, and its object given to the server's strand.
StoreService(c) ==
  \E r \in replies[c] :
    /\ r.op = "register"
    /\ request[c][r.name].st = "sent"
    /\ replies' = [replies EXCEPT ![c] = @ \ {r}]
    /\ IF r.id = 0
         THEN /\ request' = [request EXCEPT ![c][r.name].st = "failed"]
              /\ UNCHANGED <<services, tasks>>
         ELSE /\ request' = [request EXCEPT ![c][r.name] = [st |-> "stored", id |-> r.id]]
              /\ services' = [services EXCEPT ![c] = @ \cup {<<r.id, r.name>>}]
              /\ tasks' = [tasks EXCEPT ![c] = Append(@, <<"add", r.id>>)]
    /\ UNCHANGED <<directory, link, toSD, nameIndex, bound, unregister, asked, waiting>>

\* The rest of onFutureFinished: index the name, then acknowledge.
AckService(c, n) ==
  /\ request[c][n].st = "stored"
  /\ request' = [request EXCEPT ![c][n].st = "acked"]
  /\ nameIndex' = [nameIndex EXCEPT ![c][n] = request[c][n].id]
  /\ Send(c, [op |-> "ready", id |-> request[c][n].id])
  /\ UNCHANGED <<directory, link, replies, services, tasks, bound, unregister,
                 asked, waiting>>

\* serviceReady(fut, result, idx): the call's promise is set.
FinishRegister(c) ==
  \E r \in replies[c], n \in ServiceNames :
    /\ r.op = "ready"
    /\ request[c][n] = [st |-> "acked", id |-> r.id]
    /\ replies' = [replies EXCEPT ![c] = @ \ {r}]
    /\ request' = [request EXCEPT ![c][n].st = IF r.ok THEN "ok" ELSE "failed"]
    /\ UNCHANGED <<directory, link, toSD, services, nameIndex, tasks, bound,
                   unregister, asked, waiting>>

\* A lost link fails the calls that have no answer yet.
FailRequest(c, n) ==
  /\ link[c] = "down"
  /\ request[c][n].st \in {"sent", "acked"}
  /\ \A r \in replies[c] : IF r.op = "register" THEN r.name # n
                                                ELSE r.id # request[c][n].id
  /\ request' = [request EXCEPT ![c][n].st = "failed"]
  /\ UNCHANGED <<directory, link, toSD, replies, services, nameIndex, tasks, bound,
                 unregister, asked, waiting>>

\* ObjectRegistrar::unregisterService of a service whose registration succeeded:
\* first the request to the directory...
CallUnregister(c, n) ==
  /\ link[c] = "up"
  /\ request[c][n].st = "ok"
  /\ request[c][n].id \notin asked
  /\ asked' = asked \cup {request[c][n].id}
  /\ unregister' = [unregister EXCEPT ![c] =
       @ \cup {[id |-> request[c][n].id, name |-> DirectoryName, st |-> "erase"]}]
  /\ Send(c, [op |-> "unregister", id |-> request[c][n].id])
  /\ UNCHANGED <<directory, link, replies, request, services, nameIndex, tasks,
                 bound, waiting>>

\* ... then the entry of _services, and the object of the server...
EraseService(c) ==
  \E u \in unregister[c], s \in services[c] :
    /\ u.st = "erase"
    /\ s[1] = u.id
    /\ services' = [services EXCEPT ![c] = @ \ {s}]
    /\ tasks' = [tasks EXCEPT ![c] = Append(@, <<"remove", u.id>>)]
    /\ unregister' = [unregister EXCEPT ![c] =
         (@ \ {u}) \cup {[id |-> u.id, name |-> s[2], st |-> "forget"]}]
    /\ UNCHANGED <<directory, link, toSD, replies, request, nameIndex, bound, asked,
                   waiting>>

\* ... then the entry of the name, whatever id it holds by now.
ForgetName(c) ==
  \E u \in unregister[c] :
    /\ u.st = "forget"
    /\ nameIndex' = [nameIndex EXCEPT ![c][u.name] = 0]
    /\ unregister' = [unregister EXCEPT ![c] = @ \ {u}]
    /\ UNCHANGED <<directory, link, toSD, replies, request, services, tasks, bound,
                   asked, waiting>>

\* The server's strand: BoundObjectSocketBinder::addObject and removeObject.
RunServerTask(c) ==
  /\ tasks[c] # <<>>
  /\ LET t == Head(tasks[c]) IN
       bound' = [bound EXCEPT ![c] = IF t[1] = "add" THEN @ \cup {t[2]} ELSE @ \ {t[2]}]
  /\ tasks' = [tasks EXCEPT ![c] = Tail(@)]
  /\ UNCHANGED <<directory, link, toSD, replies, request, services, nameIndex,
                 unregister, asked, waiting>>

-----------------------------------------------------------------------------
(* The directory's side.                                                   *)

Reply(c, r) ==
  replies' = IF link[c] = "up" THEN [replies EXCEPT ![c] = @ \cup {r}] ELSE replies

HandleRegister(c, m) ==
  /\ m.op = "register"
  /\ \/ /\ RegisterService(c, [name |-> m.name, sessionId |-> c,
                               endpoints |-> TheEndpoints])
        /\ Reply(c, [op |-> "register", name |-> m.name, id |-> servicesCount'])
     \/ /\ nameToIdx[m.name] # 0
        /\ Reply(c, [op |-> "register", name |-> m.name, id |-> 0])
        /\ UNCHANGED maps
  /\ UNCHANGED events

\* serviceReady emits serviceAdded to the subscribers of the moment.
HandleReady(c, m) ==
  /\ m.op = "ready"
  /\ \/ /\ ServiceReady(m.id)
        /\ Reply(c, [op |-> "ready", id |-> m.id, ok |-> TRUE])
        /\ events' = IF subscribed THEN events \cup {info[m.id].name} ELSE events
     \/ /\ m.id \notin pendingServices
        /\ Reply(c, [op |-> "ready", id |-> m.id, ok |-> FALSE])
        /\ UNCHANGED <<maps, events>>

\* The answer of unregisterService goes to the caller, and no further.
HandleUnregister(c, m) ==
  /\ m.op = "unregister"
  /\ \/ UnregisterService(m.id)
     \/ ~CanUnregister(m.id) /\ UNCHANGED maps
  /\ UNCHANGED <<replies, events>>

HandleMessage(c) ==
  /\ socketState[c] = "bound"
  /\ toSD[c] # <<>>
  /\ LET m == Head(toSD[c]) IN
       HandleRegister(c, m) \/ HandleReady(c, m) \/ HandleUnregister(c, m)
  /\ toSD' = [toSD EXCEPT ![c] = Tail(@)]
  /\ UNCHANGED <<socketState, start, regid, link, request, services, nameIndex, tasks,
                 bound, unregister, asked, waiter, subscribed>>

\* The link is lost: the directory had received the first k requests.
LinkLost(c) ==
  /\ c \in Unreliable
  /\ link[c] = "up"
  /\ link' = [link EXCEPT ![c] = "down"]
  /\ \E k \in 0 .. Len(toSD[c]) : toSD' = [toSD EXCEPT ![c] = SubSeq(@, 1, k)]
  /\ UNCHANGED <<directory, replies, request, services, nameIndex, tasks, bound,
                 unregister, asked, waiting>>

\* The `disconnected` signal follows the last request in the socket's strand.
DirectorySeesLoss(c) ==
  /\ link[c] = "down"
  /\ toSD[c] = <<>>
  /\ SocketDisconnected(c)
  /\ UNCHANGED <<clients, waiting>>

-----------------------------------------------------------------------------
(* Session::waitForService(WaitedName): subscribe to serviceAdded, and only *)
(* then ask.  The call is under way from the start.                        *)

\* The directory registers the subscription, and the answer comes back.
Subscribed ==
  /\ waiter = "connecting"
  /\ waiter' = "asking"
  /\ subscribed' = TRUE
  /\ UNCHANGED <<directory, clients, events>>

\* The directory answers service(name): a value sets the promise, an error does
\* nothing.
Asked ==
  /\ waiter = "asking"
  /\ waiter' = IF nameToIdx[WaitedName] \in connectedServices THEN "done" ELSE "absent"
  /\ UNCHANGED <<directory, clients, subscribed, events>>

\* onServiceAdded: sets the promise, whatever else is going on.
OnServiceAdded ==
  \E n \in events :
    /\ events' = events \ {n}
    /\ waiter' = IF n = WaitedName THEN "done" ELSE waiter
    /\ UNCHANGED <<directory, clients, subscribed>>

\* The clean-up once the promise is set: serviceAdded.disconnectAsync.
Unsubscribe ==
  /\ waiter = "done"
  /\ subscribed
  /\ subscribed' = FALSE
  /\ events' = {}
  /\ UNCHANGED <<directory, clients, waiter>>

-----------------------------------------------------------------------------
\* The callbacks of a registrar's registrations.
RegisterStep(c) ==
  \/ StoreService(c)
  \/ FinishRegister(c)
  \/ \E n \in ServiceNames : AckService(c, n) \/ FailRequest(c, n)

\* The strand of a client's socket at the directory's end.
SocketStrand(c) == HandleMessage(c) \/ DirectorySeesLoss(c)

NNext ==
  \/ \E c \in Clients, n \in ServiceNames : CallRegister(c, n)
  \/ \E c \in Clients, n \in ServiceNames : CallUnregister(c, n)
  \/ \E c \in Clients : RegisterStep(c)
  \/ \E c \in Clients : EraseService(c)
  \/ \E c \in Clients : ForgetName(c)
  \/ \E c \in Clients : RunServerTask(c)
  \/ \E c \in Clients : SocketStrand(c)
  \/ \E c \in Clients : LinkLost(c)
  \/ Subscribed
  \/ Asked
  \/ OnServiceAdded
  \/ Unsubscribe

\* Callbacks, strands and sockets make progress: the event loop runs what is
\* posted to it.  Nobody has to call anything, and no link has to be lost.  Only
\* the steps the liveness properties rest on are fair.
NSpec ==
  /\ NInit /\ [][NNext]_allVars
  /\ \A c \in Clients : WF_allVars(RegisterStep(c)) /\ WF_allVars(SocketStrand(c))
  /\ WF_allVars(Subscribed)
  /\ WF_allVars(Asked)
  /\ WF_allVars(OnServiceAdded)

-----------------------------------------------------------------------------
(* Properties.                                                             *)

\* The service of a client that is there, announced and not being taken away.
Offered(c, i) ==
  /\ i \in connectedServices \ asked
  /\ idxToSocket[i] = c
  /\ link[c] = "up"

\* registerService returns the id of a service that the directory announces
\* under that name, until somebody unregisters it (onFutureFinished, serviceReady).
AcceptedIsConnected ==
  \A c \in Clients, n \in ServiceNames :
    LET i == request[c][n].id IN
      request[c][n].st = "ok" /\ i \notin asked /\ link[c] = "up"
        => Offered(c, i) /\ nameToIdx[n] = i

\* A service the directory announces is in its registrar's _services, and its
\* server has the object or will have it: the order of onFutureFinished.
OfferedIsHosted ==
  \A c \in Clients, i \in Ids : Offered(c, i) =>
    /\ \E n \in ServiceNames : <<i, n>> \in services[c]
    /\ i \in bound[c] \/ \E k \in 1 .. Len(tasks[c]) : tasks[c][k] = <<"add", i>>

\* "ack the Service directory to tell that we are ready": once the directory
\* announces a service, its server can dispatch a call to it.  The future of
\* Server::addObject is not waited for.
OfferedIsReady ==
  \A c \in Clients, i \in Ids : Offered(c, i) => i \in bound[c]

\* Every registerService call ends, link lost or not.
CallsEnd ==
  \A c \in Clients, n \in ServiceNames :
    request[c][n].st \in {"sent", "stored", "acked"}
      ~> request[c][n].st \in {"ok", "failed"}

\* The services of a client whose link is lost leave the directory.
LostLeave ==
  \A c \in Clients :
    link[c] = "down" ~> \A i \in Registered : info[i].sessionId # c

\* "check if the service is already there *after* connecting to the signal, to
\* avoid a race": waitForService returns if the service comes to stay.
WaitReturns ==
  <>[](nameToIdx[WaitedName] \in connectedServices) => <>(waiter = "done")

=============================================================================
