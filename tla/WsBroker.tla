------------------------------ MODULE WsBroker ------------------------------
(***************************************************************************)
(* The WebSocket broker: many client connections share a few connections   *)
(* to the node, and one upstream subscription serves every client that     *)
(* asked for the same query.                                               *)
(*                                                                         *)
(*   ws_broker.go         Broker              upstreamSubMux, the handlers *)
(*   ws_subscriptions.go  SubscriptionManager paramToID, idToParam,        *)
(*                                            clientSubscriptions          *)
(*   ws_upstream_pool.go  UpstreamPool        subscriptionConn/ID/Param    *)
(*   ws_upstream_*.go     conn managers       subByParam (their interface) *)
(*   ws_jsonrpc_client.go, ws_proxy.go        one goroutine per client     *)
(*                                                                         *)
(* Each client has one goroutine (HandleConnection) that serves its        *)
(* requests one after another, so a client is a process with a pc.  Every  *)
(* SubscriptionManager method takes both of its locks and is one atomic    *)
(* step; the steps of different clients interleave except where            *)
(* upstreamSubMux is held.  A call to the node is one step that succeeds   *)
(* or fails (error or timeout); the goroutine may wait before it.          *)
(***************************************************************************)
EXTENDS Naturals, FiniteSets

CONSTANTS
    Clients,     \* the *JsonRpcWsClient values
    Params,      \* subscription queries
    IDs,         \* upstream subscription ids
    Conns,       \* the pool's upstream connections
    NoID, NoParam, NoConn, Nobody,   \* absent map entries, free mutex
    Eth,         \* TRUE: Eth managers (resetAll on reconnect, unsubscribe by id)
    MaxSending   \* bound on broadcast goroutines that exist at once

ASSUME AbsentAssumption ==
    NoID \notin IDs /\ NoParam \notin Params /\ NoConn \notin Conns /\ Nobody \notin Clients

ASSUME BoundAssumption == Eth \in BOOLEAN /\ MaxSending \in Nat

VARIABLES
    paramToID, idToParam,            \* SubscriptionManager
    clientMaps, clientSubscriptions, \* keys and contents of clientSubscriptions
    subscriptionID, subscriptionParam, subscriptionConn,  \* UpstreamPool
    subByParam,      \* subByParam of each connection manager
    upstreamSubMux,  \* owner of the mutex
    pc, param, subID, todo,  \* program counter and locals of each goroutine
    closeTry,        \* which of the three Close calls is running, 0: none
    onDisconnect,    \* the callback is set
    sending,         \* broadcast goroutines that have not sent yet
    told,            \* ghost: queries the client was told it is subscribed to
    failed,          \* ghost: ids whose upstream unsubscribe failed
    lost             \* ghost: ids an Eth reset has taken from the pool's connection

smVars     == <<paramToID, idToParam, clientMaps, clientSubscriptions>>
poolVars   == <<subscriptionID, subscriptionParam, subscriptionConn, subByParam, lost>>
clientVars == <<param, subID, todo, closeTry, onDisconnect>>
vars == <<smVars, poolVars, upstreamSubMux, pc, clientVars, sending, told, failed>>

Steps == {"idle", "addLock", "addUp", "register", "join",
          "rmCheck", "rmLeave", "rmLock", "rmUp", "rmForget",
          "allLock", "allLeave", "allEmpty", "allUp", "allForget",
          "closeConn", "closed", "gone"}

Notifications == [to : Clients, id : IDs, about : Params]

TypeOK ==
    /\ paramToID \in [Params -> IDs \cup {NoID}]
    /\ idToParam \in [IDs -> Params \cup {NoParam}]
    /\ clientMaps \subseteq IDs
    /\ clientSubscriptions \in [IDs -> SUBSET Clients]
    /\ subscriptionID \in [Params -> IDs \cup {NoID}]
    /\ subscriptionParam \in [IDs -> Params \cup {NoParam}]
    /\ subscriptionConn \in [IDs -> Conns \cup {NoConn}]
    /\ subByParam \in [Conns -> [Params -> IDs \cup {NoID}]]
    /\ upstreamSubMux \in Clients \cup {Nobody}
    /\ pc \in [Clients -> Steps]
    /\ param \in [Clients -> Params \cup {NoParam}]
    /\ subID \in [Clients -> IDs \cup {NoID}]
    /\ todo \in [Clients -> SUBSET IDs]
    /\ closeTry \in [Clients -> 0..3]
    /\ onDisconnect \in [Clients -> BOOLEAN]
    /\ sending \subseteq Notifications
    /\ told \in [Clients -> SUBSET Params]
    /\ failed \subseteq IDs
    /\ lost \subseteq IDs

Init ==
    /\ paramToID = [p \in Params |-> NoID]
    /\ idToParam = [i \in IDs |-> NoParam]
    /\ clientMaps = {}
    /\ clientSubscriptions = [i \in IDs |-> {}]
    /\ subscriptionID = [p \in Params |-> NoID]
    /\ subscriptionParam = [i \in IDs |-> NoParam]
    /\ subscriptionConn = [i \in IDs |-> NoConn]
    /\ subByParam = [k \in Conns |-> [p \in Params |-> NoID]]
    /\ upstreamSubMux = Nobody
    /\ pc = [c \in Clients |-> "idle"]
    /\ param = [c \in Clients |-> NoParam]
    /\ subID = [c \in Clients |-> NoID]
    /\ todo = [c \in Clients |-> {}]
    /\ closeTry = [c \in Clients |-> 0]
    /\ onDisconnect = [c \in Clients |-> FALSE]
    /\ sending = {}
    /\ told = [c \in Clients |-> {}]
    /\ failed = {}
    /\ lost = {}

-----------------------------------------------------------------------------
(* SubscriptionManager.  One operator per method. *)

AddSubscription(p, i) ==
    /\ paramToID' = [paramToID EXCEPT ![p] = i]
    /\ idToParam' = [idToParam EXCEPT ![i] = p]
    /\ clientMaps' = clientMaps \cup {i}
    /\ clientSubscriptions' = [clientSubscriptions EXCEPT ![i] = {}]

\* mutant: the query keeps its id
RemoveKeepsParam(i) ==
    /\ idToParam' = [idToParam EXCEPT ![i] = NoParam]
    /\ clientMaps' = clientMaps \ {i}
    /\ clientSubscriptions' = [clientSubscriptions EXCEPT ![i] = {}]
    /\ UNCHANGED paramToID

RemoveSubscription(i) ==
    /\ paramToID' = [p \in Params |-> IF p = idToParam[i] THEN NoID ELSE paramToID[p]]
    /\ idToParam' = [idToParam EXCEPT ![i] = NoParam]
    /\ clientMaps' = clientMaps \ {i}
    /\ clientSubscriptions' = [clientSubscriptions EXCEPT ![i] = {}]

\* len of a missing map is 0
SubscriptionEmpty(i) == clientSubscriptions[i] = {}

SubscribeClient(i, c) ==
    /\ clientSubscriptions' = [clientSubscriptions EXCEPT ![i] = @ \cup {c}]
    /\ UNCHANGED <<paramToID, idToParam, clientMaps>>

UnsubscribeClient(i, c) ==
    /\ clientSubscriptions' = [clientSubscriptions EXCEPT ![i] = @ \ {c}]
    /\ UNCHANGED <<paramToID, idToParam, clientMaps>>

ClientSubscribed(i, c) == c \in clientSubscriptions[i]

\* mutant: only subscriptions the client has for itself
OwnSubscriptions(c) == {i \in clientMaps : clientSubscriptions[i] = {c}}

GetSubscriptions(c) == {i \in clientMaps : c \in clientSubscriptions[i]}

GetSubscriptionClients(i) == clientSubscriptions[i]

-----------------------------------------------------------------------------
(* UpstreamPool and the interface of the connection managers. *)

\* mutant: an id that is in use may be drawn again
AnyIDs == IDs

\* ids the id generator may hand out (Cosmos) or the node may answer (Eth)
FreshIDs == {i \in IDs : /\ subscriptionConn[i] = NoConn
                         /\ \A k \in Conns, p \in Params : subByParam[k][p] # i}

HasSubscription(k, p) == subByParam[k][p] # NoID

\* mutant: an error of the connection is not returned
ErrorIgnored(p) ==
    {[ok |-> TRUE, id |-> NoID, conn |-> NoConn]}
    \cup {[ok |-> TRUE, id |-> i, conn |-> k] : i \in FreshIDs, k \in Conns}

\* What pool.Subscribe may answer.  Round robin picks the connection, and
\* requests of other clients advance it between two subscriptions: any of them.
SubscribeAnswers(p) ==
    IF subscriptionID[p] # NoID
    THEN {[ok |-> TRUE, id |-> subscriptionID[p], conn |-> subscriptionConn[subscriptionID[p]]]}
    ELSE {[ok |-> FALSE, id |-> NoID, conn |-> NoConn]}
         \cup {[ok |-> TRUE, id |-> i, conn |-> k] :
                   i \in FreshIDs, k \in {k \in Conns : ~HasSubscription(k, p)}}

PoolSubscribed(p, i, k) ==
    /\ subscriptionID' = [subscriptionID EXCEPT ![p] = i]
    /\ subscriptionParam' = [subscriptionParam EXCEPT ![i] = p]
    /\ subscriptionConn' = [subscriptionConn EXCEPT ![i] = k]
    /\ subByParam' = [subByParam EXCEPT ![k][p] = i]
    /\ lost' = lost \ {i}

\* mutant: the connection keeps the subscription
ConnKeepsID(i) ==
    /\ subscriptionConn[i] # NoConn
    /\ subscriptionConn' = [subscriptionConn EXCEPT ![i] = NoConn]
    /\ subscriptionID' = [p \in Params |->
                             IF p = subscriptionParam[i] THEN NoID ELSE subscriptionID[p]]
    /\ subscriptionParam' = [subscriptionParam EXCEPT ![i] = NoParam]
    /\ failed' = failed \ {i}
    /\ lost' = lost \ {i}
    /\ UNCHANGED subByParam

\* A connection manager deletes its entry for the id, then the pool its own.
PoolUnsubscribed(i) ==
    /\ subscriptionConn[i] # NoConn
    /\ subByParam' = [subByParam EXCEPT ![subscriptionConn[i]] =
                          [p \in Params |-> IF @[p] = i THEN NoID ELSE @[p]]]
    /\ subscriptionConn' = [subscriptionConn EXCEPT ![i] = NoConn]
    /\ subscriptionID' = [p \in Params |->
                             IF p = subscriptionParam[i] THEN NoID ELSE subscriptionID[p]]
    /\ subscriptionParam' = [subscriptionParam EXCEPT ![i] = NoParam]
    /\ failed' = failed \ {i}
    /\ lost' = lost \ {i}

\* The id is unknown to the pool, or the node refused or did not answer.
PoolUnsubscribeFailed(i) ==
    /\ failed' = IF subscriptionConn[i] = NoConn THEN failed ELSE failed \cup {i}
    /\ UNCHANGED poolVars

-----------------------------------------------------------------------------
(* Steps of a client goroutine. *)

Goto(c, step) == pc' = [pc EXCEPT ![c] = step]

\* mutant: the mutex does not exclude
LockIgnored(c) == upstreamSubMux' = c

Lock(c) == upstreamSubMux = Nobody /\ upstreamSubMux' = c

Unlock(c) == upstreamSubMux' = Nobody

\* mutant: the disconnect callback is not set
BeginWithoutCallback(c, step) ==
    /\ pc[c] = "idle"
    /\ Goto(c, step)
    /\ UNCHANGED <<smVars, poolVars, upstreamSubMux, todo, closeTry, onDisconnect,
                   sending, failed>>

\* HandleSubscription sets the callback before it looks at the method.
Begin(c, step) ==
    /\ pc[c] = "idle"
    /\ Goto(c, step)
    /\ onDisconnect' = [onDisconnect EXCEPT ![c] = TRUE]
    /\ UNCHANGED <<smVars, poolVars, upstreamSubMux, todo, closeTry, sending, failed>>

\* A handler returns to the read loop of HandleConnection; its locals end.
Return(c) ==
    /\ Goto(c, "idle")
    /\ param' = [param EXCEPT ![c] = NoParam]
    /\ subID' = [subID EXCEPT ![c] = NoID]
    /\ todo' = [todo EXCEPT ![c] = {}]
    /\ UNCHANGED <<closeTry, onDisconnect, sending>>

\* Params that are not a query: an error reply and nothing else.
BadParams(c) == Begin(c, "idle") /\ UNCHANGED <<param, subID, told>>

Subscribe(c, p) ==
    /\ Begin(c, "addLock")
    /\ param' = [param EXCEPT ![c] = p]
    /\ UNCHANGED <<subID, told>>

\* addSubscription: lock, then GetSubscriptionID
AddLock(c) ==
    /\ pc[c] = "addLock"
    /\ Lock(c)
    /\ subID' = [subID EXCEPT ![c] = paramToID[param[c]]]
    /\ Goto(c, IF paramToID[param[c]] = NoID THEN "addUp" ELSE "join")
    /\ UNCHANGED <<smVars, poolVars, param, todo, closeTry, onDisconnect, sending, told, failed>>

\* pool.Subscribe succeeds
AddUpstream(c) ==
    /\ pc[c] = "addUp"
    /\ \E a \in SubscribeAnswers(param[c]) :
          /\ a.ok
          /\ PoolSubscribed(param[c], a.id, a.conn)
          /\ subID' = [subID EXCEPT ![c] = a.id]
    /\ Goto(c, "register")
    /\ UNCHANGED <<smVars, upstreamSubMux, param, todo, closeTry, onDisconnect,
                   sending, told, failed>>

\* pool.Subscribe fails: error reply
AddUpstreamFailed(c) ==
    /\ pc[c] = "addUp"
    /\ \E a \in SubscribeAnswers(param[c]) : ~a.ok
    /\ Unlock(c)
    /\ Return(c)
    /\ UNCHANGED <<smVars, poolVars, told, failed>>

AddRegister(c) ==
    /\ pc[c] = "register"
    /\ AddSubscription(param[c], subID[c])
    /\ Goto(c, "join")
    /\ UNCHANGED <<poolVars, upstreamSubMux, clientVars, sending, told, failed>>

\* SubscribeClient, unlock, and the reply that tells the client so
AddJoin(c) ==
    /\ pc[c] = "join"
    /\ SubscribeClient(subID[c], c)
    /\ Unlock(c)
    /\ Return(c)
    /\ told' = [told EXCEPT ![c] = @ \cup {param[c]}]
    /\ UNCHANGED <<poolVars, failed>>

\* unsubscribe by query, GetSubscriptionID: no lock is held
Unsubscribe(c, p) ==
    /\ Begin(c, IF paramToID[p] = NoID THEN "idle" ELSE "rmCheck")
    /\ subID' = [subID EXCEPT ![c] = paramToID[p]]
    /\ told' = [told EXCEPT ![c] = @ \ {p}]
    /\ UNCHANGED param

\* unsubscribe by id (isEthSubscriptionID): the id is taken as it is.  Cosmos
\* ids are decimal, so there a 0x... param ends like an unknown query.
UnsubscribeByID(c, i) ==
    /\ Eth
    /\ Begin(c, "rmCheck")
    /\ subID' = [subID EXCEPT ![c] = i]
    /\ told' = [told EXCEPT ![c] = @ \ {idToParam[i]}]
    /\ UNCHANGED param

RmCheck(c) ==
    /\ pc[c] = "rmCheck"
    /\ ClientSubscribed(subID[c], c)
    /\ Goto(c, "rmLeave")
    /\ UNCHANGED <<smVars, poolVars, upstreamSubMux, clientVars, sending, told, failed>>

\* "subscription does not exist"
RmNotSubscribed(c) ==
    /\ pc[c] = "rmCheck"
    /\ ~ClientSubscribed(subID[c], c)
    /\ Return(c)
    /\ UNCHANGED <<smVars, poolVars, upstreamSubMux, told, failed>>

RmLeave(c) ==
    /\ pc[c] = "rmLeave"
    /\ UnsubscribeClient(subID[c], c)
    /\ Goto(c, "rmLock")
    /\ UNCHANGED <<poolVars, upstreamSubMux, clientVars, sending, told, failed>>

\* lock, SubscriptionEmpty: somebody is left, the deferred unlock runs
RmStillUsed(c) ==
    /\ pc[c] = "rmLock"
    /\ upstreamSubMux = Nobody
    /\ ~SubscriptionEmpty(subID[c])
    /\ Return(c)
    /\ UNCHANGED <<smVars, poolVars, upstreamSubMux, told, failed>>

RmLock(c) ==
    /\ pc[c] = "rmLock"
    /\ SubscriptionEmpty(subID[c])
    /\ Lock(c)
    /\ Goto(c, "rmUp")
    /\ UNCHANGED <<smVars, poolVars, clientVars, sending, told, failed>>

RmUpstream(c) ==
    /\ pc[c] = "rmUp"
    /\ PoolUnsubscribed(subID[c])
    /\ Goto(c, "rmForget")
    /\ UNCHANGED <<smVars, upstreamSubMux, clientVars, sending, told>>

\* mutant: the error is logged and the subscription removed all the same
RmErrorIgnored(c) ==
    /\ pc[c] = "rmUp"
    /\ PoolUnsubscribeFailed(subID[c])
    /\ Goto(c, "rmForget")
    /\ UNCHANGED <<smVars, upstreamSubMux, clientVars, sending, told>>

\* mutant: the early return leaves the mutex locked
RmErrorKeepsLock(c) ==
    /\ pc[c] = "rmUp"
    /\ PoolUnsubscribeFailed(subID[c])
    /\ Return(c)
    /\ UNCHANGED <<smVars, upstreamSubMux, told>>

RmUpstreamFailed(c) ==
    /\ pc[c] = "rmUp"
    /\ PoolUnsubscribeFailed(subID[c])
    /\ Unlock(c)
    /\ Return(c)
    /\ UNCHANGED <<smVars, told>>

RmForget(c) ==
    /\ pc[c] = "rmForget"
    /\ RemoveSubscription(subID[c])
    /\ Unlock(c)
    /\ Return(c)
    /\ UNCHANGED <<poolVars, told, failed>>

UnsubscribeAll(c) ==
    /\ Begin(c, "allLock")
    /\ told' = [told EXCEPT ![c] = {}]
    /\ UNCHANGED <<param, subID>>

\* removeAllSubscriptions: lock, GetSubscriptions
AllLock(c) ==
    /\ pc[c] = "allLock"
    /\ Lock(c)
    /\ todo' = [todo EXCEPT ![c] = GetSubscriptions(c)]
    /\ Goto(c, "allLeave")
    /\ UNCHANGED <<smVars, poolVars, param, subID, closeTry, onDisconnect,
                   sending, told, failed>>

\* the next element of the list, in map order: any
AllLeave(c) ==
    /\ pc[c] = "allLeave"
    /\ \E i \in todo[c] :
          /\ UnsubscribeClient(i, c)
          /\ todo' = [todo EXCEPT ![c] = @ \ {i}]
          /\ subID' = [subID EXCEPT ![c] = i]
    /\ Goto(c, "allEmpty")
    /\ UNCHANGED <<poolVars, upstreamSubMux, param, closeTry, onDisconnect,
                   sending, told, failed>>

\* mutant: the last client leaves and nobody looks
AllNeverEmpty(c) ==
    /\ pc[c] = "allEmpty"
    /\ Goto(c, "allLeave")
    /\ UNCHANGED <<smVars, poolVars, upstreamSubMux, clientVars, sending, told, failed>>

AllEmpty(c) ==
    /\ pc[c] = "allEmpty"
    /\ Goto(c, IF SubscriptionEmpty(subID[c]) THEN "allUp" ELSE "allLeave")
    /\ UNCHANGED <<smVars, poolVars, upstreamSubMux, clientVars, sending, told, failed>>

AllUpstream(c) ==
    /\ pc[c] = "allUp"
    /\ PoolUnsubscribed(subID[c])
    /\ Goto(c, "allForget")
    /\ UNCHANGED <<smVars, upstreamSubMux, clientVars, sending, told>>

AllForget(c) ==
    /\ pc[c] = "allForget"
    /\ RemoveSubscription(subID[c])
    /\ Goto(c, "allLeave")
    /\ UNCHANGED <<poolVars, upstreamSubMux, clientVars, sending, told, failed>>

\* removeAllSubscriptions returns to the read loop or to Close
AllReturn(c) ==
    /\ Unlock(c)
    /\ Goto(c, IF closeTry[c] = 0 THEN "idle" ELSE "closeConn")
    /\ subID' = [subID EXCEPT ![c] = NoID]
    /\ todo' = [todo EXCEPT ![c] = IF closeTry[c] = 0 THEN {} ELSE @]
    /\ UNCHANGED <<smVars, param, closeTry, onDisconnect, sending, told>>

AllDone(c) ==
    /\ pc[c] = "allLeave"
    /\ todo[c] = {}
    /\ AllReturn(c)
    /\ UNCHANGED <<poolVars, failed>>

\* return on the first upstream error: what is left in todo is kept
AllUpstreamFailed(c) ==
    /\ pc[c] = "allUp"
    /\ PoolUnsubscribeFailed(subID[c])
    /\ AllReturn(c)

\* HandleConnection ends
Ended(c, step) ==
    /\ Goto(c, step)
    /\ closeTry' = [closeTry EXCEPT ![c] = 0]
    /\ UNCHANGED <<smVars, poolVars, upstreamSubMux, param, subID, todo, onDisconnect,
                   sending, told, failed>>

\* Close calls onDisconnect (onClientDisconnect), if set, and then conn.Close
Close(c, try) ==
    /\ closeTry' = [closeTry EXCEPT ![c] = try]
    /\ Goto(c, IF onDisconnect[c] THEN "allLock" ELSE "closeConn")
    /\ UNCHANGED <<smVars, poolVars, upstreamSubMux, param, subID, todo,
                   onDisconnect, sending, failed>>

\* ReceiveMsg meets the end of the connection and calls Close; or the handler
\* panics (failed read repeated, empty params) and only the deferred Close runs
Disconnect(c) ==
    /\ pc[c] = "idle"
    /\ \E try \in {1, 3} : Close(c, try)
    /\ told' = [told EXCEPT ![c] = {}]

ConnClose(c) ==
    /\ pc[c] = "closeConn"
    /\ Ended(c, "closed")

\* conn.Close fails before setClosed: the next Close call starts over
ConnCloseFailed(c) ==
    /\ pc[c] = "closeConn"
    /\ closeTry[c] < 3
    /\ Close(c, closeTry[c] + 1)
    /\ UNCHANGED told

\* the deferred Close fails too: the goroutine ends, the client is not closed
ConnAbandoned(c) ==
    /\ pc[c] = "closeConn"
    /\ closeTry[c] = 3
    /\ Ended(c, "gone")

-----------------------------------------------------------------------------
(* Upstream connections and broadcast goroutines. *)

\* A connection reads a notification for a query it knows; onSubscriptionMessage
\* copies the clients of the id and starts one goroutine for each.
Broadcast(k, p) ==
    LET i == subByParam[k][p]
        new == {[to |-> c, id |-> i, about |-> p] : c \in GetSubscriptionClients(i)}
    IN  /\ i # NoID
        /\ new # {}
        /\ Cardinality(sending \cup new) <= MaxSending
        /\ sending' = sending \cup new
        /\ UNCHANGED <<smVars, poolVars, upstreamSubMux, pc, clientVars, told, failed>>

\* SendMsg writes the notification, or finds the client closed and drops it
Send(n) ==
    /\ sending' = sending \ {n}
    /\ UNCHANGED <<smVars, poolVars, upstreamSubMux, pc, clientVars, told, failed>>

\* An Eth manager reconnects: resetAll forgets its subscriptions before
\* reSubmitSubscriptions looks for them, so none is made again, and the pool and
\* the SubscriptionManager are not told.
ResetAll(k) ==
    /\ Eth
    /\ subByParam' = [subByParam EXCEPT ![k] = [p \in Params |-> NoID]]
    /\ lost' = lost \cup {subByParam[k][p] : p \in {p \in Params : subByParam[k][p] # NoID}}
    /\ UNCHANGED <<smVars, subscriptionID, subscriptionParam, subscriptionConn,
                   upstreamSubMux, pc, clientVars, sending, told, failed>>

\* every connection has ended
Terminated ==
    /\ \A c \in Clients : pc[c] \in {"closed", "gone"}
    /\ UNCHANGED vars

ClientStep(c) ==
    \/ AddLock(c) \/ AddUpstream(c) \/ AddUpstreamFailed(c) \/ AddRegister(c) \/ AddJoin(c)
    \/ RmCheck(c) \/ RmNotSubscribed(c) \/ RmLeave(c) \/ RmStillUsed(c) \/ RmLock(c)
    \/ RmUpstream(c) \/ RmUpstreamFailed(c) \/ RmForget(c)
    \/ AllLock(c) \/ AllLeave(c) \/ AllEmpty(c)
    \/ AllUpstream(c) \/ AllUpstreamFailed(c) \/ AllForget(c) \/ AllDone(c)
    \/ ConnClose(c) \/ ConnCloseFailed(c) \/ ConnAbandoned(c)

ClientRequest(c) ==
    \/ BadParams(c) \/ UnsubscribeAll(c) \/ Disconnect(c)
    \/ \E p \in Params : Subscribe(c, p) \/ Unsubscribe(c, p)
    \/ \E i \in IDs : UnsubscribeByID(c, i)

Next ==
    \/ \E c \in Clients : ClientRequest(c) \/ ClientStep(c)
    \/ \E k \in Conns, p \in Params : Broadcast(k, p)
    \/ \E n \in sending : Send(n)
    \/ \E k \in Conns : ResetAll(k)
    \/ Terminated

Spec == Init /\ [][Next]_vars

-----------------------------------------------------------------------------
(* Properties *)

Registered(i) == i \in clientMaps

\* the client that holds the mutex is at one of steps, working on id i
OwnerAt(steps, i) ==
    \E c \in Clients : upstreamSubMux = c /\ pc[c] \in steps /\ subID[c] = i

\* The three maps of the SubscriptionManager describe the same subscriptions:
\* paramToID and idToParam are inverse, and exactly the registered ids have a
\* client map (a write for another id would be a write to a nil map).
IndexConsistent ==
    /\ \A p \in Params, i \in IDs : paramToID[p] = i <=> idToParam[i] = p
    /\ \A i \in IDs : idToParam[i] # NoParam <=> Registered(i)
    /\ \A i \in IDs : clientSubscriptions[i] # {} => Registered(i)
    /\ \A c \in Clients : pc[c] = "join" => Registered(subID[c])

\* The broker's index and the pool's agree on every id, except on the one that
\* the holder of upstreamSubMux is between the two updates of.
BrokerPoolAgree ==
    /\ \A p \in Params, i \in IDs : subscriptionID[p] = i <=> subscriptionParam[i] = p
    /\ \A i \in IDs :
          \/ idToParam[i] = subscriptionParam[i]
          \/ OwnerAt({"register"}, i) /\ idToParam[i] = NoParam
          \/ OwnerAt({"rmForget", "allForget"}, i) /\ subscriptionParam[i] = NoParam

\* A connection forwards only ids that the pool has on it under the same query, and
\* every id the pool has on it, but for those that an Eth reset has taken from it.
PoolConnAgree ==
    /\ \A i \in IDs : subscriptionConn[i] # NoConn <=> subscriptionParam[i] # NoParam
    /\ \A k \in Conns, p \in Params, i \in IDs :
          subByParam[k][p] = i => subscriptionConn[i] = k /\ subscriptionParam[i] = p
    /\ \A i \in IDs : subscriptionConn[i] # NoConn /\ i \notin lost =>
          subByParam[subscriptionConn[i]][subscriptionParam[i]] = i
    /\ ~Eth => lost = {}

\* the connection of id i forwards what the node sends about p
Forwarded(i, p) == subscriptionConn[i] # NoConn /\ subByParam[subscriptionConn[i]][p] = i

\* A client that got the reply "subscribed", and has asked for nothing else since
\* about that query, is in the client map of the id the pool has for the query, and
\* the id's connection forwards the notifications: no sequence of requests of others
\* and no failure takes that away.  Only the reset of an Eth connection does: the
\* client is then told nothing, and the node has nothing open for it (ResetAll).
ToldIsServed ==
    \A c \in Clients : \A p \in told[c] :
        /\ paramToID[p] \in IDs
        /\ c \in clientSubscriptions[paramToID[p]]
        /\ subscriptionParam[paramToID[p]] = p
        /\ Forwarded(paramToID[p], p) \/ paramToID[p] \in lost

\* A subscription that nobody uses is closed upstream: if an id is registered and
\* has no client, then a goroutine is about to close it or to join it, or the
\* node did not confirm an unsubscribe.
NoIdleUpstream ==
    \A i \in clientMaps : clientSubscriptions[i] = {} =>
        \/ i \in failed
        \/ \E c \in Clients : pc[c] = "rmLock" /\ subID[c] = i
        \/ OwnerAt({"join", "rmUp", "rmForget", "allEmpty", "allUp", "allForget"}, i)

\* A client whose connection has ended stays in the client maps of at most the ids
\* that removeAllSubscriptions had not reached when an upstream error ended it.
ClosedHoldsLeftovers ==
    \A c \in Clients, i \in IDs :
        pc[c] \in {"closeConn", "closed", "gone"} /\ c \in clientSubscriptions[i] => i \in todo[c]

BroadcastExact ==
    \A n \in sending' \ sending :
        /\ idToParam[n.id] = n.about
        /\ n.to \in clientSubscriptions[n.id]

\* A notification about a query is sent to clients of that query only, also when
\* its id was used for another query before.
BroadcastReachesSubscribers == [][BroadcastExact]_vars

\* The broker implements SubscriptionService: a query is open while the pool has
\* an id for it, and its holders are the clients of the id the broker has for it.
Service == INSTANCE SubscriptionService WITH
    open <- {p \in Params : subscriptionID[p] # NoID},
    holders <- [p \in Params |->
                   IF paramToID[p] = NoID THEN {} ELSE clientSubscriptions[paramToID[p]]]

\* Whatever the interleaving and the failures, clients join only a query that is
\* subscribed upstream, and the upstream subscription ends only when it has none.
ImplementsService == Service!Spec

-----------------------------------------------------------------------------
(* The inductive invariant: the properties above and what the goroutines rely *)
(* on between two of their steps.                                           *)

Critical == {"addUp", "register", "join", "rmUp", "rmForget",
             "allLeave", "allEmpty", "allUp", "allForget"}

\* locals are assigned where they are used
LocalTypes ==
    \A c \in Clients :
        /\ pc[c] \in {"addLock", "addUp", "register", "join"} => param[c] \in Params
        /\ pc[c] \in {"register", "join", "rmCheck", "rmLeave", "rmLock", "rmUp",
                      "rmForget", "allEmpty", "allUp", "allForget"} => subID[c] \in IDs

MutexOwner == \A c \in Clients : upstreamSubMux = c <=> pc[c] \in Critical

\* what the holder of the mutex has read stays true until it lets go
OwnerKnows ==
    \A c \in Clients :
        /\ pc[c] \in {"addUp", "register"} => paramToID[param[c]] = NoID
        /\ pc[c] = "register" => /\ idToParam[subID[c]] = NoParam
                                 /\ subscriptionParam[subID[c]] = param[c]
        /\ pc[c] = "join" => idToParam[subID[c]] = param[c]
        /\ pc[c] \in {"rmUp", "rmForget", "allUp", "allForget"} =>
               clientSubscriptions[subID[c]] = {}
        /\ pc[c] \in {"rmForget", "allForget"} => subscriptionParam[subID[c]] = NoParam

\* a client that leaves a subscription was not told otherwise
Leaving ==
    \A c \in Clients :
        /\ pc[c] \in {"rmCheck", "rmLeave"} => idToParam[subID[c]] \notin told[c]
        /\ pc[c] \in {"allLock", "allLeave", "allEmpty", "allUp", "allForget",
                      "closeConn", "closed", "gone"} => told[c] = {}
        /\ pc[c] \in {"allLeave", "allEmpty", "allUp", "allForget"} =>
               \A i \in IDs : c \in clientSubscriptions[i] => i \in todo[c]
        /\ ~onDisconnect[c] => /\ pc[c] \in {"idle", "closeConn", "closed", "gone"}
                               /\ \A i \in IDs : c \notin clientSubscriptions[i]

IndInv ==
    /\ TypeOK /\ LocalTypes /\ MutexOwner /\ OwnerKnows /\ Leaving
    /\ IndexConsistent /\ BrokerPoolAgree /\ PoolConnAgree
    /\ ToldIsServed /\ NoIdleUpstream /\ ClosedHoldsLeftovers
=============================================================================
