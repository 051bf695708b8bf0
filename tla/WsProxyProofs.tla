--------------------------- MODULE WsProxyProofs ---------------------------
(***************************************************************************)
(* Proofs about WsProxy: the broker behind the proxy behaves as WsBroker   *)
(* says, so that what is proved of it holds here, and what its last answer *)
(* told a client is true until the client asks for something else.         *)
(***************************************************************************)
EXTENDS WsProxy, TLAPS

BrokerP == INSTANCE WsBrokerProofs WITH Eth <- FALSE, MaxSending <- 0

-----------------------------------------------------------------------------
(* The inductive invariant *)

\* c is in no client map of p
Out(c, p) == \A i \in IDs : idToParam[i] = p => c \notin clientSubscriptions[i]

\* the steps of HandleSubscription for a method
StepsOf(method) ==
    IF method = "subscribe" THEN BrokerP!Adding
    ELSE IF method = "unsubscribe" THEN BrokerP!Removing
    ELSE BrokerP!LeavingAll

\* handleRequest and the read loop are one goroutine, which is in the broker only
\* when handleRequest has called it, or Close
Place(c) ==
    /\ pc[c] = "idle" => closeTry[c] = 0
    /\ closeTry[c] > 0 => stage[c] = "idle" /\ pc[c] \in BrokerP!LeavingAll \cup {"closeConn"}
    /\ stage[c] = "idle" => pc[c] \in {"idle", "closed", "gone"} \/ closeTry[c] > 0
    /\ stage[c] \notin {"idle", "broker"} => pc[c] = "idle"
    /\ stage[c] = "broker" => /\ closeTry[c] = 0
                              /\ pc[c] \in StepsOf(request[c].method)
                              /\ \/ request[c].method = "unsubscribe_all"
                                 \/ request[c].param \in Params

\* what the goroutine has done so far of what it was asked
Progress(c) ==
    /\ stage[c] = "broker" =>
          /\ pc[c] \in BrokerP!Adding => param[c] = request[c].param
          /\ pc[c] \in {"rmCheck", "rmLeave"} /\ c \in clientSubscriptions[subID[c]]
                => idToParam[subID[c]] = request[c].param
          /\ pc[c] = "rmLeave" => c \in clientSubscriptions[subID[c]]
          /\ pc[c] \in {"rmLock", "rmUp", "rmForget"} => Out(c, request[c].param)
    /\ stage[c] = "reply" /\ result[c] = "ok" =>
          \A p \in About(request[c]) :
              IF request[c].method = "subscribe" THEN p \in told[c] ELSE Out(c, p)

\* the client knows nothing of what it has asked about, and the rest is true
Knowledge(c) ==
    /\ stage[c] # "idle" => \A p \in About(request[c]) : knows[c][p] = "unknown"
    /\ \A p \in Params : /\ knows[c][p] = "on" => p \in told[c]
                         /\ knows[c][p] = "off" => Out(c, p)

InOrder(c) == Place(c) /\ Progress(c) /\ Knowledge(c)

\* the types of the variables that the broker does not have
ProxyTypes ==
    /\ inForce \in RuleSets /\ setting \in RuleSets \cup {None}
    /\ stage \in [Clients -> {"idle", "rlock", "has", "get", "broker", "write", "reply"}]
    /\ request \in [Clients -> Requests \cup {None}]
    /\ result \in [Clients -> {"none", "ok", "error"}]
    /\ cached \in [Requests -> {"none", "ok", "error"}]
    /\ knows \in [Clients -> [Params -> {"on", "off", "unknown"}]]
    /\ \A c \in Clients : (stage[c] = "idle") = (request[c] = None)

IndInv == BrokerP!IndInv /\ ProxyTypes /\ \A c \in Clients : InOrder(c)

-----------------------------------------------------------------------------
(* The broker behind the proxy *)

\* The broker behind the proxy has constants that WsBroker allows.
LEMMA BrokerAssumed == BrokerP!AbsentAssumption /\ BrokerP!BoundAssumption
BY BrokerAssumption

\* The proofs of WsBroker are about BrokerP, which has the definitions of Broker:
\* its requests,
LEMMA SameRequests ==
    \A c, p : /\ Broker!BadParams(c) = BrokerP!BadParams(c)
              /\ Broker!Subscribe(c, p) = BrokerP!Subscribe(c, p)
              /\ Broker!Unsubscribe(c, p) = BrokerP!Unsubscribe(c, p)
              /\ Broker!UnsubscribeAll(c) = BrokerP!UnsubscribeAll(c)
              /\ Broker!Disconnect(c) = BrokerP!Disconnect(c)
BY Zenon DEF Broker!BadParams, BrokerP!BadParams, Broker!Subscribe, BrokerP!Subscribe,
     Broker!Unsubscribe, BrokerP!Unsubscribe, Broker!UnsubscribeAll, BrokerP!UnsubscribeAll,
     Broker!Disconnect, BrokerP!Disconnect, Broker!Begin, BrokerP!Begin, Broker!Goto,
     BrokerP!Goto, Broker!Close, BrokerP!Close, Broker!smVars, BrokerP!smVars,
     Broker!poolVars, BrokerP!poolVars

\* its steps,
LEMMA SameSteps ==
    \A c : Broker!ClientStep(c) = BrokerP!ClientStep(c)
<1> USE DEF Broker!smVars, BrokerP!smVars, Broker!poolVars, BrokerP!poolVars,
        Broker!clientVars, BrokerP!clientVars, Broker!Goto, BrokerP!Goto, Broker!Lock,
        BrokerP!Lock, Broker!Unlock, BrokerP!Unlock, Broker!Return, BrokerP!Return
<1>1. \A p : /\ \A i, k : Broker!PoolSubscribed(p, i, k) = BrokerP!PoolSubscribed(p, i, k)
             /\ \A i : Broker!AddSubscription(p, i) = BrokerP!AddSubscription(p, i)
             /\ Broker!SubscribeAnswers(p) = BrokerP!SubscribeAnswers(p)
  <2>1. \A p : /\ \A i, k : Broker!PoolSubscribed(p, i, k) = BrokerP!PoolSubscribed(p, i, k)
               /\ \A i : Broker!AddSubscription(p, i) = BrokerP!AddSubscription(p, i)
    BY Zenon DEF Broker!PoolSubscribed, BrokerP!PoolSubscribed, Broker!AddSubscription,
       BrokerP!AddSubscription
  <2>2. Broker!FreshIDs = BrokerP!FreshIDs
    BY Zenon DEF Broker!FreshIDs, BrokerP!FreshIDs
  <2>3. \A p : Broker!SubscribeAnswers(p) = BrokerP!SubscribeAnswers(p)
    BY <2>2 DEF Broker!SubscribeAnswers, BrokerP!SubscribeAnswers, Broker!HasSubscription,
       BrokerP!HasSubscription
  <2> QED
    BY <2>1, <2>3
<1>2. \A i : /\ Broker!PoolUnsubscribed(i) = BrokerP!PoolUnsubscribed(i)
             /\ Broker!PoolUnsubscribeFailed(i) = BrokerP!PoolUnsubscribeFailed(i)
             /\ Broker!RemoveSubscription(i) = BrokerP!RemoveSubscription(i)
             /\ Broker!SubscriptionEmpty(i) = BrokerP!SubscriptionEmpty(i)
             /\ \A c : /\ Broker!ClientSubscribed(i, c) = BrokerP!ClientSubscribed(i, c)
                       /\ Broker!SubscribeClient(i, c) = BrokerP!SubscribeClient(i, c)
                       /\ Broker!UnsubscribeClient(i, c) = BrokerP!UnsubscribeClient(i, c)
  BY Zenon DEF Broker!PoolUnsubscribed, BrokerP!PoolUnsubscribed, Broker!PoolUnsubscribeFailed,
     BrokerP!PoolUnsubscribeFailed, Broker!RemoveSubscription, BrokerP!RemoveSubscription,
     Broker!SubscriptionEmpty, BrokerP!SubscriptionEmpty, Broker!ClientSubscribed,
     BrokerP!ClientSubscribed, Broker!SubscribeClient, BrokerP!SubscribeClient,
     Broker!UnsubscribeClient, BrokerP!UnsubscribeClient
<1>3. \A c : /\ Broker!AllReturn(c) = BrokerP!AllReturn(c)
             /\ Broker!GetSubscriptions(c) = BrokerP!GetSubscriptions(c)
             /\ \A step : Broker!Ended(c, step) = BrokerP!Ended(c, step)
             /\ \A try : Broker!Close(c, try) = BrokerP!Close(c, try)
  BY Zenon DEF Broker!AllReturn, BrokerP!AllReturn, Broker!GetSubscriptions,
     BrokerP!GetSubscriptions, Broker!Ended, BrokerP!Ended, Broker!Close, BrokerP!Close
<1>4. \A c : Broker!AddLock(c) = BrokerP!AddLock(c)
  BY <1>1, <1>2, <1>3, Zenon DEF Broker!AddLock, BrokerP!AddLock
<1>5. \A c : Broker!AddUpstream(c) = BrokerP!AddUpstream(c)
  BY <1>1, <1>2, <1>3, Zenon DEF Broker!AddUpstream, BrokerP!AddUpstream
<1>6. \A c : Broker!AddUpstreamFailed(c) = BrokerP!AddUpstreamFailed(c)
  BY <1>1, <1>2, <1>3, Zenon DEF Broker!AddUpstreamFailed, BrokerP!AddUpstreamFailed
<1>7. \A c : Broker!AddRegister(c) = BrokerP!AddRegister(c)
  BY <1>1, <1>2, <1>3, Zenon DEF Broker!AddRegister, BrokerP!AddRegister
<1>8. \A c : Broker!AddJoin(c) = BrokerP!AddJoin(c)
  BY <1>1, <1>2, <1>3, Zenon DEF Broker!AddJoin, BrokerP!AddJoin
<1>9. \A c : Broker!RmCheck(c) = BrokerP!RmCheck(c)
  BY <1>1, <1>2, <1>3, Zenon DEF Broker!RmCheck, BrokerP!RmCheck
<1>10. \A c : Broker!RmNotSubscribed(c) = BrokerP!RmNotSubscribed(c)
  BY <1>1, <1>2, <1>3, Zenon DEF Broker!RmNotSubscribed, BrokerP!RmNotSubscribed
<1>11. \A c : Broker!RmLeave(c) = BrokerP!RmLeave(c)
  BY <1>1, <1>2, <1>3, Zenon DEF Broker!RmLeave, BrokerP!RmLeave
<1>12. \A c : Broker!RmStillUsed(c) = BrokerP!RmStillUsed(c)
  BY <1>1, <1>2, <1>3, Zenon DEF Broker!RmStillUsed, BrokerP!RmStillUsed
<1>13. \A c : Broker!RmLock(c) = BrokerP!RmLock(c)
  BY <1>1, <1>2, <1>3, Zenon DEF Broker!RmLock, BrokerP!RmLock
<1>14. \A c : Broker!RmUpstream(c) = BrokerP!RmUpstream(c)
  BY <1>1, <1>2, <1>3, Zenon DEF Broker!RmUpstream, BrokerP!RmUpstream
<1>15. \A c : Broker!RmUpstreamFailed(c) = BrokerP!RmUpstreamFailed(c)
  BY <1>1, <1>2, <1>3, Zenon DEF Broker!RmUpstreamFailed, BrokerP!RmUpstreamFailed
<1>16. \A c : Broker!RmForget(c) = BrokerP!RmForget(c)
  BY <1>1, <1>2, <1>3, Zenon DEF Broker!RmForget, BrokerP!RmForget
<1>17. \A c : Broker!AllLock(c) = BrokerP!AllLock(c)
  BY <1>1, <1>2, <1>3, Zenon DEF Broker!AllLock, BrokerP!AllLock
<1>18. \A c : Broker!AllLeave(c) = BrokerP!AllLeave(c)
  BY <1>1, <1>2, <1>3, Zenon DEF Broker!AllLeave, BrokerP!AllLeave
<1>19. \A c : Broker!AllEmpty(c) = BrokerP!AllEmpty(c)
  BY <1>1, <1>2, <1>3, Zenon DEF Broker!AllEmpty, BrokerP!AllEmpty
<1>20. \A c : Broker!AllUpstream(c) = BrokerP!AllUpstream(c)
  BY <1>1, <1>2, <1>3, Zenon DEF Broker!AllUpstream, BrokerP!AllUpstream
<1>21. \A c : Broker!AllUpstreamFailed(c) = BrokerP!AllUpstreamFailed(c)
  BY <1>1, <1>2, <1>3, Zenon DEF Broker!AllUpstreamFailed, BrokerP!AllUpstreamFailed
<1>22. \A c : Broker!AllForget(c) = BrokerP!AllForget(c)
  BY <1>1, <1>2, <1>3, Zenon DEF Broker!AllForget, BrokerP!AllForget
<1>23. \A c : Broker!AllDone(c) = BrokerP!AllDone(c)
  BY <1>1, <1>2, <1>3, Zenon DEF Broker!AllDone, BrokerP!AllDone
<1>24. \A c : Broker!ConnClose(c) = BrokerP!ConnClose(c)
  BY <1>1, <1>2, <1>3, Zenon DEF Broker!ConnClose, BrokerP!ConnClose
<1>25. \A c : Broker!ConnCloseFailed(c) = BrokerP!ConnCloseFailed(c)
  BY <1>1, <1>2, <1>3, Zenon DEF Broker!ConnCloseFailed, BrokerP!ConnCloseFailed
<1>26. \A c : Broker!ConnAbandoned(c) = BrokerP!ConnAbandoned(c)
  BY <1>1, <1>2, <1>3, Zenon DEF Broker!ConnAbandoned, BrokerP!ConnAbandoned
<1> QED
  BY <1>4, <1>5, <1>6, <1>7, <1>8, <1>9, <1>10, <1>11, <1>12, <1>13, <1>14, <1>15,
     <1>16, <1>17, <1>18, <1>19, <1>20, <1>21, <1>22, <1>23, <1>24, <1>25, <1>26,
     Zenon
     DEF Broker!ClientStep, BrokerP!ClientStep

\* its initial state and its types.
LEMMA SameState == Broker!Init = BrokerP!Init /\ Broker!TypeOK = BrokerP!TypeOK
BY Zenon DEF Broker!Init, BrokerP!Init, Broker!TypeOK, BrokerP!TypeOK, Broker!Steps,
     BrokerP!Steps, Broker!Notifications, BrokerP!Notifications

\* What handleRequest asks of the broker is a request of the broker.
LEMMA AsksBroker ==
    ASSUME NEW c \in Clients, ProxyTypes, stage[c] # "idle", HandleSubscription(c, request[c])
    PROVE  BrokerP!ClientRequest(c)
<1>1. request[c] \in Requests /\ None \notin Requests
  BY NoneAssumption DEF ProxyTypes
<1>2. request[c].param \in Params \cup {NoParam}
  BY <1>1 DEF Requests
<1>3. CASE Broker!UnsubscribeAll(c) \/ Broker!BadParams(c)
  BY <1>3, SameRequests, Zenon DEF BrokerP!ClientRequest
<1>4. CASE /\ request[c].param # NoParam
           /\ \/ Broker!Subscribe(c, request[c].param)
              \/ Broker!Unsubscribe(c, request[c].param)
  <2>1. request[c].param \in Params
    BY <1>2, <1>4
  <2> QED
    BY <1>4, <2>1, SameRequests, Zenon DEF BrokerP!ClientRequest
<1> QED
  BY <1>3, <1>4, Zenon DEF HandleSubscription

\* Every step of the proxy is a step of the broker, or leaves it alone.
LEMMA BrokerSteps == ProxyTypes /\ [Next]_vars => [BrokerP!Next]_(BrokerP!vars)
<1> SUFFICES ASSUME ProxyTypes, [Next]_vars PROVE BrokerP!Next \/ UNCHANGED BrokerP!vars
  OBVIOUS
<1>1. CASE UNCHANGED brokerVars
  BY <1>1, Zenon DEF brokerVars, BrokerP!vars, BrokerP!smVars, BrokerP!poolVars,
     BrokerP!clientVars
<1>2. ASSUME NEW c \in Clients, HandleSubscription(c, request[c]), stage[c] # "idle"
      PROVE  BrokerP!Next
  BY <1>2, AsksBroker, Zenon DEF BrokerP!Next
<1>3. ASSUME NEW c \in Clients, InBroker(c) \/ InClose(c) PROVE BrokerP!Next
  BY <1>3, SameSteps, Zenon DEF InBroker, InClose, BrokerP!Next
<1>4. ASSUME NEW c \in Clients, Disconnect(c) \/ Panics(c) PROVE BrokerP!Next
  BY <1>4, SameRequests, Zenon DEF Disconnect, Panics, BrokerP!Next, BrokerP!ClientRequest
<1>5. ASSUME NEW c \in Clients, Step(c)
      PROVE  BrokerP!Next \/ UNCHANGED brokerVars
  <2>1. CASE Denied(c) \/ LooksUp(c) \/ Has(c) \/ Get(c) \/ GetFails(c)
    BY <2>1, Zenon DEF Denied, LooksUp, Has, Get, GetFails
  <2>2. CASE NoCache(c) \/ Miss(c)
    BY <1>2, <2>2 DEF NoCache, Miss, Locks
  <2> QED
    BY <1>3, <1>4, <1>5, <2>1, <2>2, Zenon DEF Step, Decides
<1>6. CASE \/ \E rs \in RuleSets : SetRules(rs)
           \/ Install
           \/ \E c \in Clients : Sent(c) \/ \E r \in Requests : Receive(c, r)
           \/ \E r \in Requests : Expire(r)
           \/ UNCHANGED vars
  <2>1. UNCHANGED brokerVars
    BY <1>6, Zenon
    DEF SetRules, Install, Sent, Written, Reply, ReplyFails, Receive, Expire, vars
  <2> QED
    BY <1>1, <2>1
<1> QED
  BY <1>1, <1>4, <1>5, <1>6, Zenon DEF Next

-----------------------------------------------------------------------------
(* The invariant is kept *)

\* The invariant has the types of the specification.
LEMMA Types == IndInv => TypeOK
<1> SUFFICES ASSUME IndInv PROVE TypeOK
  OBVIOUS
<1>1. Broker!TypeOK
  BY SameState DEF IndInv, BrokerP!IndInv
<1>2. \A c \in Clients :
        stage[c] # "broker" => closeTry[c] > 0 \/ pc[c] \in {"idle", "closed", "gone"}
  BY DEF IndInv, InOrder, Place
<1> QED
  BY <1>1, <1>2 DEF IndInv, TypeOK, ProxyTypes

\* The invariant holds at first.
LEMMA InitInv == Init => IndInv
<1> SUFFICES ASSUME Init PROVE IndInv
  OBVIOUS
<1>1. BrokerP!Init
  BY SameState DEF Init
<1>2. BrokerP!IndInv
  BY <1>1, BrokerP!IndInvInit, BrokerAssumed
<1>3. /\ pc = [c \in Clients |-> "idle"] /\ closeTry = [c \in Clients |-> 0]
      /\ clientSubscriptions = [i \in IDs |-> {}]
  BY <1>1 DEF BrokerP!Init
<1>4. ProxyTypes
  BY DEF Init, ProxyTypes
<1>5. \A c \in Clients : InOrder(c)
  BY <1>3 DEF Init, InOrder, Place, Progress, Knowledge, Out
<1> QED
  BY <1>2, <1>4, <1>5 DEF IndInv

\* A goroutine that does not move keeps its part of the invariant.
LEMMA OtherKeeps ==
    ASSUME IndInv, NEW v \in Clients, BrokerP!Unmoved(v),
           stage'[v] = stage[v], request'[v] = request[v], result'[v] = result[v],
           knows'[v] = knows[v]
    PROVE  InOrder(v)'
<1> USE DEF BrokerP!Unmoved
<1>1. InOrder(v)
  BY DEF IndInv
<1>2. \A p : Out(v, p) => Out(v, p)'
  BY DEF Out
<1>3. Place(v)'
  BY <1>1 DEF InOrder, Place
<1>4. Progress(v)'
  <2>1. pc[v] \in {"rmCheck", "rmLeave"} => subID[v] \in IDs
    BY DEF IndInv, BrokerP!IndInv, BrokerP!LocalTypes
  <2> QED
    BY <1>1, <1>2, <2>1 DEF InOrder, Progress
<1>5. Knowledge(v)'
  BY <1>1, <1>2 DEF InOrder, Knowledge
<1> QED
  BY <1>3, <1>4, <1>5 DEF InOrder

\* Nobody moves in the broker when the broker does not change.
LEMMA Standstill ==
    ASSUME UNCHANGED brokerVars
    PROVE  \A v : BrokerP!Unmoved(v)
BY DEF brokerVars, BrokerP!Unmoved

\* A step of one goroutine: it is enough to look at that goroutine.
LEMMA OneMoves ==
    ASSUME IndInv, BrokerP!IndInv', NEW c \in Clients, ProxyTypes', InOrder(c)',
           \A v \in Clients \ {c} :
              /\ BrokerP!Unmoved(v)
              /\ stage'[v] = stage[v] /\ request'[v] = request[v]
              /\ result'[v] = result[v] /\ knows'[v] = knows[v]
    PROVE  IndInv'
<1>1. \A v \in Clients \ {c} : InOrder(v)'
  BY OtherKeeps
<1> QED
  BY <1>1 DEF IndInv

\* Without the broker: the goroutine decides, looks into the cache, or answers.
LEMMA QuietKeeps ==
    ASSUME IndInv, BrokerP!IndInv', NEW c \in Clients,
           \/ Denied(c) \/ LooksUp(c) \/ Has(c) \/ Get(c) \/ GetFails(c)
           \/ Written(c) \/ Reply(c) \/ ReplyFails(c)
           \/ \E r \in Requests : Receive(c, r)
    PROVE  IndInv'
<1>1. UNCHANGED brokerVars
  BY Zenon
  DEF Denied, LooksUp, Has, Get, GetFails, Written, Reply, ReplyFails, Receive
<1>2. \A v : BrokerP!Unmoved(v)
  BY <1>1, Standstill
<1>3. /\ pc'[c] = pc[c] /\ closeTry'[c] = closeTry[c] /\ told'[c] = told[c]
      /\ \A p : Out(c, p)' = Out(c, p)
  BY <1>1 DEF brokerVars, Out
<1>4. InOrder(c) /\ None \notin Requests
  BY NoneAssumption DEF IndInv
<1> USE DEF Return, Goto
<1>5. CASE GetFails(c) \/ Written(c) \/ ReplyFails(c)
  <2>1. ProxyTypes'
    BY <1>4, <1>5 DEF GetFails, Written, ReplyFails, IndInv, ProxyTypes
  <2>2. InOrder(c)'
    BY <1>3, <1>4, <1>5 DEF GetFails, Written, ReplyFails, IndInv, ProxyTypes,
       InOrder, Place, Progress, Knowledge
  <2> QED
    BY <1>2, <1>5, <2>1, <2>2, OneMoves
    DEF GetFails, Written, ReplyFails, IndInv, ProxyTypes
<1>6. CASE Denied(c) \/ LooksUp(c) \/ Has(c) \/ Get(c)
  <2>3. /\ UNCHANGED <<inForce, setting, request, result, cached, knows>>
        /\ stage[c] # "idle"
        /\ \/ stage' = [stage EXCEPT ![c] = "has"]
           \/ stage' = [stage EXCEPT ![c] = "get"]
           \/ stage' = [stage EXCEPT ![c] = "write"]
    BY <1>6, Zenon DEF Denied, LooksUp, Has, Get, Locks
  <2>1. ProxyTypes'
    BY <2>3 DEF IndInv, ProxyTypes
  <2>2. InOrder(c)'
    BY <1>3, <1>4, <1>6 DEF Denied, LooksUp, Has, Get, Locks, IndInv, ProxyTypes,
       InOrder, Place, Progress, Knowledge
  <2> QED
    BY <1>2, <2>1, <2>2, <2>3, OneMoves DEF IndInv, ProxyTypes
<1>7. CASE Reply(c)
  <2>1. /\ stage[c] = "reply" /\ request[c] \in Requests
        /\ knows[c] \in [Params -> {"on", "off", "unknown"}]
        /\ result[c] \in {"none", "ok", "error"}
    BY <1>7 DEF Reply, IndInv, ProxyTypes
  <2>2. ProxyTypes'
    BY <1>4, <1>7, <2>1 DEF Reply, Told, IndInv, ProxyTypes
  <2>3. Place(c)'
    BY <1>3, <1>4, <1>7, <2>1 DEF Reply, IndInv, ProxyTypes, InOrder, Place
  <2>4. Progress(c)'
    BY <1>7 DEF Reply, IndInv, ProxyTypes, Progress
  <2>5. \A p \in Params :
          knows'[c][p] = IF p \in About(request[c]) /\ result[c] = "ok" THEN Told(c)
                        ELSE knows[c][p]
    BY <1>7 DEF Reply, IndInv, ProxyTypes
  <2>6. Knowledge(c)'
    BY <1>3, <1>4, <1>7, <2>1, <2>5 DEF Reply, Told, IndInv, ProxyTypes,
       InOrder, Place, Progress, Knowledge
  <2>7. InOrder(c)'
    BY <2>3, <2>4, <2>6 DEF InOrder
  <2> QED
    BY <1>2, <1>7, <2>2, <2>7, OneMoves DEF Reply, IndInv, ProxyTypes
<1>8. ASSUME NEW r \in Requests, Receive(c, r) PROVE IndInv'
  <2>1. /\ stage'[c] = "rlock" /\ request'[c] = r
        /\ \A p \in Params :
              knows'[c][p] = IF p \in About(r) THEN "unknown" ELSE knows[c][p]
    BY <1>8 DEF Receive, IndInv, ProxyTypes
  <2>2. ProxyTypes'
    BY <1>4, <1>8, <2>1 DEF Receive, IndInv, ProxyTypes
  <2>3. About(r) \subseteq Params
    BY DEF About
  <2>4. InOrder(c)'
    BY <1>3, <1>4, <1>8, <2>1, <2>3 DEF Receive, IndInv, ProxyTypes,
       InOrder, Place, Progress, Knowledge
  <2> QED
    BY <1>2, <1>8, <2>2, <2>4, OneMoves DEF Receive, IndInv, ProxyTypes
<1> QED
  BY <1>5, <1>6, <1>7, <1>8

\* The goroutine calls HandleSubscription with its request.
LEMMA AskKeeps ==
    ASSUME IndInv, BrokerP!IndInv', NEW c \in Clients, stage[c] \in {"rlock", "has"},
           HandleSubscription(c, request[c])
    PROVE  IndInv'
<1> DEFINE r == request[c]
<1>1. BrokerP!ClientRequest(c)
  BY AsksBroker DEF IndInv
<1>2. \A v \in Clients \ {c} : BrokerP!Unmoved(v)
  BY <1>1, BrokerP!OthersStay, BrokerAssumed DEF IndInv
<1>3. /\ UNCHANGED <<inForce, setting, request, cached, knows>>
      /\ stage' = [stage EXCEPT ![c] = IF pc'[c] = "idle" THEN "reply" ELSE "broker"]
      /\ result' = [result EXCEPT ![c] = IF pc'[c] = "idle" THEN "error" ELSE "none"]
  BY DEF HandleSubscription, Goto
<1>4. ProxyTypes'
  BY <1>3 DEF IndInv, ProxyTypes
<1>5. /\ r \in Requests /\ r.param \in Params \cup {NoParam}
      /\ r.method \in {"subscribe", "unsubscribe", "unsubscribe_all"}
      /\ NoParam \notin Params
  BY BrokerAssumption DEF IndInv, ProxyTypes, Requests
<1>6. /\ pc[c] = "idle" /\ closeTry[c] = 0
      /\ \A p \in About(r) : knows[c][p] = "unknown"
      /\ \A p \in Params : /\ knows[c][p] = "on" => p \in told[c]
                           /\ knows[c][p] = "off" => Out(c, p)
  BY DEF IndInv, InOrder, Place, Knowledge
<1>7. /\ stage'[c] = IF pc'[c] = "idle" THEN "reply" ELSE "broker"
      /\ result'[c] = IF pc'[c] = "idle" THEN "error" ELSE "none"
      /\ request'[c] = r /\ knows'[c] = knows[c]
  BY <1>3 DEF IndInv, ProxyTypes
<1>8. BrokerP!TypeOK
  BY DEF IndInv, BrokerP!IndInv
<1> HIDE DEF r
<1> USE DEF InOrder, Place, Progress, Knowledge, StepsOf, BrokerP!Adding, BrokerP!Removing,
        BrokerP!LeavingAll, BrokerP!Begin, BrokerP!Goto, BrokerP!smVars, BrokerP!TypeOK
<1>9. CASE r.method = "unsubscribe_all" /\ BrokerP!UnsubscribeAll(c)
  <2>1. /\ pc'[c] = "allLock" /\ closeTry'[c] = 0 /\ told'[c] = {}
        /\ \A p : Out(c, p)' = Out(c, p)
    BY <1>6, <1>8, <1>9 DEF BrokerP!UnsubscribeAll, Out
  <2>2. \A p \in Params : knows[c][p] = "unknown"
    BY <1>6, <1>9 DEF About
  <2>3. InOrder(c)'
    BY <1>6, <1>7, <1>9, <2>1, <2>2
  <2> HIDE DEF InOrder
  <2> QED
    BY <1>2, <1>3, <1>4, <2>3, OneMoves DEF IndInv, ProxyTypes
<1>10. CASE BrokerP!BadParams(c)
  <2>1. /\ pc'[c] = "idle" /\ closeTry'[c] = 0 /\ told'[c] = told[c]
        /\ \A p : Out(c, p)' = Out(c, p)
    BY <1>6, <1>8, <1>10 DEF BrokerP!BadParams, Out
  <2>2. InOrder(c)'
    BY <1>6, <1>7, <2>1
  <2> HIDE DEF InOrder
  <2> QED
    BY <1>2, <1>3, <1>4, <2>2, OneMoves DEF IndInv, ProxyTypes
<1>11. CASE r.method = "subscribe" /\ r.param \in Params /\ BrokerP!Subscribe(c, r.param)
  <2>1. /\ pc'[c] = "addLock" /\ closeTry'[c] = 0 /\ told'[c] = told[c]
        /\ param'[c] = r.param /\ \A p : Out(c, p)' = Out(c, p)
    BY <1>6, <1>8, <1>11 DEF BrokerP!Subscribe, Out
  <2>2. InOrder(c)'
    BY <1>6, <1>7, <1>11, <2>1
  <2> HIDE DEF InOrder
  <2> QED
    BY <1>2, <1>3, <1>4, <2>2, OneMoves DEF IndInv, ProxyTypes
<1>12. CASE r.method = "unsubscribe" /\ r.param \in Params /\ BrokerP!Unsubscribe(c, r.param)
  <2>1. /\ pc'[c] = IF paramToID[r.param] = NoID THEN "idle" ELSE "rmCheck"
        /\ closeTry'[c] = 0 /\ told'[c] = told[c] \ {r.param}
        /\ subID'[c] = paramToID[r.param]
        /\ UNCHANGED <<idToParam, clientSubscriptions>>
    BY <1>6, <1>8, <1>12 DEF BrokerP!Unsubscribe
  <2>2. \A p : Out(c, p)' = Out(c, p)
    BY <2>1 DEF Out
  <2>3. pc'[c] = "rmCheck" => idToParam'[subID'[c]] = r.param
    <3>1. paramToID[r.param] \in IDs \cup {NoID}
      BY <1>8, <1>12
    <3> QED
      BY <1>12, <2>1, <3>1 DEF IndInv, BrokerP!IndInv, BrokerP!IndexConsistent
  <2>4. knows[c][r.param] = "unknown"
    BY <1>6, <1>12 DEF About
  <2>5. InOrder(c)'
    BY <1>6, <1>7, <1>12, <2>1, <2>2, <2>3, <2>4
  <2> HIDE DEF InOrder
  <2> QED
    BY <1>2, <1>3, <1>4, <2>5, OneMoves DEF IndInv, ProxyTypes
<1> QED
  BY <1>5, <1>9, <1>10, <1>11, <1>12, SameRequests DEF HandleSubscription, r

\* What the client knew before a step of its goroutine in the broker is true after it.
StillKnows(c) ==
    \A p \in Params : /\ knows[c][p] = "on" => p \in told'[c]
                      /\ knows[c][p] = "off" => Out(c, p)'

\* It is: the goroutine joins only what it was asked to, and is told.
LEMMA KnowledgeKept ==
    ASSUME IndInv, NEW c \in Clients, BrokerP!Moved(c),
           pc[c] = "join" => stage[c] = "broker"
    PROVE  StillKnows(c)
<1> SUFFICES ASSUME NEW p \in Params
             PROVE  /\ knows[c][p] = "on" => p \in told'[c]
                    /\ knows[c][p] = "off" => Out(c, p)'
  BY DEF StillKnows
<1>1. InOrder(c)
  BY DEF IndInv
<1>2. knows[c][p] = "on" => p \in told'[c]
  BY <1>1 DEF InOrder, Knowledge, BrokerP!Moved
<1>3. ASSUME knows[c][p] = "off", NEW i \in IDs, idToParam'[i] = p,
             c \in clientSubscriptions'[i]
      PROVE  FALSE
  <2>1. ~(c \in clientSubscriptions[i] /\ idToParam[i] = p)
    BY <1>1, <1>3 DEF InOrder, Knowledge, Out
  <2>2. pc[c] = "join" /\ p = param[c]
    BY <1>3, <2>1 DEF BrokerP!Moved
  <2>3. stage[c] = "broker" /\ param[c] = request[c].param
    BY <1>1, <2>2 DEF InOrder, Progress, BrokerP!Adding
  <2>4. request[c].method # "unsubscribe_all"
    BY <1>1, <2>2, <2>3 DEF InOrder, Place, StepsOf, BrokerP!LeavingAll
  <2>5. p \in About(request[c])
    BY <2>2, <2>3, <2>4 DEF About
  <2> QED
    BY <1>1, <1>3, <2>3, <2>5 DEF InOrder, Knowledge
<1> QED
  BY <1>2, <1>3 DEF Out

\* A step of HandleSubscription, to the answer that it returns.
LEMMA InBrokerKeeps ==
    ASSUME IndInv, BrokerP!IndInv', NEW c \in Clients, InBroker(c)
    PROVE  IndInv'
<1> DEFINE r == request[c]
<1>1. BrokerP!ClientStep(c)
  BY SameSteps DEF InBroker
<1>2. BrokerP!Moved(c)
  BY <1>1, BrokerP!OwnStep, BrokerAssumed DEF IndInv
<1>3. \A v \in Clients \ {c} : BrokerP!Unmoved(v)
  BY <1>1, BrokerP!OthersStay, BrokerAssumed DEF IndInv
<1>4. /\ stage[c] = "broker"
      /\ UNCHANGED <<inForce, setting, cached, knows>>
      /\ \/ pc'[c] # "idle" /\ UNCHANGED <<stage, request, result>>
         \/ pc'[c] = "idle" /\ Returned(pc[c]) = "none" /\ Return(c)
         \/ /\ pc'[c] = "idle" /\ Returned(pc[c]) # "none"
            /\ Goto(c, "reply") /\ UNCHANGED request
            /\ result' = [result EXCEPT ![c] = Returned(pc[c])]
  BY Zenon DEF InBroker
<1>5. /\ closeTry[c] = 0 /\ pc[c] \in StepsOf(r.method)
      /\ r.method = "unsubscribe_all" \/ r.param \in Params
      /\ \A p \in About(r) : knows[c][p] = "unknown"
  BY <1>4 DEF IndInv, InOrder, Place, Knowledge
<1>6. StillKnows(c)
  <2>1. pc[c] = "join" => stage[c] = "broker"
    BY <1>4
  <2> QED
    BY <1>2, <2>1, KnowledgeKept
<1>7. closeTry'[c] = 0 /\ (pc'[c] # "idle" => pc'[c] \in StepsOf(r.method))
  BY <1>2, <1>5 DEF BrokerP!Moved, StepsOf, BrokerP!Adding, BrokerP!Removing,
     BrokerP!LeavingAll
<1>8. r \in Requests /\ None \notin Requests /\ NoParam \notin Params
  BY <1>4, NoneAssumption, BrokerAssumption DEF IndInv, ProxyTypes
<1>9. ProxyTypes'
  <2>1. Returned(pc[c]) \in {"none", "ok", "error"}
    BY DEF Returned
  <2>2. CASE UNCHANGED <<stage, request, result>>
    BY <1>4, <2>2 DEF IndInv, ProxyTypes
  <2>3. CASE Return(c)
    BY <1>4, <1>8, <2>3 DEF Return, Goto, IndInv, ProxyTypes
  <2>4. CASE /\ Goto(c, "reply") /\ UNCHANGED request
             /\ result' = [result EXCEPT ![c] = Returned(pc[c])]
    <3>1. stage' = [stage EXCEPT ![c] = "reply"]
      BY <2>4 DEF Goto
    <3> QED
      BY <1>4, <1>8, <2>1, <2>4, <3>1 DEF IndInv, ProxyTypes
  <2> QED
    BY <1>4, <2>2, <2>3, <2>4
<1> DEFINE Left == \A i \in IDs : idToParam'[i] = r.param => c \notin clientSubscriptions'[i]
<1>10. ASSUME pc[c] \in {"rmLock", "rmUp", "rmForget"} PROVE Left
  BY <1>2, <1>4, <1>10 DEF IndInv, InOrder, Progress, Out, BrokerP!Moved
<1>11. CASE pc'[c] # "idle"
  <2>1. stage'[c] = "broker" /\ request'[c] = r /\ knows'[c] = knows[c]
    BY <1>4, <1>11
  <2>2. pc'[c] \in BrokerP!Adding => param'[c] = r.param
    BY <1>2, <1>4, <1>5, <1>11 DEF IndInv, InOrder, Progress, BrokerP!Moved, StepsOf,
       BrokerP!Adding, BrokerP!Removing, BrokerP!LeavingAll
  <2>3. pc'[c] # "rmCheck"
    BY <1>2, <1>11 DEF BrokerP!Moved, BrokerP!Adding, BrokerP!Removing, BrokerP!LeavingAll
  <2>4. ASSUME pc'[c] = "rmLeave"
        PROVE  /\ c \in clientSubscriptions'[subID'[c]]
               /\ idToParam'[subID'[c]] = r.param
    <3>1. /\ pc[c] = "rmCheck" /\ subID'[c] = subID[c]
          /\ c \in clientSubscriptions'[subID[c]]
      BY <1>2, <2>4 DEF BrokerP!Moved, BrokerP!Adding, BrokerP!Removing, BrokerP!LeavingAll
    <3>2. subID[c] \in IDs
      BY <3>1 DEF IndInv, BrokerP!IndInv, BrokerP!LocalTypes
    <3>3. /\ c \in clientSubscriptions[subID[c]]
          /\ idToParam'[subID[c]] = idToParam[subID[c]]
      BY <1>2, <3>1, <3>2 DEF BrokerP!Moved
    <3> QED
      BY <1>4, <3>1, <3>3 DEF IndInv, InOrder, Progress
  <2>5. ASSUME pc'[c] \in {"rmLock", "rmUp", "rmForget"} PROVE Left
    <3>1. CASE pc[c] = "rmLeave"
      <4>1. /\ subID[c] \in IDs /\ idToParam' = idToParam
            /\ c \notin clientSubscriptions'[subID[c]]
        BY <1>2, <3>1 DEF IndInv, BrokerP!IndInv, BrokerP!LocalTypes, BrokerP!Moved
      <4>2. r.param \in Params /\ idToParam[subID[c]] = r.param
        BY <1>4, <1>5, <3>1 DEF IndInv, InOrder, Progress, StepsOf, BrokerP!LeavingAll
      <4>3. \A i \in IDs : idToParam[i] = r.param => i = subID[c]
        BY <4>1, <4>2 DEF IndInv, BrokerP!IndInv, BrokerP!IndexConsistent
      <4> QED
        BY <4>1, <4>3
    <3>2. CASE pc[c] \in {"rmLock", "rmUp", "rmForget"}
      BY <1>10, <3>2
    <3> QED
      BY <1>2, <2>5, <3>1, <3>2 DEF BrokerP!Moved, BrokerP!Adding, BrokerP!Removing,
         BrokerP!LeavingAll
  <2>6. Place(c)'
    BY <1>5, <1>7, <1>11, <2>1 DEF Place
  <2>7. Progress(c)'
    BY <2>1, <2>2, <2>3, <2>4, <2>5 DEF Progress, Out
  <2>8. Knowledge(c)'
    BY <1>5, <1>6, <2>1 DEF Knowledge, StillKnows, Out
  <2>9. InOrder(c)'
    BY <2>6, <2>7, <2>8 DEF InOrder
  <2> QED
    BY <1>3, <1>4, <1>9, <1>11, <2>9, OneMoves
<1>12. CASE pc'[c] = "idle" /\ Returned(pc[c]) = "none" /\ Return(c)
  <2>1. stage'[c] = "idle" /\ knows'[c] = knows[c]
    BY <1>4, <1>12 DEF Return, Goto, IndInv, ProxyTypes
  <2>2. InOrder(c)'
    BY <1>6, <1>7, <1>12, <2>1 DEF InOrder, Place, Progress, Knowledge, StillKnows, Out
  <2>3. \A v \in Clients \ {c} :
           stage'[v] = stage[v] /\ request'[v] = request[v] /\ result'[v] = result[v]
    BY <1>12 DEF Return, Goto, IndInv, ProxyTypes
  <2> QED
    BY <1>3, <1>4, <1>9, <2>2, <2>3, OneMoves
<1>13. CASE /\ pc'[c] = "idle" /\ Goto(c, "reply") /\ UNCHANGED request
            /\ result' = [result EXCEPT ![c] = Returned(pc[c])]
  <2>1. /\ stage'[c] = "reply" /\ request'[c] = r /\ knows'[c] = knows[c]
        /\ result'[c] = Returned(pc[c])
    BY <1>4, <1>13 DEF Goto, IndInv, ProxyTypes
  <2>2. ASSUME Returned(pc[c]) = "ok", NEW p \in About(r)
        PROVE  IF r.method = "subscribe" THEN p \in told'[c] ELSE Out(c, p)'
    <3>1. CASE pc[c] = "join"
      <4>1. r.method = "subscribe" /\ p = r.param
        BY <1>5, <1>8, <3>1 DEF About, StepsOf, BrokerP!Adding, BrokerP!Removing,
           BrokerP!LeavingAll, Requests
      <4>2. param[c] = r.param
        BY <1>4, <3>1 DEF IndInv, InOrder, Progress, BrokerP!Adding
      <4> QED
        BY <1>2, <3>1, <4>1, <4>2 DEF BrokerP!Moved
    <3>2. CASE pc[c] \in {"rmLock", "rmForget"}
      <4>1. r.method = "unsubscribe"
        BY <1>5, <3>2 DEF StepsOf, BrokerP!Adding, BrokerP!LeavingAll
      <4>2. p = r.param
        BY <4>1 DEF About
      <4> QED
        BY <1>10, <3>2, <4>1, <4>2 DEF Out
    <3>3. CASE pc[c] = "allLeave"
      <4>1. r.method # "subscribe"
        BY <1>5, <3>3 DEF StepsOf, BrokerP!Adding
      <4>2. \A i \in IDs : c \notin clientSubscriptions'[i]
        BY <1>2, <1>13, <3>3 DEF BrokerP!Moved, BrokerP!LeavingAll
      <4> QED
        BY <4>1, <4>2 DEF Out
    <3> QED
      BY <2>2, <3>1, <3>2, <3>3 DEF Returned
  <2>3. Place(c)'
    BY <1>7, <1>13, <2>1 DEF Place
  <2>4. Progress(c)'
    BY <2>1, <2>2 DEF Progress
  <2>5. Knowledge(c)'
    BY <1>5, <1>6, <2>1 DEF Knowledge, StillKnows, Out
  <2>6. InOrder(c)'
    BY <2>3, <2>4, <2>5 DEF InOrder
  <2>7. \A v \in Clients \ {c} :
           stage'[v] = stage[v] /\ request'[v] = request[v] /\ result'[v] = result[v]
    BY <1>13 DEF Goto, IndInv, ProxyTypes
  <2> QED
    BY <1>3, <1>4, <1>9, <2>6, <2>7, OneMoves
<1> QED
  BY <1>4, <1>11, <1>12, <1>13

\* A step of Close, with nothing else going on.
LEMMA InCloseKeeps ==
    ASSUME IndInv, BrokerP!IndInv', NEW c \in Clients, InClose(c)
    PROVE  IndInv'
<1>1. BrokerP!ClientStep(c)
  BY SameSteps DEF InClose
<1>2. BrokerP!Moved(c)
  BY <1>1, BrokerP!OwnStep, BrokerAssumed DEF IndInv
<1>3. \A v \in Clients \ {c} : BrokerP!Unmoved(v)
  BY <1>1, BrokerP!OthersStay, BrokerAssumed DEF IndInv
<1>4. stage[c] = "idle" /\ UNCHANGED <<inForce, setting, stage, request, result, cached, knows>>
  BY Zenon DEF InClose, proxyVars
<1>5. closeTry[c] > 0 /\ pc[c] \in BrokerP!LeavingAll \cup {"closeConn"}
  BY <1>2, <1>4 DEF IndInv, InOrder, Place, BrokerP!Moved, BrokerP!Adding,
     BrokerP!Removing, BrokerP!LeavingAll
<1>6. Place(c)'
  <2>1. closeTry[c] # 0
    BY <1>5
  <2> QED
    BY <1>2, <1>4, <1>5, <2>1 DEF Place, BrokerP!Moved, BrokerP!LeavingAll
<1>7. Progress(c)'
  BY <1>4 DEF Progress
<1>8. Knowledge(c)'
  <2>1. pc[c] = "join" => stage[c] = "broker"
    BY <1>5 DEF BrokerP!LeavingAll
  <2>2. StillKnows(c)
    BY <1>2, <2>1, KnowledgeKept
  <2> QED
    BY <1>4, <2>2 DEF Knowledge, StillKnows, Out
<1>9. InOrder(c)'
  BY <1>6, <1>7, <1>8 DEF InOrder
<1>10. ProxyTypes'
  BY <1>4 DEF IndInv, ProxyTypes
<1> QED
  BY <1>3, <1>4, <1>9, <1>10, OneMoves

\* Close is called, by the read loop or after a panic: from then on the client knows
\* nothing.
LEMMA DisconnectKeeps ==
    ASSUME IndInv, BrokerP!IndInv', NEW c \in Clients, Disconnect(c) \/ Panics(c)
    PROVE  IndInv'
<1>1. BrokerP!Disconnect(c)
  BY SameRequests DEF Disconnect, Panics
<1>2. \A v \in Clients \ {c} : BrokerP!Unmoved(v)
  BY <1>1, BrokerP!OthersStay, BrokerAssumed DEF IndInv, BrokerP!ClientRequest
<1>3. /\ UNCHANGED <<inForce, setting, cached>>
      /\ \/ UNCHANGED <<stage, request, result>> /\ stage[c] = "idle"
         \/ /\ stage' = [stage EXCEPT ![c] = "idle"]
            /\ request' = [request EXCEPT ![c] = None]
            /\ result' = [result EXCEPT ![c] = "none"]
  BY Zenon DEF Disconnect, Panics, Return, Goto
<1>4. /\ knows' = [knows EXCEPT ![c] = [p \in Params |-> "unknown"]]
      /\ knows \in [Clients -> [Params -> {"on", "off", "unknown"}]]
  BY DEF Disconnect, Panics, IndInv, ProxyTypes
<1>5. ProxyTypes'
  BY <1>3, <1>4 DEF IndInv, ProxyTypes
<1>8. stage'[c] = "idle" /\ request'[c] = None /\ ProxyTypes
  BY <1>3 DEF IndInv, ProxyTypes
<1>9. \A v \in Clients \ {c} :
        /\ stage'[v] = stage[v] /\ request'[v] = request[v]
        /\ result'[v] = result[v] /\ knows'[v] = knows[v]
  BY <1>3, <1>4, <1>8 DEF ProxyTypes
<1>6. pc'[c] \in {"allLock", "closeConn"} /\ closeTry'[c] \in {1, 3}
  BY <1>1 DEF BrokerP!Disconnect, BrokerP!Close, BrokerP!Goto, IndInv, BrokerP!IndInv,
     BrokerP!TypeOK
<1>7. InOrder(c)'
  BY <1>1, <1>4, <1>6, <1>8 DEF InOrder, Place, Progress, Knowledge, BrokerP!LeavingAll
<1> QED
  BY <1>2, <1>5, <1>7, <1>9, OneMoves

\* Every step keeps the invariant.
LEMMA InvPreserved == IndInv /\ [Next]_vars => IndInv'
<1> SUFFICES ASSUME IndInv, [Next]_vars PROVE IndInv'
  OBVIOUS
<1>1. BrokerP!IndInv'
  BY BrokerSteps, BrokerP!IndInvStep, BrokerAssumed DEF IndInv
<1>2. CASE UNCHANGED brokerVars /\ UNCHANGED <<stage, request, result, knows>> /\ ProxyTypes'
  <2>1. \A v \in Clients : InOrder(v)'
    BY <1>2, Standstill, OtherKeeps
  <2> QED
    BY <1>1, <1>2, <2>1 DEF IndInv
<1>3. CASE UNCHANGED vars
  BY <1>2, <1>3 DEF vars, proxyVars, IndInv, ProxyTypes
<1>4. ASSUME NEW rs \in RuleSets, SetRules(rs) PROVE IndInv'
  BY <1>2, <1>4 DEF SetRules, proxyVars, IndInv, ProxyTypes
<1>5. CASE Install
  BY <1>2, <1>5 DEF Install, proxyVars, IndInv, ProxyTypes
<1>6. ASSUME NEW r \in Requests, Expire(r) PROVE IndInv'
  BY <1>2, <1>6 DEF Expire, IndInv, ProxyTypes
<1>7. ASSUME NEW c \in Clients, Disconnect(c) \/ Panics(c) PROVE IndInv'
  BY <1>1, <1>7, DisconnectKeeps
<1>8. ASSUME NEW c \in Clients, NEW r \in Requests, Receive(c, r) PROVE IndInv'
  BY <1>1, <1>8, QuietKeeps
<1>9. ASSUME NEW c \in Clients, Step(c) PROVE IndInv'
  <2>1. CASE NoCache(c) \/ Miss(c)
    BY <1>1, <2>1, AskKeeps DEF NoCache, Miss, Locks
  <2>2. CASE Denied(c) \/ LooksUp(c) \/ Has(c) \/ Get(c) \/ GetFails(c)
    BY <1>1, <2>2, QuietKeeps
  <2> QED
    BY <1>1, <1>7, <1>9, <2>1, <2>2, InBrokerKeeps, InCloseKeeps DEF Step, Decides
<1>10. ASSUME NEW c \in Clients, Sent(c) PROVE IndInv'
  BY <1>1, <1>10, QuietKeeps DEF Sent
<1> QED
  BY <1>3, <1>4, <1>5, <1>6, <1>7, <1>8, <1>9, <1>10 DEF Next

-----------------------------------------------------------------------------
(* Theorems *)

\* The invariant of the requests on their whole way.
THEOREM Invariance == Spec => []IndInv
BY InitInv, InvPreserved, PTL DEF Spec

\* Every variable keeps its type; a goroutine is in the broker only when it is
\* handling a message that went there, or closing.
THEOREM TypeCorrect == Spec => []TypeOK
BY Invariance, Types, PTL

\* Behind handleRequest, rules, cache and connection, the broker does only what
\* WsBroker lets it do: what is proved of every broker is true of this one.
THEOREM BrokerImplemented == Spec => BrokerP!Spec
<1>1. Init => BrokerP!Init
  BY SameState DEF Init
<1>2. IndInv /\ [Next]_vars => [BrokerP!Next]_(BrokerP!vars)
  BY BrokerSteps DEF IndInv
<1> QED
  BY <1>1, <1>2, Invariance, PTL DEF Spec, BrokerP!Spec

\* What the broker has answered last (knows) is true until the client asks for
\* something else: "subscribed" means served, "unsubscribed" that it has left.
THEOREM AnswersTrue == Spec => []AnswersAreTrue
<1>1. IndInv => AnswersAreTrue
  <2> SUFFICES ASSUME IndInv, NEW c \in Clients, NEW p \in Params
               PROVE  /\ knows[c][p] = "on" => Served(c, p)
                      /\ knows[c][p] = "off" =>
                            \A i \in IDs : idToParam[i] = p => c \notin clientSubscriptions[i]
    BY DEF AnswersAreTrue
  <2>1. Knowledge(c)
    BY DEF IndInv, InOrder
  <2>2. p \in told[c] => Served(c, p)
    <3>1. lost = {}
      BY DEF IndInv, BrokerP!IndInv, BrokerP!PoolConnAgree
    <3> QED
      BY <3>1 DEF IndInv, BrokerP!IndInv, BrokerP!ToldIsServed, Served, Broker!Forwarded,
         BrokerP!Forwarded
  <2> QED
    BY <2>1, <2>2 DEF Knowledge, Out
<1> QED
  BY <1>1, Invariance, PTL
=============================================================================
