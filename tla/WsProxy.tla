------------------------------- MODULE WsProxy -------------------------------
(***************************************************************************)
(* Subscription requests on their whole way: handleRequest of              *)
(* JsonRpcWebSocketProxy (ws_proxy.go), which asks the rules and the cache *)
(* under the read lock of the rules, with the broker of WsBroker behind it *)
(* and SetRules against it.  The lock is held while the goroutine waits    *)
(* for upstreamSubMux and for the node.                                    *)
(*                                                                         *)
(* Other methods go through the same function to HandleRequest: they are   *)
(* the requests of kind "ws" in JsonRpcHandler.                            *)
(***************************************************************************)
EXTENDS AccessRules, FiniteSets

CONSTANTS
    Clients, Params, IDs, Conns, NoID, NoParam, NoConn, Nobody,  \* see WsBroker
    RuleSets,   \* contents of the configuration: rules and default action
    None

Methods == {"subscribe", "unsubscribe", "unsubscribe_all"}

\* NoParam: params that are not a query, and those of unsubscribe_all
Requests == [method : {"subscribe", "unsubscribe"}, param : Params \cup {NoParam}]
            \cup [method : {"unsubscribe_all"}, param : {NoParam}]

Caches == [cacheError : BOOLEAN, cacheEmptyResult : BOOLEAN]
Rules  == [action : {"allow", "deny", "other"}, keys : SUBSET Methods, cache : Caches \cup {None}]

ASSUME RuleSetsAssumption ==
    RuleSets \subseteq [rules : Seq(Rules), default : {"allow", "deny"}]
ASSUME NoneAssumption == None \notin Caches \cup Requests
ASSUME BrokerAssumption ==
    NoID \notin IDs /\ NoParam \notin Params /\ NoConn \notin Conns /\ Nobody \notin Clients

VARIABLES
    paramToID, idToParam, clientMaps, clientSubscriptions, subscriptionID,
    subscriptionParam, subscriptionConn, subByParam, upstreamSubMux, pc, param, subID,
    todo, closeTry, onDisconnect, sending, told, failed, lost,   \* see WsBroker
    inForce,         \* rules and default action
    setting,         \* argument of a SetRules that waits for the write lock, or None
    stage, request,  \* client's goroutine -> where handleRequest is, what it serves
    result,          \* what HandleSubscription has returned
    cached,          \* request -> response in the cache, or none
    knows            \* ghost: what the last answer of the broker told the client

brokerVars ==
    <<paramToID, idToParam, clientMaps, clientSubscriptions, subscriptionID,
      subscriptionParam, subscriptionConn, subByParam, upstreamSubMux, pc, param, subID,
      todo, closeTry, onDisconnect, sending, told, failed, lost>>
proxyVars == <<stage, request, result, cached, knows>>
vars == <<brokerVars, inForce, setting, proxyVars>>

\* Cosmos connections, whose managers keep the subscriptions when they reconnect;
\* notifications change nothing that a request reads and are left to WsBroker
Broker == INSTANCE WsBroker WITH Eth <- FALSE, MaxSending <- 0

TypeOK ==
    /\ Broker!TypeOK
    /\ inForce \in RuleSets /\ setting \in RuleSets \cup {None}
    /\ stage \in [Clients -> {"idle", "rlock", "has", "get", "broker", "write", "reply"}]
    /\ request \in [Clients -> Requests \cup {None}]
    /\ result \in [Clients -> {"none", "ok", "error"}]
    /\ cached \in [Requests -> {"none", "ok", "error"}]
    /\ knows \in [Clients -> [Params -> {"on", "off", "unknown"}]]
    /\ \A c \in Clients :
          /\ stage[c] # "broker" => closeTry[c] > 0 \/ pc[c] \in {"idle", "closed", "gone"}
          /\ (stage[c] = "idle") = (request[c] = None)

Init ==
    /\ Broker!Init
    /\ inForce \in RuleSets /\ setting = None
    /\ stage = [c \in Clients |-> "idle"]
    /\ request = [c \in Clients |-> None]
    /\ result = [c \in Clients |-> "none"]
    /\ cached = [r \in Requests |-> "none"]
    /\ knows = [c \in Clients |-> [p \in Params |-> "off"]]

-----------------------------------------------------------------------------
(* SetRules and the lock of the rules *)

Readers == {c \in Clients : stage[c] \notin {"idle", "rlock"}}

SetRules(rs) ==
    /\ setting = None
    /\ setting' = rs
    /\ UNCHANGED <<brokerVars, inForce, proxyVars>>

Install ==
    /\ setting # None
    /\ Readers = {}
    /\ inForce' = setting
    /\ setting' = None
    /\ UNCHANGED <<brokerVars, proxyVars>>

-----------------------------------------------------------------------------
(* handleRequest *)

Goto(c, step) == stage' = [stage EXCEPT ![c] = step]

Rule(c) == CacheOf(inForce.rules, request[c].method, None)

\* what a request is about
About(r) == IF r.method = "unsubscribe_all" THEN Params ELSE Params \cap {r.param}

\* the client knows nothing for certain until it is answered
Receive(c, r) ==
    /\ stage[c] = "idle" /\ pc[c] = "idle"
    /\ request' = [request EXCEPT ![c] = r]
    /\ knows' = [knows EXCEPT ![c] =
                    [p \in Params |-> IF p \in About(r) THEN "unknown" ELSE @[p]]]
    /\ Goto(c, "rlock")
    /\ UNCHANGED <<brokerVars, inForce, setting, result, cached>>

\* handleRequest returns, and with it the read lock
Return(c) ==
    /\ Goto(c, "idle")
    /\ request' = [request EXCEPT ![c] = None]
    /\ result' = [result EXCEPT ![c] = "none"]

\* mutant: the rules are read without the lock, a writer that waits is overtaken
DecideUnlocked(c) == stage[c] = "rlock"

Locks(c) == stage[c] = "rlock" /\ setting = None

\* the rules say no: "unauthorized access"
Denied(c) ==
    /\ Locks(c)
    /\ ~Allows(inForce.rules, inForce.default, request[c].method)
    /\ Goto(c, "write")
    /\ UNCHANGED <<brokerVars, inForce, setting, request, result, cached, knows>>

LooksUp(c) ==
    /\ Locks(c)
    /\ Allows(inForce.rules, inForce.default, request[c].method)
    /\ Rule(c) # None
    /\ Goto(c, "has")
    /\ UNCHANGED <<brokerVars, inForce, setting, request, result, cached, knows>>

\* HandleSubscription; with params that are not a query it returns at once
HandleSubscription(c, r) ==
    /\ IF r.method = "unsubscribe_all" THEN Broker!UnsubscribeAll(c)
       ELSE IF r.param = NoParam THEN Broker!BadParams(c)
       ELSE IF r.method = "subscribe" THEN Broker!Subscribe(c, r.param)
       ELSE Broker!Unsubscribe(c, r.param)
    /\ Goto(c, IF pc'[c] = "idle" THEN "reply" ELSE "broker")
    /\ result' = [result EXCEPT ![c] = IF pc'[c] = "idle" THEN "error" ELSE "none"]
    /\ UNCHANGED <<inForce, setting, request, cached, knows>>

NoCache(c) ==
    /\ Locks(c)
    /\ Allows(inForce.rules, inForce.default, request[c].method)
    /\ Rule(c) = None
    /\ HandleSubscription(c, request[c])

Miss(c) ==
    /\ stage[c] = "has"
    /\ cached[request[c]] = "none"
    /\ HandleSubscription(c, request[c])

Has(c) ==
    /\ stage[c] = "has"
    /\ cached[request[c]] # "none"
    /\ Goto(c, "get")
    /\ UNCHANGED <<brokerVars, inForce, setting, request, result, cached, knows>>

\* the broker is not asked: what the client will hear has nothing to do with it
Get(c) ==
    /\ stage[c] = "get"
    /\ cached[request[c]] # "none"
    /\ Goto(c, "write")
    /\ UNCHANGED <<brokerVars, inForce, setting, request, result, cached, knows>>

\* the entry has gone since Has: an error, and nothing is sent
GetFails(c) ==
    /\ stage[c] = "get"
    /\ cached[request[c]] = "none"
    /\ Return(c)
    /\ UNCHANGED <<brokerVars, inForce, setting, cached, knows>>

\* SendMsg of a cached response or of the refusal has come back, with an error or not
Written(c) ==
    /\ stage[c] = "write"
    /\ Return(c)
    /\ UNCHANGED <<brokerVars, inForce, setting, cached, knows>>

\* What HandleSubscription returns from each of its steps.  unsubscribe_all that
\* fails upstream returns an error and no response.
Returned(step) ==
    IF step \in {"join", "rmLock", "rmForget", "allLeave"} THEN "ok"
    ELSE IF step = "allUp" THEN "none" ELSE "error"

InBroker(c) ==
    /\ stage[c] = "broker"
    /\ Broker!ClientStep(c)
    /\ IF pc'[c] # "idle"
       THEN UNCHANGED <<stage, request, result>>
       ELSE IF Returned(pc[c]) = "none" THEN Return(c)
       ELSE /\ Goto(c, "reply")
            /\ result' = [result EXCEPT ![c] = Returned(pc[c])]
            /\ UNCHANGED request
    /\ UNCHANGED <<inForce, setting, cached, knows>>

\* an error response has no result
Stores(c) ==
    /\ Rule(c) # None
    /\ result[c] = "error" => Rule(c).cacheError /\ Rule(c).cacheEmptyResult

Told(c) == IF request[c].method = "subscribe" THEN "on" ELSE "off"

\* SendMsg of the response, then cache.Set
Reply(c) ==
    /\ stage[c] = "reply"
    /\ knows' = [knows EXCEPT ![c] = [p \in Params |->
                    IF p \in About(request[c]) /\ result[c] = "ok" THEN Told(c) ELSE @[p]]]
    /\ cached' = IF Stores(c) THEN [cached EXCEPT ![request[c]] = result[c]] ELSE cached
    /\ Return(c)
    /\ UNCHANGED <<brokerVars, inForce, setting>>

\* SendMsg fails: nothing is stored
ReplyFails(c) ==
    /\ stage[c] = "reply"
    /\ Return(c)
    /\ UNCHANGED <<brokerVars, inForce, setting, cached, knows>>

\* an entry reaches its TTL
Expire(r) ==
    /\ cached[r] # "none"
    /\ cached' = [cached EXCEPT ![r] = "none"]
    /\ UNCHANGED <<brokerVars, inForce, setting, stage, request, result, knows>>

-----------------------------------------------------------------------------
(* The read loop *)

Disconnect(c) ==
    /\ stage[c] = "idle"
    /\ Broker!Disconnect(c)
    /\ knows' = [knows EXCEPT ![c] = [p \in Params |-> "unknown"]]
    /\ UNCHANGED <<inForce, setting, stage, request, result, cached>>

\* Match panics (see JsonRpcHandler): the deferred calls unlock and close the client.
Panics(c) ==
    /\ Locks(c)
    /\ inForce.rules # <<>>
    /\ Return(c)
    /\ Broker!Disconnect(c)
    /\ knows' = [knows EXCEPT ![c] = [p \in Params |-> "unknown"]]
    /\ UNCHANGED <<inForce, setting, cached>>

InClose(c) ==
    /\ stage[c] = "idle"
    /\ Broker!ClientStep(c)
    /\ UNCHANGED <<inForce, setting, proxyVars>>

Decides(c) == Denied(c) \/ LooksUp(c) \/ NoCache(c)

\* SendMsg writes to the client, under the read lock and without a deadline
Writing(c) == stage[c] \in {"write", "reply"}

Sent(c) == Written(c) \/ Reply(c) \/ ReplyFails(c)

Step(c) ==
    \/ Decides(c) \/ Panics(c) \/ Has(c) \/ Miss(c) \/ Get(c) \/ GetFails(c)
    \/ InBroker(c) \/ InClose(c)

Next ==
    \/ \E rs \in RuleSets : SetRules(rs)
    \/ Install
    \/ \E c \in Clients :
          Step(c) \/ Sent(c) \/ Disconnect(c) \/ \E r \in Requests : Receive(c, r)
    \/ \E r \in Requests : Expire(r)

Spec == Init /\ [][Next]_vars

(* A goroutine goes on, and one that waits for a lock gets it in the end, for   *)
(* sync.RWMutex lets the waiting readers in before the next writer and          *)
(* sync.Mutex hands itself to who has waited long.  SF covers both: all steps   *)
(* but those that take a lock stay enabled until they are taken.  Nothing makes *)
(* a client read, so there is no fairness for Sent: a write may never come back.*)
Fairness == WF_vars(Install) /\ \A c \in Clients : SF_vars(Step(c))

FairSpec == Spec /\ Fairness

-----------------------------------------------------------------------------
(* Properties *)

Served(c, p) ==
    /\ paramToID[p] \in IDs
    /\ c \in clientSubscriptions[paramToID[p]]
    /\ Broker!Forwarded(paramToID[p], p)

\* What the broker has answered last is true as long as the client asks for nothing
\* else: "subscribed" means that notifications come, "unsubscribed" that no more
\* are sent, whatever rules deny, fail or change meanwhile.  (Nothing is claimed
\* of an answer out of the cache, which takes no one to the broker.)
AnswersAreTrue ==
    \A c \in Clients, p \in Params :
        /\ knows[c][p] = "on" => Served(c, p)
        /\ knows[c][p] = "off" => \A i \in IDs : idToParam[i] = p => c \notin clientSubscriptions[i]

\* Every message and every Close comes to its end, although goroutines wait for
\* the rules, for upstreamSubMux and for the node at the same time: if the client
\* itself reads what is written to it, and no SetRules waits for ever, another
\* client that does not read stops nobody.
RequestsEnd ==
    \A c \in Clients :
        []<>~Writing(c) /\ []<>(setting = None) =>
            (stage[c] # "idle" \/ pc[c] # "idle"
                ~> stage[c] = "idle" /\ pc[c] \in {"idle", "closed", "gone"})

\* SetRules gets its lock, although messages keep coming and the requests it waits
\* for wait for each other and for the node, if every client reads what is written
\* to it: one that does not keeps the read lock, and with it SetRules.
SetRulesReturns ==
    (\A c \in Clients : []<>~Writing(c)) => (setting # None ~> setting = None)
=============================================================================
