---------------------------- MODULE UpstreamConn ----------------------------
(***************************************************************************)
(* One connection manager to the node (ws_upstream_cosmos.go and           *)
(* ws_upstream_eth.go): the goroutine Run, which connects, re-submits      *)
(* subscriptions, and is the only reader of the connection; the goroutines *)
(* that call MakeRequest, Subscribe and Unsubscribe and wait for Run to    *)
(* hand them the response over an unbuffered channel kept in respMap; and, *)
(* external to the code, the link and the node behind it.                  *)
(*                                                                         *)
(* A channel is named by the goroutine that made it.  When the goroutine   *)
(* returns from makeRequestWithID nobody receives from the channel again:  *)
(* what still refers to it refers to Orphan.                               *)
(*                                                                         *)
(* Subscribe and Unsubscribe are called under UpstreamPool.subMux, so one  *)
(* goroutine, Sub, stands for all of their callers.                        *)
(***************************************************************************)
EXTENDS Naturals, Sequences, FiniteSets

CONSTANTS
    Callers,     \* goroutines that call MakeRequest
    Sub, Run,    \* the caller under subMux, the goroutine of Run
    Params,      \* subscription queries
    IDs,         \* ids that the id generator draws
    SubIDs,      \* Eth: subscription ids that the node chooses
    NoID, None, Orphan,
    Eth,         \* TRUE: UpstreamConnManagerEth
    MaxInbox     \* bound on messages from the node that Run has not read

Procs == Callers \cup {Sub, Run}

ASSUME ProcAssumption ==
    /\ Sub # Run /\ {Sub, Run} \cap Callers = {}
    /\ {None, Orphan} \cap Procs = {} /\ None # Orphan
    /\ NoID \notin IDs \cup SubIDs /\ IDs \cap SubIDs = {}
    /\ Eth \in BOOLEAN /\ MaxInbox \in Nat

VARIABLES
    run,         \* where Run is
    wc,          \* the channel that Run sends on
    todo,        \* queries that reSubmitSubscriptions has not visited
    client,      \* u.client: nil, open, closed
    respMap,     \* id -> channel
    chanClosed,  \* channels that Run has closed
    generated,   \* ids in use according to UniqueID
    subByParam,  \* query -> subscription id (subByID is its inverse)
    step, op, rid, arg, ch, got,   \* makeRequestWithID in each goroutine
    held,        \* the pool's subscription ids: query -> id
    link, pending, nodeSubs, inbox,  \* external: link, node, messages to us
    crashed      \* the process has ended in a panic

runVars  == <<run, wc, todo, client>>
respVars == <<respMap, chanClosed>>
procVars == <<step, op, rid, arg, ch, got>>
nodeVars == <<link, pending, nodeSubs, inbox>>
vars == <<runVars, respVars, generated, subByParam, procVars, held, nodeVars, crashed>>

AllIDs   == IDs \cup SubIDs
Requests == [by : Procs, id : IDs, op : {"request", "subscribe", "unsubscribe"},
             arg : Params \cup {None}]
Messages == [kind : {"response"}, id : IDs, ok : BOOLEAN, sub : AllIDs \cup {NoID}]
            \cup [kind : {"event"}, id : AllIDs]

TypeOK ==
    /\ run \in {"connect", "reset", "resubmit", "submitting", "read", "deliver"}
    /\ wc \in Procs \cup {None, Orphan}
    /\ todo \subseteq Params
    /\ client \in {"nil", "open", "closed"}
    /\ respMap \in [IDs -> Procs \cup {None, Orphan}]
    /\ chanClosed \subseteq Procs
    /\ generated \subseteq IDs
    /\ subByParam \in [Params -> AllIDs \cup {NoID}]
    /\ step \in [Procs -> {"idle", "put", "send", "sent", "select", "got", "expired"}]
    /\ op \in [Procs -> {"none", "request", "subscribe", "unsubscribe"}]
    /\ rid \in [Procs -> IDs \cup {NoID}]
    /\ arg \in [Procs -> Params \cup {None}]
    /\ ch \in [Procs -> Procs \cup {None, Orphan}]
    /\ got \in [Procs -> AllIDs \cup {NoID}]
    /\ held \in [Params -> AllIDs \cup {NoID}]
    /\ link \in {"up", "down", "odd"}
    /\ pending \subseteq Requests
    /\ nodeSubs \subseteq [sub : AllIDs, param : Params]
    /\ inbox \in Seq(Messages) /\ Len(inbox) <= MaxInbox
    /\ crashed \in {"no", "closedChannel", "repeatedRead"}

Init ==
    /\ run = "connect" /\ wc = None /\ todo = {} /\ client = "nil"
    /\ respMap = [i \in IDs |-> None] /\ chanClosed = {}
    /\ generated = {}
    /\ subByParam = [p \in Params |-> NoID]
    /\ step = [q \in Procs |-> "idle"]
    /\ op = [q \in Procs |-> "none"]
    /\ rid = [q \in Procs |-> NoID]
    /\ arg = [q \in Procs |-> None]
    /\ ch = [q \in Procs |-> None]
    /\ got = [q \in Procs |-> NoID]
    /\ held = [p \in Params |-> NoID]
    /\ link = "down" /\ pending = {} /\ nodeSubs = {} /\ inbox = <<>>
    /\ crashed = "no"

-----------------------------------------------------------------------------
(* makeRequestWithID *)

Alive == crashed = "no" /\ UNCHANGED crashed

Goto(q, s) == step' = [step EXCEPT ![q] = s]

\* mutant: ids in use are drawn again
AnyID(i) == i \in IDs

\* UniqueID.ID is atomic here: its Load and Store are one step.  A draw
\* from 2^31 does not hit, by chance, an id that somebody or some message still uses.
NewID(i) ==
    /\ i \in IDs \ generated
    /\ \A q \in Procs : rid[q] # i
    /\ \A p \in Params : subByParam[p] # i
    /\ \A r \in pending : r.id # i
    /\ \A n \in 1..Len(inbox) : inbox[n].id # i
    /\ \A n \in nodeSubs : n.sub # i

Begin(q, o, a, i) ==
    /\ step[q] = "idle"
    /\ Goto(q, "put")
    /\ op' = [op EXCEPT ![q] = o]
    /\ arg' = [arg EXCEPT ![q] = a]
    /\ rid' = [rid EXCEPT ![q] = i]
    /\ UNCHANGED <<wc, client, respVars, subByParam, ch, got, held, nodeVars>>

\* The goroutine leaves makeRequestWithID, and its channel has no receiver.
Leave(q, map) ==
    LET kept(x) == IF x = q THEN Orphan ELSE x
    IN  /\ step' = [step EXCEPT ![q] = "idle"]
        /\ op' = [op EXCEPT ![q] = "none"]
        /\ rid' = [rid EXCEPT ![q] = NoID]
        /\ arg' = [arg EXCEPT ![q] = None]
        /\ got' = [got EXCEPT ![q] = NoID]
        /\ ch' = [x \in Procs |-> IF x = q THEN None ELSE kept(ch[x])]
        /\ respMap' = [i \in IDs |-> kept(map[i])]
        /\ wc' = kept(wc)
        /\ chanClosed' = chanClosed \ {q}

\* The connection ends: the node forgets its requests and subscriptions.
Hangup(cl, how, unread) ==
    /\ client' = cl
    /\ link' = how
    /\ pending' = {}
    /\ nodeSubs' = {}
    /\ inbox' = unread

\* What the caller does with an error: MakeRequest and the subscribe functions
\* release the id; Run closes the connection and starts over.
Fail(q, map) ==
    /\ Alive
    /\ Leave(q, map)
    /\ generated' = generated \ {rid[q]}
    /\ IF q = Run
       THEN run' = "connect" /\ Hangup("closed", "down", <<>>)
       ELSE UNCHANGED <<run, client, nodeVars>>
    /\ UNCHANGED <<todo, subByParam, held>>

\* Eth: the client is checked before the channel is made
EthClosed(q) ==
    /\ Eth
    /\ step[q] = "put"
    /\ client # "open"
    /\ Fail(q, respMap)

Put(q) ==
    /\ Alive
    /\ step[q] = "put"
    /\ Eth => client = "open"
    /\ respMap' = [respMap EXCEPT ![rid[q]] = q]
    /\ Goto(q, "send")
    /\ UNCHANGED <<runVars, chanClosed, generated, subByParam, op, rid, arg, ch, got,
                   held, nodeVars>>

\* A write on a link that has failed may succeed all the same: it is lost.
SendOK(q) ==
    /\ Alive
    /\ step[q] = "send"
    /\ client = "open"
    /\ pending' = IF link = "up"
                  THEN pending \cup {[by |-> q, id |-> rid[q], op |-> op[q], arg |-> arg[q]]}
                  ELSE pending
    /\ Goto(q, "sent")
    /\ UNCHANGED <<runVars, respVars, generated, subByParam, op, rid, arg, ch, got, held,
                   link, nodeSubs, inbox>>

\* the early return keeps the entry of respMap
SendFailed(q) ==
    /\ step[q] = "send"
    /\ client # "open" \/ link # "up"
    /\ Fail(q, respMap)

\* the select reads the channel from respMap, once and without the lock
Select(q) ==
    /\ Alive
    /\ step[q] = "sent"
    /\ ch' = [ch EXCEPT ![q] = respMap[rid[q]]]
    /\ Goto(q, "select")
    /\ UNCHANGED <<runVars, respVars, generated, subByParam, op, rid, arg, got, held,
                   nodeVars>>

\* mutant: only the end of the connection ends the wait
TimeoutWhenClosed(q) ==
    /\ Alive
    /\ step[q] = "select"
    /\ client = "closed"
    /\ Goto(q, "expired")
    /\ UNCHANGED <<runVars, respVars, generated, subByParam, op, rid, arg, ch, got, held,
                   nodeVars>>

Timeout(q) ==
    /\ Alive
    /\ step[q] = "select"
    /\ Goto(q, "expired")
    /\ UNCHANGED <<runVars, respVars, generated, subByParam, op, rid, arg, ch, got, held,
                   nodeVars>>

DeleteEntry(q) == [respMap EXCEPT ![rid[q]] = None]

\* mutant: the timeout branch does not delete the entry
TimedOutKeepsEntry(q) ==
    /\ step[q] = "expired"
    /\ Fail(q, respMap)

TimedOut(q) ==
    /\ step[q] = "expired"
    /\ Fail(q, DeleteEntry(q))

-----------------------------------------------------------------------------
(* The callers.  A response has been received; its entry is deleted.  *)

MakeRequest(q, i) ==
    /\ Alive
    /\ NewID(i)
    /\ generated' = generated \cup {i}
    /\ Begin(q, "request", None, i)
    /\ UNCHANGED <<run, todo>>

Answered(q) ==
    /\ Alive
    /\ step[q] = "got" /\ op[q] = "request"
    /\ Leave(q, DeleteEntry(q))
    /\ generated' = generated \ {rid[q]}
    /\ UNCHANGED <<run, todo, client, subByParam, held, nodeVars>>

\* pool.Subscribe asks for queries it has no id of; HasSubscription is the check
\* of the manager itself
Subscribe(p, i) ==
    /\ Alive
    /\ held[p] = NoID
    /\ subByParam[p] = NoID
    /\ NewID(i)
    /\ generated' = generated \cup {i}
    /\ Begin(Sub, "subscribe", p, i)
    /\ UNCHANGED <<run, todo>>

\* Cosmos: the subscription has the id of the request, and an error in the
\* response is not looked at
SubscribedCosmos(q) ==
    /\ Alive
    /\ ~Eth
    /\ step[q] = "got" /\ op[q] = "subscribe"
    /\ subByParam' = [subByParam EXCEPT ![arg[q]] = rid[q]]
    /\ Leave(q, DeleteEntry(q))
    /\ IF q = Run
       THEN run' = "resubmit" /\ todo' = todo \ {arg[q]} /\ held' = held
       ELSE held' = [held EXCEPT ![arg[q]] = rid[q]] /\ UNCHANGED <<run, todo>>
    /\ UNCHANGED <<client, generated, nodeVars>>

\* Eth: the result is the subscription id; the id of the request is released
SubscribedEth ==
    /\ Alive
    /\ Eth
    /\ step[Sub] = "got" /\ op[Sub] = "subscribe" /\ got[Sub] # NoID
    /\ subByParam' = [subByParam EXCEPT ![arg[Sub]] = got[Sub]]
    /\ held' = [held EXCEPT ![arg[Sub]] = got[Sub]]
    /\ generated' = generated \ {rid[Sub]}
    /\ Leave(Sub, DeleteEntry(Sub))
    /\ UNCHANGED <<run, todo, client, nodeVars>>

\* Eth: no result; the type assertion panics in the handler of the client,
\* which is recovered after the deferred calls have run
RefusedEth ==
    /\ Eth
    /\ step[Sub] = "got" /\ op[Sub] = "subscribe" /\ got[Sub] = NoID
    /\ Fail(Sub, DeleteEntry(Sub))

Unsubscribe(p, i) ==
    /\ Alive
    /\ held[p] # NoID
    /\ NewID(i)
    /\ generated' = generated \cup {i}
    /\ Begin(Sub, "unsubscribe", p, i)
    /\ UNCHANGED <<run, todo>>

\* mutant: the manager keeps the subscription
UnsubscribedKeeps ==
    /\ Alive
    /\ step[Sub] = "got" /\ op[Sub] = "unsubscribe"
    /\ generated' = generated \ {rid[Sub]}
    /\ held' = [held EXCEPT ![arg[Sub]] = NoID]
    /\ Leave(Sub, DeleteEntry(Sub))
    /\ UNCHANGED <<run, todo, client, subByParam, nodeVars>>

\* Cosmos also releases the id of the subscription
Unsubscribed ==
    /\ Alive
    /\ step[Sub] = "got" /\ op[Sub] = "unsubscribe"
    /\ LET s == held[arg[Sub]]
       IN  /\ subByParam' = [p \in Params |-> IF subByParam[p] = s THEN NoID ELSE subByParam[p]]
           /\ generated' = generated \ ({rid[Sub]} \cup (IF Eth THEN {} ELSE {s}))
    /\ held' = [held EXCEPT ![arg[Sub]] = NoID]
    /\ Leave(Sub, DeleteEntry(Sub))
    /\ UNCHANGED <<run, todo, client, nodeVars>>

-----------------------------------------------------------------------------
(* Run *)

\* mutant: the loop ranges over ids instead of queries
ConnectRangesIDs ==
    /\ Alive
    /\ run = "connect"
    /\ Hangup("open", "up", <<>>)
    /\ run' = IF Eth THEN "reset" ELSE "resubmit"
    /\ todo' = {subByParam[p] : p \in Params}
    /\ UNCHANGED <<wc, respVars, generated, subByParam, procVars, held>>

Connect ==
    /\ Alive
    /\ run = "connect"
    /\ Hangup("open", "up", <<>>)
    /\ run' = IF Eth THEN "reset" ELSE "resubmit"
    /\ todo' = Params
    /\ UNCHANGED <<wc, respVars, generated, subByParam, procVars, held>>

\* mutant: the subscriptions are kept
ResetKeepsSubscriptions ==
    /\ Alive
    /\ run = "reset"
    /\ run' = "resubmit"
    /\ respMap' = [i \in IDs |-> None]
    /\ UNCHANGED <<wc, todo, client, chanClosed, generated, subByParam, procVars, held, nodeVars>>

\* Eth: before the subscriptions are re-submitted, everything is forgotten
ResetAll ==
    /\ Alive
    /\ run = "reset"
    /\ run' = "resubmit"
    /\ subByParam' = [p \in Params |-> NoID]
    /\ respMap' = [i \in IDs |-> None]
    /\ UNCHANGED <<wc, todo, client, chanClosed, generated, procVars, held, nodeVars>>

\* reSubmitSubscriptions ranges over subByParam.  Cosmos calls subscribeWithID
\* with the id of the subscription; Eth calls Subscribe, which finds the query
\* and returns ErrSubscriptionExists: the new connection is closed.
Resubmit(p) ==
    /\ Alive
    /\ run = "resubmit"
    /\ p \in todo
    /\ subByParam[p] # NoID
    /\ \/ /\ ~Eth
          /\ run' = "submitting"
          /\ Begin(Run, "subscribe", p, subByParam[p])
       \/ /\ Eth
          /\ run' = "connect"
          /\ Hangup("closed", "down", <<>>)
          /\ UNCHANGED <<wc, respVars, subByParam, procVars, held>>
    /\ UNCHANGED <<todo, generated>>

ResubmitDone ==
    /\ Alive
    /\ run = "resubmit"
    /\ \A p \in todo : subByParam[p] = NoID
    /\ run' = "read"
    /\ todo' = {}
    /\ UNCHANGED <<wc, client, respVars, generated, subByParam, procVars, held, nodeVars>>

\* ReceiveMsg and onUpstreamMessage up to the send on the channel.  Cosmos
\* looks every message up in respMap first; Eth only those with an id.
Read ==
    LET m == Head(inbox)
        c == IF Eth /\ m.kind = "event" THEN None ELSE respMap[m.id]
    IN  /\ crashed = "no"
        /\ run = "read"
        /\ inbox # <<>>
        /\ inbox' = Tail(inbox)
        /\ wc' = IF c \in chanClosed THEN None ELSE c
        /\ run' = IF c \in chanClosed \cup {None} THEN "read" ELSE "deliver"
        /\ crashed' = IF c \in chanClosed THEN "closedChannel" ELSE crashed
        /\ got' = IF c \in Procs \ chanClosed
                  THEN [got EXCEPT ![c] = IF m.kind = "response" THEN m.sub ELSE NoID]
                  ELSE got
        /\ UNCHANGED <<todo, client, respVars, generated, subByParam, step, op, rid, arg, ch,
                       held, link, pending, nodeSubs>>

\* the send meets a select on the same channel, and the channel is closed
Deliver(q) ==
    /\ Alive
    /\ run = "deliver"
    /\ step[q] = "select"
    /\ ch[q] = wc /\ wc # Orphan
    /\ Goto(q, "got")
    /\ got' = [got EXCEPT ![q] = got[wc]]
    /\ chanClosed' = chanClosed \cup {wc}
    /\ wc' = None
    /\ run' = "read"
    /\ UNCHANGED <<todo, client, respMap, generated, subByParam, op, rid, arg, ch,
                   held, nodeVars>>

\* ReceiveMsg meets the end of the connection, and closes it
ReadClosed ==
    /\ Alive
    /\ run = "read"
    /\ inbox = <<>>
    /\ link = "down"
    /\ client' = "closed"
    /\ run' = "connect"
    /\ UNCHANGED <<wc, todo, respVars, generated, subByParam, procVars, held, nodeVars>>

\* a close code that ReceiveMsg does not expect: the failed connection is read
\* again and again until the library panics
ReadRepeated ==
    /\ crashed = "no"
    /\ run = "read"
    /\ inbox = <<>>
    /\ link = "odd"
    /\ crashed' = "repeatedRead"
    /\ UNCHANGED <<runVars, respVars, generated, subByParam, procVars, held, nodeVars>>

-----------------------------------------------------------------------------
(* External: the link and the node *)

LinkLost ==
    /\ Alive
    /\ link = "up"
    /\ \E how \in {"down", "odd"} : Hangup(client, how, inbox)
    /\ UNCHANGED <<run, wc, todo, respVars, generated, subByParam, procVars, held>>

\* The node answers requests in any order; it may refuse a subscription.
NodeAnswers(r) ==
    /\ Alive
    /\ Len(inbox) < MaxInbox
    /\ pending' = pending \ {r}
    /\ \/ /\ r.op = "subscribe"
          /\ \E s \in IF Eth THEN SubIDs \ {n.sub : n \in nodeSubs} ELSE {r.id} :
                /\ \A p \in Params : Eth => held[p] # s
                /\ \A n \in 1..Len(inbox) : Eth => inbox[n].id # s
                /\ nodeSubs' = nodeSubs \cup {[sub |-> s, param |-> r.arg]}
                /\ inbox' = Append(inbox, [kind |-> "response", id |-> r.id, ok |-> TRUE, sub |-> s])
       \/ /\ r.op = "subscribe"
          /\ inbox' = Append(inbox, [kind |-> "response", id |-> r.id, ok |-> FALSE, sub |-> NoID])
          /\ UNCHANGED nodeSubs
       \/ /\ r.op # "subscribe"
          /\ nodeSubs' = {n \in nodeSubs : r.op = "unsubscribe" => n.param # r.arg}
          /\ inbox' = Append(inbox, [kind |-> "response", id |-> r.id, ok |-> TRUE, sub |-> NoID])
    /\ UNCHANGED <<runVars, respVars, generated, subByParam, procVars, held, link>>

\* a request that the node never answers
NodeIgnores(r) ==
    /\ Alive
    /\ pending' = pending \ {r}
    /\ UNCHANGED <<runVars, respVars, generated, subByParam, procVars, held,
                   link, nodeSubs, inbox>>

\* Cosmos notifications have the id of the subscribe request
NodeNotifies(n) ==
    /\ Alive
    /\ Len(inbox) < MaxInbox
    /\ inbox' = Append(inbox, [kind |-> "event", id |-> n.sub])
    /\ UNCHANGED <<runVars, respVars, generated, subByParam, procVars, held,
                   link, pending, nodeSubs>>

-----------------------------------------------------------------------------
RequestStep(q) ==
    \/ EthClosed(q) \/ Put(q) \/ SendOK(q) \/ SendFailed(q) \/ Select(q)
    \/ Timeout(q) \/ TimedOut(q) \/ Answered(q) \/ SubscribedCosmos(q)

SubStep == SubscribedEth \/ RefusedEth \/ Unsubscribed

RunStep ==
    \/ Connect \/ ResetAll \/ ResubmitDone \/ Read \/ ReadClosed \/ ReadRepeated
    \/ \E p \in Params : Resubmit(p)
    \/ \E q \in Procs : Deliver(q)

NodeStep ==
    \/ \E r \in pending : NodeAnswers(r) \/ NodeIgnores(r)
    \/ \E n \in nodeSubs : NodeNotifies(n)

Next ==
    \/ \E q \in Callers, i \in IDs : MakeRequest(q, i)
    \/ \E p \in Params, i \in IDs : Subscribe(p, i) \/ Unsubscribe(p, i)
    \/ \E q \in Procs : RequestStep(q)
    \/ SubStep \/ RunStep \/ LinkLost \/ NodeStep
    \/ crashed # "no" /\ UNCHANGED vars

Spec == Init /\ [][Next]_vars

(* Go runs every goroutine that can run and every timer fires; the node       *)
(* accepts a connection in the end (Dial is repeated every 5 s).             *)
Fairness ==
    /\ WF_vars(RunStep)
    /\ \A q \in Procs : WF_vars(RequestStep(q) \/ (q = Sub /\ SubStep))

FairSpec == Spec /\ Fairness

-----------------------------------------------------------------------------
(* Properties *)

\* What is left in respMap when its goroutine has gone (the early return after a
\* failed send) is never answered, so that Run does not block on it.
LeftoversAreDead ==
    \A i \in IDs : respMap[i] = Orphan =>
        /\ \A r \in pending : r.id # i
        /\ \A n \in 1..Len(inbox) : inbox[n].id # i
        /\ \A n \in nodeSubs : n.sub # i

\* The response that Run is about to hand over can reach one goroutine only: the
\* one that made the channel.  (A second receiver would get nil and panic.)
NoSharedChannel ==
    \A q \in Procs : run = "deliver" /\ step[q] = "select" /\ ch[q] = wc => q = wc

\* A manager forwards notifications only for subscriptions the pool holds, under
\* the id the pool has; a Cosmos manager keeps all of them over reconnects.
ConnMatchesPool ==
    /\ \A p \in Params : subByParam[p] # NoID => subByParam[p] = held[p]
    /\ ~Eth => \A p \in Params : held[p] # NoID => subByParam[p] = held[p]

\* An Eth manager never sends on a channel it has closed: nothing but a response
\* is looked up in respMap, and every request has one response.
NoClosedSend == Eth => crashed # "closedChannel"

\* Every MakeRequest, Subscribe and Unsubscribe returns: with the response, an
\* error or a timeout, also when the connection is lost or Run is blocked.
RequestsEnd ==
    \A q \in Procs \ {Run} : step[q] # "idle" ~> step[q] = "idle" \/ crashed # "no"

\* A manager that has connected again comes back to reading the connection: the
\* re-submission of subscriptions comes to an end.
ReadsAgain == run = "resubmit" ~> run = "read" \/ crashed # "no"
=============================================================================
