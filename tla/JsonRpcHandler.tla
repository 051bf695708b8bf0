--------------------------- MODULE JsonRpcHandler ---------------------------
(***************************************************************************)
(* The path of a JSON-RPC request: handleHttpSingle and handleHttpBatch of *)
(* JsonRpcHandler and handleRequest of JsonRpcWebSocketProxy, the response *)
(* cache that the three share, and SetRules, which replaces the rules      *)
(* while requests are being served.                                        *)
(*                                                                         *)
(* A goroutine serves one HTTP request or one websocket message at a time. *)
(* It holds the read lock of the rules while it decides, and, unless it    *)
(* serves a batch, until the response is written and stored.  A handler    *)
(* that panics is recovered by net/http: its deferred RUnlock runs, but a  *)
(* batch unlocks without defer and leaves the lock locked for good.  A key *)
(* stands for method and params of a request, that is, for what Match and  *)
(* Hash look at; the globs of a rule for the set of keys they match.       *)
(***************************************************************************)
EXTENDS Naturals, Sequences, FiniteSets, FiniteSetsExt

CONSTANTS
    Workers,       \* goroutines that serve requests
    Keys,
    RuleSets,      \* contents of the configuration: rules and default action
    MaxBatch,      \* bound on the requests of a batch
    CacheMayFail,  \* TRUE: the cache is Redis, and its calls may return errors
    None

Kinds  == {"single", "batch", "ws"}
Caches == [enable : BOOLEAN, cacheError : BOOLEAN, cacheEmptyResult : BOOLEAN]
Rules  == [action : {"allow", "deny", "other"}, keys : SUBSET Keys, cache : Caches \cup {None}]

ASSUME RuleSetsAssumption ==
    RuleSets \subseteq [rules : Seq(Rules), default : {"allow", "deny"}]
ASSUME BatchAssumption == MaxBatch \in Nat \ {0}
ASSUME FailAssumption == CacheMayFail \in BOOLEAN

VARIABLES
    rules, wsRules,  \* rules of the handler and of the websocket proxy
    target,          \* argument of the last SetRules
    writer,          \* lock that SetRules waits for: none, handler, ws
    cache,           \* key -> response or None
    pc, kind, reqs,  \* goroutine -> where it is, what it serves
    ruleCache,       \* cache settings of the rule that matched
    items,           \* JsonRpcResponses: settings and response of each request
    out              \* what has been written to the client

confVars == <<rules, wsRules, target, writer>>
vars == <<confVars, cache, pc, kind, reqs, ruleCache, items, out>>

(* Responses.  "garbage" is what ParseJsonRpcMessage makes of a body that is  *)
(* not JSON-RPC, such as that of a 502: a message with nothing in it.        *)
Answers   == [key : Keys, kind : {"ok", "error", "empty"}]
Garbage   == [key |-> None, kind |-> "garbage"]
Cacheable == Answers \cup {Garbage}
Responses == Cacheable \cup [key : Keys, kind : {"denied"}]
Items     == [cache : Caches \cup {None}, resp : Responses \cup {None}]

ASSUME NoneAssumption == None \notin Keys \cup Caches \cup Responses

TypeOK ==
    /\ rules \in RuleSets /\ wsRules \in RuleSets /\ target \in RuleSets
    /\ writer \in {"none", "handler", "ws"}
    /\ cache \in [Keys -> Cacheable \cup {None}]
    /\ pc \in [Workers -> {"idle", "rlock", "decide", "has", "get", "upstream",
                           "store", "reply", "done", "aborted", "leaked"}]
    /\ kind \in [Workers -> Kinds]
    /\ reqs \in [Workers -> Seq(Keys)]
    /\ ruleCache \in [Workers -> Caches \cup {None}]
    /\ items \in [Workers -> Seq(Items)]
    /\ out \in [Workers -> Seq(Responses)]
    /\ \A w \in Workers :
          /\ Len(reqs[w]) <= MaxBatch /\ Len(items[w]) <= Len(reqs[w])
          /\ pc[w] \in {"decide", "has", "get"} => Len(items[w]) < Len(reqs[w])
          /\ pc[w] \in {"upstream", "store", "reply"} => Len(items[w]) = Len(reqs[w])

\* Run calls applyRules before it starts the proxies.
Init ==
    /\ rules \in RuleSets /\ wsRules = rules /\ target = rules
    /\ writer = "none"
    /\ cache = [k \in Keys |-> None]
    /\ pc = [w \in Workers |-> "idle"]
    /\ kind = [w \in Workers |-> "single"]
    /\ reqs = [w \in Workers |-> <<>>]
    /\ ruleCache = [w \in Workers |-> None]
    /\ items = [w \in Workers |-> <<>>]
    /\ out = [w \in Workers |-> <<>>]

-----------------------------------------------------------------------------
(* Rules *)

Match(r, k) == r.keys = {} \/ k \in r.keys

\* A rule with an unknown action is skipped, but ends the search of a batch.
Considered(kd, rs, k) ==
    {i \in 1..Len(rs.rules) :
        Match(rs.rules[i], k) /\ (kd = "batch" \/ rs.rules[i].action # "other")}

Decision(kd, rs, k) ==
    LET m == Considered(kd, rs, k)
        r == rs.rules[Min(m)]
    IN  IF m = {} \/ r.action = "other"
        THEN [action |-> rs.default, cache |-> None, byRule |-> FALSE]
        ELSE [action |-> r.action, cache |-> r.cache, byRule |-> TRUE]

RulesOf(w) == IF kind[w] = "ws" THEN wsRules ELSE rules

\* single and websocket requests look for rule.Cache, a batch only for a rule
LooksUp(w, d) == IF kind[w] = "batch" THEN d.byRule ELSE d.cache # None

\* mutant: the settings of the rule are not looked at
StoresAll(w, it) == it.cache # None /\ it.resp # None

\* neither of the single-request paths looks at Enable.  A response with an
\* error has no result.
Stores(w, it) ==
    /\ it.cache # None
    /\ it.resp # None
    /\ kind[w] = "batch" => it.cache.enable
    /\ it.resp.kind = "error" => it.cache.cacheError
    /\ it.resp.kind # "ok" => it.cache.cacheEmptyResult

-----------------------------------------------------------------------------
(* The locks of the rules, Go's sync.RWMutex: a writer that waits keeps new   *)
(* readers out.  SetRules keeps the lock of the handler while it waits for    *)
(* that of the websocket proxy.                                              *)

Goto(w, l) == pc' = [pc EXCEPT ![w] = l]

\* "leaked": the goroutine has gone and its lock is still locked
HoldsRead(w) ==
    pc[w] \in IF kind[w] = "batch" THEN {"decide", "has", "get", "leaked"}
              ELSE {"decide", "has", "get", "upstream", "store", "reply"}

Readers(ws) == {w \in Workers : HoldsRead(w) /\ (kind[w] = "ws") = ws}

SetRules(rs) ==
    /\ writer = "none"
    /\ writer' = "handler"
    /\ target' = rs
    /\ UNCHANGED <<rules, wsRules, cache, pc, kind, reqs, ruleCache, items, out>>

\* mutant: the rules are replaced without waiting for the readers
SetHandlerAtOnce ==
    /\ writer = "handler"
    /\ rules' = target
    /\ writer' = "ws"
    /\ UNCHANGED <<wsRules, target, cache, pc, kind, reqs, ruleCache, items, out>>

SetHandler ==
    /\ writer = "handler"
    /\ Readers(FALSE) = {}
    /\ rules' = target
    /\ writer' = "ws"
    /\ UNCHANGED <<wsRules, target, cache, pc, kind, reqs, ruleCache, items, out>>

SetWebSocket ==
    /\ writer = "ws"
    /\ Readers(TRUE) = {}
    /\ wsRules' = target
    /\ writer' = "none"
    /\ UNCHANGED <<rules, target, cache, pc, kind, reqs, ruleCache, items, out>>

\* mutant: new readers overtake the writer that waits
RLockOvertakes(w) ==
    /\ pc[w] = "rlock"
    /\ kind[w] # "ws" => writer # "ws"
    /\ Goto(w, "decide")
    /\ UNCHANGED <<confVars, cache, kind, reqs, ruleCache, items, out>>

RLock(w) ==
    /\ pc[w] = "rlock"
    /\ IF kind[w] = "ws" THEN writer # "ws" ELSE writer = "none"
    /\ Goto(w, "decide")
    /\ UNCHANGED <<confVars, cache, kind, reqs, ruleCache, items, out>>

-----------------------------------------------------------------------------
(* Serving a request *)

Receive(w, kd, s) ==
    /\ pc[w] = "idle"
    /\ kd = "batch" \/ Len(s) = 1
    /\ kind' = [kind EXCEPT ![w] = kd]
    /\ reqs' = [reqs EXCEPT ![w] = s]
    /\ Goto(w, "rlock")
    /\ UNCHANGED <<confVars, cache, ruleCache, items, out>>

\* mutant: the list of responses outlives the request
ReturnKeepsItems(w) ==
    /\ pc[w] \in {"done", "aborted"}
    /\ kind' = [kind EXCEPT ![w] = "single"]
    /\ reqs' = [reqs EXCEPT ![w] = <<>>]
    /\ out' = [out EXCEPT ![w] = <<>>]
    /\ Goto(w, "idle")
    /\ UNCHANGED <<confVars, cache, ruleCache, items>>

\* the handler has returned, or has panicked and net/http has closed the connection
Return(w) ==
    /\ pc[w] \in {"done", "aborted"}
    /\ kind' = [kind EXCEPT ![w] = "single"]
    /\ reqs' = [reqs EXCEPT ![w] = <<>>]
    /\ items' = [items EXCEPT ![w] = <<>>]
    /\ out' = [out EXCEPT ![w] = <<>>]
    /\ Goto(w, "idle")
    /\ UNCHANGED <<confVars, cache, ruleCache>>

Key(w) == reqs[w][Len(items[w]) + 1]

\* The current request has its place in the list of responses.
Add(w, c, r) ==
    LET all == Append(items[w], [cache |-> c, resp |-> r])
    IN  /\ items' = [items EXCEPT ![w] = all]
        /\ ruleCache' = [ruleCache EXCEPT ![w] = None]
        /\ Goto(w, CASE Len(all) < Len(reqs[w]) -> "decide"
                     [] Len(all) = Len(reqs[w]) ->
                        IF \E i \in DOMAIN all : all[i].resp = None THEN "upstream" ELSE "reply")
        /\ UNCHANGED <<confVars, cache, kind, reqs, out>>

Decide(w) ==
    /\ pc[w] = "decide"
    /\ LET d == Decision(kind[w], RulesOf(w), Key(w))
       IN  \/ d.action = "deny" /\ Add(w, None, [key |-> Key(w), kind |-> "denied"])
           \/ d.action = "allow" /\ ~LooksUp(w, d) /\ Add(w, None, None)
           \/ /\ d.action = "allow" /\ LooksUp(w, d)
              /\ ruleCache' = [ruleCache EXCEPT ![w] = d.cache]
              /\ Goto(w, "has")
              /\ UNCHANGED <<confVars, cache, kind, reqs, items, out>>

\* The goroutine ends its request in a panic; nothing of the request is left.
Panic(w, l) ==
    /\ Goto(w, l)
    /\ reqs' = [reqs EXCEPT ![w] = <<>>]
    /\ items' = [items EXCEPT ![w] = <<>>]
    /\ UNCHANGED <<confVars, cache, kind, ruleCache, out>>

\* A panic while the request is looked at: Match reads past the end of params that
\* are shorter than those of a rule, or an element of a batch is null.
DecidePanics(w) ==
    /\ pc[w] = "decide"
    /\ kind[w] = "batch" \/ RulesOf(w).rules # <<>>
    /\ Panic(w, IF kind[w] = "batch" THEN "leaked" ELSE "aborted")

Has(w) ==
    /\ pc[w] = "has"
    /\ \/ /\ cache[Key(w)] # None
          /\ Goto(w, "get")
          /\ UNCHANGED <<confVars, cache, kind, reqs, ruleCache, items, out>>
       \/ /\ cache[Key(w)] = None \/ CacheMayFail
          /\ Add(w, ruleCache[w], None)

\* The error is returned to HandleConnection, and the client gets no answer.
Drop(w) ==
    /\ Goto(w, "done")
    /\ ruleCache' = [ruleCache EXCEPT ![w] = None]
    /\ UNCHANGED <<confVars, cache, kind, reqs, items, out>>

\* mutant: an error from the cache ends every request
GetOrDrop(w) ==
    /\ pc[w] = "get"
    /\ \/ cache[Key(w)] # None /\ Add(w, None, cache[Key(w)])
       \/ cache[Key(w)] = None /\ Drop(w)

\* the entry may have expired since Has
Get(w) ==
    /\ pc[w] = "get"
    /\ \/ cache[Key(w)] # None /\ Add(w, None, cache[Key(w)])
       \/ /\ cache[Key(w)] = None \/ CacheMayFail
          /\ IF kind[w] = "ws" THEN Drop(w) ELSE Add(w, ruleCache[w], None)

\* the place of i among the members of S
Rank(S, i) == Cardinality({j \in S : j <= i})

Pending(w) == {i \in DOMAIN items[w] : items[w][i].resp = None}

\* GetFinal: the responses that are there, in the order of the requests
Final(w) ==
    LET given == DOMAIN items[w] \ Pending(w)
    IN  [n \in 1..Cardinality(given) |->
            items[w][CHOOSE i \in given : Rank(given, i) = n].resp]

\* mutant: the responses are matched with all requests, not with the pending ones
FilledFromFirst(w, rs) ==
    [i \in DOMAIN items[w] |->
        IF i <= Len(rs) THEN [items[w][i] EXCEPT !.resp = rs[i]] ELSE items[w][i]]

\* JsonRpcResponses.Set: the responses in the order of the pending requests
Filled(w, rs) ==
    [i \in DOMAIN items[w] |->
        IF i \in Pending(w)
        THEN [items[w][i] EXCEPT !.resp = rs[Rank(Pending(w), i)]]
        ELSE items[w][i]]

\* external: what the node makes of the pending requests, in their order
NodeAnswers(w) ==
    {rs \in [1..Cardinality(Pending(w)) -> Answers] :
        \A i \in Pending(w) : rs[Rank(Pending(w), i)].key = reqs[w][i]}

\* A websocket or single response is written as soon as it is there; a batch of
\* which the node answers only some keeps its pending requests unanswered.
Upstream(w) ==
    /\ pc[w] = "upstream"
    /\ \E rs \in NodeAnswers(w) \cup (IF kind[w] = "ws" THEN {} ELSE {<<Garbage>>}) :
          /\ items' = [items EXCEPT ![w] =
                        IF Len(rs) = Cardinality(Pending(w)) THEN Filled(w, rs) ELSE items[w]]
          /\ out' = IF kind[w] = "batch" THEN out ELSE [out EXCEPT ![w] = rs]
          /\ Goto(w, "store")
    /\ UNCHANGED <<confVars, cache, kind, reqs, ruleCache>>

\* next, a ReverseProxy, panics when the node's answer breaks off; the handler does
\* when it parses an answer that it wants to cache and that is an array.
UpstreamPanics(w) ==
    /\ pc[w] = "upstream"
    /\ kind[w] # "ws"
    /\ Panic(w, "aborted")

\* the broker returns an error (a timeout is one), or the client has gone
WsFails(w) ==
    /\ pc[w] \in {"upstream", "reply"}
    /\ kind[w] = "ws"
    /\ Drop(w)

\* StoreInCache stops at the first error from the cache
Store(w) ==
    /\ pc[w] = "store"
    /\ \E n \in IF CacheMayFail THEN 0..Len(items[w]) ELSE {Len(items[w])} :
          LET put(k) == {i \in 1..n : Stores(w, items[w][i]) /\ reqs[w][i] = k}
          IN  cache' = [k \in Keys |-> IF put(k) = {} THEN cache[k] ELSE items[w][Max(put(k))].resp]
    /\ Goto(w, IF kind[w] = "batch" THEN "reply" ELSE "done")
    /\ UNCHANGED <<confVars, kind, reqs, ruleCache, items, out>>

Reply(w) ==
    /\ pc[w] = "reply"
    /\ out' = [out EXCEPT ![w] = Final(w)]
    /\ Goto(w, "done")
    /\ UNCHANGED <<confVars, cache, kind, reqs, ruleCache, items>>

\* the TTL of an entry ends
Expire(k) ==
    /\ cache[k] # None
    /\ cache' = [cache EXCEPT ![k] = None]
    /\ UNCHANGED <<confVars, pc, kind, reqs, ruleCache, items, out>>

-----------------------------------------------------------------------------
\* the goroutine waits for the node to answer, or for the client to read
Waiting(w) == pc[w] \in {"upstream", "reply"}

WaitEnds(w) == Upstream(w) \/ UpstreamPanics(w) \/ WsFails(w) \/ Reply(w)

Advance(w) == Decide(w) \/ DecidePanics(w) \/ Has(w) \/ Get(w) \/ Store(w) \/ Return(w)

Serve(w) == Advance(w) \/ WaitEnds(w)

\* SetRules, and every request of the handler behind it, wait for a leaked lock
Stuck ==
    /\ writer = "handler"
    /\ \A w \in Workers : pc[w] = "leaked" \/ (pc[w] = "rlock" /\ kind[w] # "ws")
    /\ UNCHANGED vars

Replace == SetHandler \/ SetWebSocket

Batches == UNION {[1..n -> Keys] : n \in 1..MaxBatch}

Next ==
    \/ \E rs \in RuleSets : SetRules(rs)
    \/ Replace
    \/ \E w \in Workers, kd \in Kinds, s \in Batches : Receive(w, kd, s)
    \/ \E w \in Workers : RLock(w) \/ Serve(w)
    \/ \E k \in Keys : Expire(k)
    \/ Stuck

Spec == Init /\ [][Next]_vars

(* Goroutines that can run do; a reader that waited behind a writer is let in *)
(* when the writer unlocks, before the next one (sync.RWMutex), hence SF.     *)
(* Neither the transport nor the server sets a deadline for the node's answer *)
(* or for a write to the client: WaitEnds may never happen.                   *)
Fairness ==
    /\ WF_vars(Replace)
    /\ \A w \in Workers : SF_vars(RLock(w)) /\ WF_vars(Advance(w))

FairSpec == Spec /\ Fairness

-----------------------------------------------------------------------------
(* Properties *)

\* As long as a goroutine holds the read lock, what it has decided is what the
\* rules in force say: a request that is forwarded, answered or stored under the
\* lock is one they allow, and the requests of a batch are decided by one rule
\* set, whatever reload arrives meanwhile.
DecisionsInForce ==
    \A w \in Workers : HoldsRead(w) =>
        \A i \in DOMAIN items[w] :
            LET denied == items[w][i].resp # None /\ items[w][i].resp.kind = "denied"
            IN  denied <=> Decision(kind[w], RulesOf(w), reqs[w][i]).action = "deny"

\* What is in the cache under a key is an answer to that key, and the first rule
\* that matches the key in some configuration wants such answers cached.
\* CacheError and CacheEmptyResult are settings of the rule, the cache is shared
\* by three paths and survives reloads.
CachedIsWanted ==
    \A k \in Keys : cache[k] # None =>
        /\ cache[k].key \in {k, None}
        /\ \E rs \in RuleSets, kd \in Kinds :
              LET d == Decision(kd, rs, k)
              IN  /\ d.action = "allow" /\ d.cache # None
                  /\ cache[k].kind = "error" => d.cache.cacheError
                  /\ cache[k].kind # "ok" => d.cache.cacheEmptyResult

\* Every response stands at the place of the request that it answers, whether it
\* comes from the rules, the cache or the node, and what the client gets answers
\* its requests in their order; those that the node did not answer are left out.
RepliesMatch ==
    \A w \in Workers :
        /\ \A i \in DOMAIN items[w] :
              items[w][i].resp # None => items[w][i].resp.key \in {reqs[w][i], None}
        /\ \E kept \in SUBSET (DOMAIN reqs[w]) :
              /\ Cardinality(kept) = Len(out[w])
              /\ \A i \in kept :
                    out[w][Rank(kept, i)].key \in {reqs[w][i], None}

\* A single HTTP request is answered with one response, also when its cache entry
\* expires between Has and Get or while rules are being replaced, unless its handler
\* panics and the connection is closed.  It waits for ever only for the node, for its
\* client, or for a SetRules that never returns.
SingleAnswered ==
    \A w \in Workers :
        []<>~Waiting(w) /\ []<>(writer = "none") =>
            (pc[w] = "rlock" /\ kind[w] = "single"
                ~> pc[w] = "aborted" \/ (pc[w] = "done" /\ Len(out[w]) = 1))

Leaked == \E w \in Workers : pc[w] = "leaked"

\* no request holds the read lock for ever because of its node or its client
ReadersMoveOn == \A w \in Workers : []<>~(HoldsRead(w) /\ Waiting(w))

\* SetRules returns if no batch has panicked: requests that arrive while it waits do
\* not overtake it, and it does not wait for the websocket lock while a reader waits
\* for the handler's.
SetRulesReturns == ReadersMoveOn => (writer # "none" ~> writer = "none" \/ Leaked)

\* What README.md says of hot reloading, that rules are updated without a restart of
\* the application: SetRules returns, whatever requests have been served before.
RulesUpdate == ReadersMoveOn => (writer # "none" ~> writer = "none")
=============================================================================
