------------------------------ MODULE HttpProxy ------------------------------
(***************************************************************************)
(* The HTTP proxy in front of the LCD, RPC and EVM ports (http_proxy.go):  *)
(* ServeHTTP with allow, deny, cacheHit and cacheMiss, and SetRules, which *)
(* replaces the rules while requests are being served.                     *)
(*                                                                         *)
(* net/http runs one goroutine per request.  ServeHTTP takes the read lock *)
(* of the rules before it looks at them and keeps it until it returns,     *)
(* that is, until the node has answered and the response is stored.  A key *)
(* stands for method, URL and body: what Match and getRequestHash look at. *)
(* The body has been read into memory before, so the hash cannot fail.     *)
(***************************************************************************)
EXTENDS ProxyRules

CONSTANTS
    Workers,      \* goroutines that serve requests
    CacheMayFail  \* TRUE: the cache is Redis, and its calls may return errors

\* RuleAction, "" where it is not set
Actions == {"allow", "deny", ""}

VARIABLES
    rules, defaultAction,
    setting,    \* SetRules waits for the write lock
    cache,      \* key -> response or None
    pc, key,    \* goroutine -> where it is, what it serves
    ruleCache,  \* cache section of the rule that allowed the request
    reply       \* what the client has been sent

confVars == <<rules, defaultAction, setting>>
vars == <<confVars, cache, pc, key, ruleCache, reply>>

\* an answer of the node, 502 included; every other status than 200 is an error
Answers == [key : Keys, kind : {"ok", "error"}]
\* "unauthorized" of deny; the empty body that net/http sends for a handler that
\* has written nothing; a response that was cut off
Replies == Answers \cup [key : Keys, kind : {"denied", "empty", "aborted"}]

TypeOK ==
    /\ rules \in Seq(Rules) /\ defaultAction \in Actions
    /\ setting \in BOOLEAN
    /\ cache \in [Keys -> Answers \cup {None}]
    /\ pc \in [Workers -> {"idle", "endpoint", "rlock", "match", "default", "has", "hit",
                           "forward", "store", "done"}]
    /\ key \in [Workers -> Keys \cup {None}]
    /\ ruleCache \in [Workers -> Caches \cup {None}]
    /\ reply \in [Workers -> Replies \cup {None}]

Init ==
    /\ rules = <<>> /\ defaultAction = "" /\ setting = FALSE
    /\ cache = [k \in Keys |-> None]
    /\ pc = [w \in Workers |-> "idle"]
    /\ key = [w \in Workers |-> None]
    /\ ruleCache = [w \in Workers |-> None]
    /\ reply = [w \in Workers |-> None]

-----------------------------------------------------------------------------
(* SetRules and the lock, Go's sync.RWMutex: a writer that waits keeps new    *)
(* readers out.                                                              *)

Goto(w, step) == pc' = [pc EXCEPT ![w] = step]

\* mutant: the lock is released once the request is decided
Deciding == {w \in Workers : pc[w] \in {"match", "default"}}

\* the deferred RUnlock runs when ServeHTTP returns
Readers == {w \in Workers : pc[w] \notin {"idle", "endpoint", "rlock"}}

SetRules ==
    /\ ~setting
    /\ setting' = TRUE
    /\ UNCHANGED <<rules, defaultAction, cache, pc, key, ruleCache, reply>>

\* mutant: the fields are assigned without the lock
InstallUnlocked(rs, default) ==
    /\ setting
    /\ rules' = rs
    /\ defaultAction' = default
    /\ setting' = FALSE
    /\ UNCHANGED <<cache, pc, key, ruleCache, reply>>

\* Both fields change under the write lock: one step for everyone else.
Install(rs, default) ==
    /\ setting
    /\ Readers = {}
    /\ rules' = rs
    /\ defaultAction' = default
    /\ setting' = FALSE
    /\ UNCHANGED <<cache, pc, key, ruleCache, reply>>

-----------------------------------------------------------------------------
(* ServeHTTP *)

\* a configured endpoint has its own handler, and no rule of this proxy is asked
Endpoint(w) ==
    /\ pc[w] = "idle"
    /\ Goto(w, "endpoint")
    /\ UNCHANGED <<confVars, cache, key, ruleCache, reply>>

EndpointEnds(w) ==
    /\ pc[w] = "endpoint"
    /\ Goto(w, "idle")
    /\ UNCHANGED <<confVars, cache, key, ruleCache, reply>>

Receive(w, k) ==
    /\ pc[w] = "idle"
    /\ key' = [key EXCEPT ![w] = k]
    /\ Goto(w, "rlock")
    /\ UNCHANGED <<confVars, cache, ruleCache, reply>>

\* mutant: new readers overtake the writer that waits
RLockOvertakes(w) ==
    /\ pc[w] = "rlock"
    /\ Goto(w, "match")
    /\ UNCHANGED <<confVars, cache, key, ruleCache, reply>>

RLock(w) ==
    /\ pc[w] = "rlock"
    /\ ~setting
    /\ Goto(w, "match")
    /\ UNCHANGED <<confVars, cache, key, ruleCache, reply>>

Allow(w, c) ==
    /\ ruleCache' = [ruleCache EXCEPT ![w] = c]
    /\ Goto(w, IF c # None /\ c.enable THEN "has" ELSE "forward")
    /\ UNCHANGED <<confVars, cache, key, reply>>

\* what the client gets; its kind says what there is in it
Answer(w, kind) == reply' = [reply EXCEPT ![w] = [key |-> key[w], kind |-> kind]]

Deny(w) ==
    /\ Answer(w, "denied")
    /\ Goto(w, "done")
    /\ UNCHANGED <<confVars, cache, key, ruleCache>>

\* the loop over the rules; there the list is read
MatchRule(w) ==
    /\ pc[w] = "match"
    /\ \/ /\ Matching(rules, key[w]) = {}
          /\ Goto(w, "default")
          /\ UNCHANGED <<confVars, cache, key, ruleCache, reply>>
       \/ /\ Matching(rules, key[w]) # {}
          /\ IF Allows(rules, defaultAction, key[w])
             THEN Allow(w, CacheOf(rules, key[w], None))
             ELSE Deny(w)

\* no rule matched: only now the default action is read
Default(w) ==
    /\ pc[w] = "default"
    /\ IF defaultAction = "allow" THEN Allow(w, None) ELSE Deny(w)

\* cache.Has; after an error the request is a miss
Has(w) ==
    /\ pc[w] = "has"
    /\ \/ cache[key[w]] # None /\ Goto(w, "hit")
       \/ (cache[key[w]] = None \/ CacheMayFail) /\ Goto(w, "forward")
    /\ UNCHANGED <<confVars, cache, key, ruleCache, reply>>

\* cacheHit reads the cache a second time.  If the entry is gone or Get fails it
\* returns with nothing written.
CacheHit(w) ==
    /\ pc[w] = "hit"
    /\ \/ cache[key[w]] # None /\ reply' = [reply EXCEPT ![w] = cache[key[w]]]
       \/ (cache[key[w]] = None \/ CacheMayFail) /\ Answer(w, "empty")
    /\ Goto(w, "done")
    /\ UNCHANGED <<confVars, cache, key, ruleCache>>

\* the reverse proxy has copied the node's answer to the client, or its own 502
Forward(w) ==
    /\ pc[w] = "forward"
    /\ \E kind \in {"ok", "error"} : Answer(w, kind)
    /\ Goto(w, IF ruleCache[w] # None /\ ruleCache[w].enable THEN "store" ELSE "done")
    /\ UNCHANGED <<confVars, cache, key, ruleCache>>

\* the node's answer breaks off: the reverse proxy panics, the lock is released
ForwardAborted(w) ==
    /\ pc[w] = "forward"
    /\ Answer(w, "aborted")
    /\ Goto(w, "done")
    /\ UNCHANGED <<confVars, cache, key, ruleCache>>

\* mutant: the status is not looked at
StoresAll(w) == TRUE

Stores(w) == reply[w].kind = "ok" \/ ruleCache[w].cacheError

Store(w) ==
    /\ pc[w] = "store"
    /\ \/ Stores(w) /\ cache' = [cache EXCEPT ![key[w]] = reply[w]]
       \/ (~Stores(w) \/ CacheMayFail) /\ UNCHANGED cache
    /\ Goto(w, "done")
    /\ UNCHANGED <<confVars, key, ruleCache, reply>>

\* ServeHTTP returns
Return(w) ==
    /\ pc[w] = "done"
    /\ key' = [key EXCEPT ![w] = None]
    /\ ruleCache' = [ruleCache EXCEPT ![w] = None]
    /\ reply' = [reply EXCEPT ![w] = None]
    /\ Goto(w, "idle")
    /\ UNCHANGED <<confVars, cache>>

\* an entry reaches its TTL
Expire(k) ==
    /\ cache[k] # None
    /\ cache' = [cache EXCEPT ![k] = None]
    /\ UNCHANGED <<confVars, pc, key, ruleCache, reply>>

Arrive(w) == Endpoint(w) \/ \E k \in Keys : Receive(w, k)

\* the goroutine waits for the node to answer, or for the client to read; what deny
\* writes is short, and goes out when ServeHTTP has returned
Waiting(w) == pc[w] \in {"endpoint", "hit", "forward"}

WaitEnds(w) == EndpointEnds(w) \/ CacheHit(w) \/ Forward(w) \/ ForwardAborted(w)

Advance(w) ==
    RLock(w) \/ MatchRule(w) \/ Default(w) \/ Has(w) \/ Store(w) \/ Return(w)

Serve(w) == Advance(w) \/ WaitEnds(w)

Traffic == (\E w \in Workers : Arrive(w) \/ Serve(w)) \/ \E k \in Keys : Expire(k)

Next ==
    \/ Traffic \/ SetRules
    \/ \E rs \in Seq(Rules), default \in Actions : Install(rs, default)

Spec == Init /\ [][Next]_vars

-----------------------------------------------------------------------------
(* Properties *)

Passed(w) ==
    \/ pc[w] \in {"has", "hit", "forward", "store"}
    \/ pc[w] = "done" /\ reply[w].kind # "denied"
Refused(w) == pc[w] = "done" /\ reply[w].kind = "denied"

\* Until a request has been served, the rules that are installed are the ones it
\* was decided by: they allow or deny it, with the cache section it goes by.
ServedUnderRules ==
    \A w \in Workers :
        /\ Passed(w) => /\ Allows(rules, defaultAction, key[w])
                        /\ ruleCache[w] = CacheOf(rules, key[w], None)
        /\ Refused(w) => ~Allows(rules, defaultAction, key[w])

Allowed == AllowedBy(rules, defaultAction, Keys)
Outcome == [w \in Workers |->
               IF Passed(w) THEN "passed" ELSE IF Refused(w) THEN "refused"
               ELSE IF pc[w] \in {"idle", "endpoint"} THEN "none" ELSE "asked"]

\* The proxy is a firewall for everything but its endpoints.
Rulebook == INSTANCE Firewall WITH
    Requests <- Workers, Held <- TRUE, allowed <- Allowed, asked <- key, outcome <- Outcome
=============================================================================
