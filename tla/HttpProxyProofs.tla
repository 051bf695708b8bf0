--------------------------- MODULE HttpProxyProofs ---------------------------
(***************************************************************************)
(* Proofs about HttpProxy: what was decided about a request stays true     *)
(* under the rules installed for as long as it is being served, whatever   *)
(* SetRules does meanwhile, and the proxy implements Firewall.             *)
(***************************************************************************)
EXTENDS HttpProxy, WellFoundedInduction, TLAPS

-----------------------------------------------------------------------------
(* The search of the rules *)

\* A set of positions that is not empty has a least one.
LEMMA LeastIndex ==
    ASSUME NEW S, S \subseteq Nat, S # {}
    PROVE  \E m \in S : \A n \in S : m <= n
<1>1. PICK m \in S : \A n \in S : ~(<<n, m>> \in OpToRel(<, Nat))
  BY NatLessThanWellFounded, WFMin
<1>2. \A n \in S : ~(n < m)
  BY <1>1 DEF OpToRel
<1> QED
  BY <1>2

\* Where a rule matches, there is a first one, and it is a rule of the list.
LEMMA FirstMatchIsRule ==
    ASSUME NEW rs \in Seq(Rules), NEW k, Matching(rs, k) # {}
    PROVE  FirstMatch(rs, k) \in Rules
<1> DEFINE First(i) == \A j \in Matching(rs, k) : i <= j
<1>1. Matching(rs, k) \subseteq DOMAIN rs
  BY DEF Matching
<1>2. Matching(rs, k) \subseteq Nat
  BY <1>1
<1>3. \E i \in Matching(rs, k) : First(i)
  BY <1>2, LeastIndex, Zenon
<1>4. (CHOOSE i \in Matching(rs, k) : First(i)) \in Matching(rs, k)
  BY <1>3, Zenon
<1> QED
  BY <1>1, <1>4 DEF FirstMatch

\* The cache settings of the rule that matches, or None.
LEMMA CacheOfType ==
    ASSUME NEW rs \in Seq(Rules), NEW k
    PROVE  CacheOf(rs, k, None) \in Caches \cup {None}
BY FirstMatchIsRule, RulesAssumption DEF CacheOf

-----------------------------------------------------------------------------
(* The inductive invariant *)

\* what the locals of a goroutine are where they are used
LocalsOf(w) ==
    /\ pc[w] \in {"idle", "endpoint"} <=> key[w] = None
    /\ pc[w] = "default" => Matching(rules, key[w]) = {}
    /\ pc[w] \in {"has", "hit", "store"} => ruleCache[w] # None /\ ruleCache[w].enable
    /\ pc[w] = "store" => reply[w] \in Answers
    /\ pc[w] = "done" => reply[w] \in Replies

\* the part of ServedUnderRules that is about one goroutine
Served(w) ==
    /\ Passed(w) => /\ Allows(rules, defaultAction, key[w])
                    /\ ruleCache[w] = CacheOf(rules, key[w], None)
    /\ Refused(w) => ~Allows(rules, defaultAction, key[w])

IndInv == TypeOK /\ (\A w \in Workers : LocalsOf(w)) /\ ServedUnderRules

\* The invariant holds at first.
LEMMA InitInv == Init => IndInv
<1> SUFFICES ASSUME Init PROVE IndInv
  OBVIOUS
<1>1. TypeOK
  <2>1. <<>> \in Seq(Rules)
    OBVIOUS
  <2> QED
    BY <2>1, Zenon DEF Init, TypeOK, Actions
<1>2. \A w \in Workers : LocalsOf(w)
  BY DEF Init, LocalsOf
<1>3. ServedUnderRules
  BY DEF Init, ServedUnderRules, Passed, Refused
<1> QED
  BY <1>1, <1>2, <1>3 DEF IndInv

\* The types hold in the next state.
LEMMA TypesPreserved == IndInv /\ [Next]_vars => TypeOK'
<1> SUFFICES ASSUME IndInv, [Next]_vars PROVE TypeOK'
  OBVIOUS
<1> USE NoneAssumption DEF IndInv, TypeOK, LocalsOf, confVars, Goto, Answer, Answers, Replies
<1>1. CASE SetRules
  BY <1>1 DEF SetRules
<1>2. ASSUME NEW rs \in Seq(Rules), NEW default \in Actions, Install(rs, default)
      PROVE  TypeOK'
  BY <1>2 DEF Install
<1>3. ASSUME NEW w \in Workers, Endpoint(w) PROVE TypeOK'
  BY <1>3 DEF Endpoint
<1>4. ASSUME NEW w \in Workers, EndpointEnds(w) PROVE TypeOK'
  BY <1>4 DEF EndpointEnds
<1>5. ASSUME NEW w \in Workers, NEW k \in Keys, Receive(w, k) PROVE TypeOK'
  BY <1>5 DEF Receive
<1>6. ASSUME NEW w \in Workers, RLock(w) PROVE TypeOK'
  BY <1>6 DEF RLock
<1>7. ASSUME NEW w \in Workers, MatchRule(w) PROVE TypeOK'
  BY <1>7, CacheOfType DEF MatchRule, Allow, Deny
<1>8. ASSUME NEW w \in Workers, Default(w) PROVE TypeOK'
  BY <1>8 DEF Default, Allow, Deny
<1>9. ASSUME NEW w \in Workers, Has(w) PROVE TypeOK'
  BY <1>9 DEF Has
<1>10. ASSUME NEW w \in Workers, CacheHit(w) PROVE TypeOK'
  BY <1>10 DEF CacheHit
<1>11. ASSUME NEW w \in Workers, Forward(w) PROVE TypeOK'
  BY <1>11 DEF Forward
<1>12. ASSUME NEW w \in Workers, ForwardAborted(w) PROVE TypeOK'
  BY <1>12 DEF ForwardAborted
<1>13. ASSUME NEW w \in Workers, Store(w) PROVE TypeOK'
  BY <1>13 DEF Store
<1>14. ASSUME NEW w \in Workers, Return(w) PROVE TypeOK'
  BY <1>14 DEF Return
<1>15. ASSUME NEW k \in Keys, Expire(k) PROVE TypeOK'
  BY <1>15 DEF Expire
<1>16. CASE UNCHANGED vars
  BY <1>16 DEF vars
<1> HIDE DEF IndInv, TypeOK, LocalsOf, confVars, Goto, Answer, Answers, Replies
<1> QED
  BY <1>1, <1>2, <1>3, <1>4, <1>5, <1>6, <1>7, <1>8, <1>9, <1>10, <1>11, <1>12, <1>13,
     <1>14, <1>15, <1>16 DEF Next, Traffic, Arrive, Serve, Advance, WaitEnds

\* What is read under the lock stays true, for no rules are installed meanwhile.
LEMMA LocalsPreserved == IndInv /\ [Next]_vars => \A v \in Workers : LocalsOf(v)'
<1> SUFFICES ASSUME IndInv, [Next]_vars, NEW v \in Workers PROVE LocalsOf(v)'
  OBVIOUS
<1> USE NoneAssumption DEF IndInv, TypeOK, LocalsOf, confVars, Goto, Answer, Answers, Replies
<1>1. CASE SetRules
  BY <1>1 DEF SetRules
<1>2. ASSUME NEW rs \in Seq(Rules), NEW default \in Actions, Install(rs, default)
      PROVE  LocalsOf(v)'
  BY <1>2 DEF Install, Readers
<1>3. ASSUME NEW w \in Workers, Endpoint(w) PROVE LocalsOf(v)'
  BY <1>3 DEF Endpoint
<1>4. ASSUME NEW w \in Workers, EndpointEnds(w) PROVE LocalsOf(v)'
  BY <1>4 DEF EndpointEnds
<1>5. ASSUME NEW w \in Workers, RLock(w) PROVE LocalsOf(v)'
  BY <1>5 DEF RLock
<1>6. ASSUME NEW w \in Workers, MatchRule(w) PROVE LocalsOf(v)'
  BY <1>6 DEF MatchRule, Allow, Deny
<1>7. ASSUME NEW w \in Workers, Default(w) PROVE LocalsOf(v)'
  BY <1>7 DEF Default, Allow, Deny
<1>8. ASSUME NEW w \in Workers, Has(w) PROVE LocalsOf(v)'
  BY <1>8 DEF Has
<1>9. ASSUME NEW w \in Workers, CacheHit(w) PROVE LocalsOf(v)'
  BY <1>9 DEF CacheHit
<1>10. ASSUME NEW w \in Workers, Forward(w) PROVE LocalsOf(v)'
  BY <1>10 DEF Forward
<1>11. ASSUME NEW w \in Workers, ForwardAborted(w) PROVE LocalsOf(v)'
  BY <1>11 DEF ForwardAborted
<1>12. ASSUME NEW w \in Workers, Store(w) PROVE LocalsOf(v)'
  BY <1>12 DEF Store
<1>13. ASSUME NEW w \in Workers, Return(w) PROVE LocalsOf(v)'
  BY <1>13 DEF Return
<1>14. ASSUME NEW w \in Workers, NEW k \in Keys, Receive(w, k) PROVE LocalsOf(v)'
  BY <1>14 DEF Receive
<1>15. ASSUME NEW k \in Keys, Expire(k) PROVE LocalsOf(v)'
  BY <1>15 DEF Expire
<1>16. CASE UNCHANGED vars
  BY <1>16 DEF vars
<1> HIDE DEF IndInv, TypeOK, LocalsOf, confVars, Goto, Answer, Answers, Replies
<1> QED
  BY <1>1, <1>2, <1>3, <1>4, <1>5, <1>6, <1>7, <1>8, <1>9, <1>10, <1>11, <1>12, <1>13,
     <1>14, <1>15, <1>16 DEF Next, Traffic, Arrive, Serve, Advance, WaitEnds

\* The decision about a request, and its cache section, agree with the rules installed.
LEMMA ServedPreserved == IndInv /\ [Next]_vars => ServedUnderRules'
<1> SUFFICES ASSUME IndInv, [Next]_vars, NEW v \in Workers PROVE Served(v)'
  BY DEF ServedUnderRules, Served
<1> USE NoneAssumption DEF IndInv, TypeOK, LocalsOf, ServedUnderRules, Served, Passed,
         Refused, confVars, Goto, Answer, Answers, Replies
<1>1. CASE SetRules
  BY <1>1 DEF SetRules
<1>2. ASSUME NEW rs \in Seq(Rules), NEW default \in Actions, Install(rs, default)
      PROVE  Served(v)'
  BY <1>2 DEF Install, Readers
<1>3. ASSUME NEW w \in Workers, Endpoint(w) PROVE Served(v)'
  BY <1>3 DEF Endpoint
<1>4. ASSUME NEW w \in Workers, EndpointEnds(w) PROVE Served(v)'
  BY <1>4 DEF EndpointEnds
<1>5. ASSUME NEW w \in Workers, RLock(w) PROVE Served(v)'
  BY <1>5 DEF RLock
<1>6. ASSUME NEW w \in Workers, MatchRule(w) PROVE Served(v)'
  BY <1>6 DEF MatchRule, Allow, Deny
<1>7. ASSUME NEW w \in Workers, Default(w) PROVE Served(v)'
  BY <1>7 DEF Default, Allow, Deny, Allows, CacheOf
<1>8. ASSUME NEW w \in Workers, Has(w) PROVE Served(v)'
  BY <1>8 DEF Has
<1>9. ASSUME NEW w \in Workers, CacheHit(w) PROVE Served(v)'
  BY <1>9 DEF CacheHit
<1>10. ASSUME NEW w \in Workers, Forward(w) PROVE Served(v)'
  BY <1>10 DEF Forward
<1>11. ASSUME NEW w \in Workers, ForwardAborted(w) PROVE Served(v)'
  BY <1>11 DEF ForwardAborted
<1>12. ASSUME NEW w \in Workers, Store(w) PROVE Served(v)'
  BY <1>12 DEF Store
<1>13. ASSUME NEW w \in Workers, Return(w) PROVE Served(v)'
  BY <1>13 DEF Return
<1>14. ASSUME NEW w \in Workers, NEW k \in Keys, Receive(w, k) PROVE Served(v)'
  BY <1>14 DEF Receive
<1>15. ASSUME NEW k \in Keys, Expire(k) PROVE Served(v)'
  BY <1>15 DEF Expire
<1>16. CASE UNCHANGED vars
  BY <1>16 DEF vars
<1> HIDE DEF IndInv, TypeOK, LocalsOf, ServedUnderRules, Served, Passed, Refused,
         confVars, Goto, Answer, Answers, Replies
<1> QED
  BY <1>1, <1>2, <1>3, <1>4, <1>5, <1>6, <1>7, <1>8, <1>9, <1>10, <1>11, <1>12, <1>13,
     <1>14, <1>15, <1>16 DEF Next, Traffic, Arrive, Serve, Advance, WaitEnds

\* Every step keeps the invariant.
LEMMA InvPreserved == IndInv /\ [Next]_vars => IndInv'
BY TypesPreserved, LocalsPreserved, ServedPreserved DEF IndInv

\* The invariant of the proxy: locals agree with the rules that are installed for as
\* long as ServeHTTP holds the read lock.
THEOREM Invariance == Spec => []IndInv
BY InitInv, InvPreserved, PTL DEF Spec

\* Every variable keeps its type: what the search of the rules hands to a goroutine
\* is the cache section of a rule of the list, or none.
THEOREM TypeCorrect == Spec => []TypeOK
<1>1. IndInv => TypeOK
  BY DEF IndInv
<1> QED
  BY <1>1, Invariance, PTL

\* A request is let through, and cached, by the rules that are installed from its
\* decision to its end (ServeHTTP under rulesMutex).
THEOREM DecidedUnderRules == Spec => []ServedUnderRules
<1>1. IndInv => ServedUnderRules
  BY DEF IndInv
<1> QED
  BY <1>1, Invariance, PTL

-----------------------------------------------------------------------------
(* What enters the cache *)

\* What is stored for a key was let through by the rules installed, whose cache
\* section is enabled and, for an error, asks for errors.
StoresAsRuled ==
    \A k \in Keys : cache'[k] \notin {None, cache[k]} =>
        LET c == CacheOf(rules, k, None)
        IN  /\ Allows(rules, defaultAction, k)
            /\ c # None /\ c.enable
            /\ cache'[k].kind = "error" => c.cacheError

\* Only Store and Expire write the cache.
LEMMA OnlyStoreFills ==
    ASSUME IndInv, [Next]_vars
    PROVE  \/ \E w \in Workers : Store(w)
           \/ \E k \in Keys : Expire(k)
           \/ UNCHANGED cache
BY DEF Next, Traffic, Arrive, Serve, Advance, WaitEnds, vars, confVars, SetRules,
       Install, Endpoint, EndpointEnds, Receive, RLock, MatchRule, Allow, Deny, Default, Has, CacheHit, Forward,
       ForwardAborted, Return

\* Only a step that the rules in force allow stores a response.
LEMMA StoreIsRuled == IndInv /\ [Next]_vars => [StoresAsRuled]_cache
<1> SUFFICES ASSUME IndInv, [Next]_vars, NEW k \in Keys, cache'[k] \notin {None, cache[k]}
             PROVE  /\ Allows(rules, defaultAction, k)
                    /\ CacheOf(rules, k, None) # None
                    /\ CacheOf(rules, k, None).enable
                    /\ cache'[k].kind = "error" => CacheOf(rules, k, None).cacheError
  BY DEF StoresAsRuled
<1>1. ~UNCHANGED cache /\ \A j \in Keys : ~Expire(j)
  BY DEF Expire, IndInv, TypeOK
<1>2. PICK w \in Workers : Store(w)
  BY <1>1, OnlyStoreFills
<1>3. key[w] = k /\ cache'[k] = reply[w] /\ Stores(w)
  BY <1>1, <1>2 DEF Store, IndInv, TypeOK
<1>4. /\ Passed(w) /\ pc[w] = "store"
      /\ ruleCache[w] # None /\ ruleCache[w].enable
  BY <1>2 DEF Store, Passed, IndInv, LocalsOf
<1>5. Allows(rules, defaultAction, k) /\ ruleCache[w] = CacheOf(rules, k, None)
  BY <1>3, <1>4 DEF IndInv, ServedUnderRules
<1> QED
  BY <1>3, <1>4, <1>5 DEF Stores

\* Nothing enters the cache but what the rules in force let through and have cached:
\* the store at the end of ServeHTTP goes by the rule found at its start.
THEOREM CacheFollowsRules == Spec => [][StoresAsRuled]_cache
BY StoreIsRuled, Invariance, PTL DEF Spec

-----------------------------------------------------------------------------
(* The proxy is a firewall *)

RulebookStep == Rulebook!Next \/ UNCHANGED <<Allowed, key, Outcome>>

\* The initial states are those of Firewall.
LEMMA RulebookInit == Init => Rulebook!Init
<1> SUFFICES ASSUME Init PROVE Rulebook!Init
  OBVIOUS
<1>1. Allowed \in SUBSET Keys
  BY DEF Allowed, AllowedBy
<1>2. Outcome = [w \in Workers |-> "none"]
  BY DEF Init, Outcome, Passed, Refused
<1> QED
  BY <1>1, <1>2 DEF Init, Rulebook!Init

\* Where nothing but the place of one goroutine changes, nothing may happen but what
\* changes its outcome.
LEMMA OutcomeOfOne ==
    ASSUME TypeOK, NEW w \in Workers,
           \A v \in Workers \ {w} : pc'[v] = pc[v] /\ reply'[v] = reply[v],
           NEW o, Outcome'[w] = o
    PROVE  Outcome' = [Outcome EXCEPT ![w] = o]
BY DEF Outcome, Passed, Refused

\* A goroutine that has passed the rules does what the firewall does not see.
LEMMA StaysPassed ==
    ASSUME IndInv, NEW w \in Workers, Passed(w), Passed(w)',
           \A v \in Workers \ {w} : pc'[v] = pc[v] /\ reply'[v] = reply[v],
           UNCHANGED <<rules, defaultAction, key>>
    PROVE  RulebookStep
<1>1. Outcome' = Outcome
  BY DEF Outcome, Passed, Refused
<1> QED
  BY <1>1 DEF RulebookStep, Allowed

\* Decide: the goroutine leaves the search as the rules have it.
LEMMA DecideStep ==
    ASSUME IndInv, NEW w \in Workers, pc[w] \in {"match", "default"},
           \/ Allows(rules, defaultAction, key[w]) /\ Passed(w)'
           \/ ~Allows(rules, defaultAction, key[w]) /\ Refused(w)' /\ ~Passed(w)',
           \A v \in Workers \ {w} : pc'[v] = pc[v] /\ reply'[v] = reply[v],
           UNCHANGED <<rules, defaultAction, key>>
    PROVE  RulebookStep
<1>1. key[w] \in Keys
  BY DEF IndInv, TypeOK, LocalsOf
<1>2. Outcome[w] = "asked"
  BY DEF Outcome, Passed, Refused
<1>3. Outcome'[w] = IF key[w] \in Allowed THEN "passed" ELSE "refused"
  BY <1>1 DEF Outcome, Allowed, AllowedBy
<1>4. Outcome' = [Outcome EXCEPT ![w] = IF key[w] \in Allowed THEN "passed" ELSE "refused"]
  BY <1>3, OutcomeOfOne DEF IndInv
<1>5. UNCHANGED <<Allowed, key>>
  BY DEF Allowed
<1> QED
  BY <1>2, <1>4, <1>5 DEF RulebookStep, Rulebook!Next, Rulebook!Decide

\* Every step of the proxy is one of the firewall, or nothing to it.
LEMMA RulebookSteps == IndInv /\ [Next]_vars => RulebookStep
<1> SUFFICES ASSUME IndInv, [Next]_vars PROVE RulebookStep
  OBVIOUS
<1> USE NoneAssumption DEF IndInv, TypeOK, LocalsOf, confVars, Goto, Answer, Answers, Replies
<1>1. CASE SetRules
  BY <1>1 DEF SetRules, RulebookStep, Allowed, Outcome, Passed, Refused
<1>2. ASSUME NEW rs \in Seq(Rules), NEW default \in Actions, Install(rs, default)
      PROVE  RulebookStep
  <2>1. \A w \in Workers : Outcome[w] \in {"none", "asked"}
    BY <1>2 DEF Install, Readers, Outcome, Passed, Refused
  <2>2. UNCHANGED <<key, Outcome>>
    BY <1>2 DEF Install, Outcome, Passed, Refused
  <2>3. Allowed' \in SUBSET Keys
    BY DEF Allowed, AllowedBy
  <2> QED
    BY <2>1, <2>2, <2>3 DEF RulebookStep, Rulebook!Next, Rulebook!Change
<1>3. ASSUME NEW w \in Workers, Endpoint(w) PROVE RulebookStep
  BY <1>3 DEF Endpoint, RulebookStep, Allowed, Outcome, Passed, Refused
<1>4. ASSUME NEW w \in Workers, EndpointEnds(w) PROVE RulebookStep
  BY <1>4 DEF EndpointEnds, RulebookStep, Allowed, Outcome, Passed, Refused
<1>5. ASSUME NEW w \in Workers, NEW k \in Keys, Receive(w, k) PROVE RulebookStep
  <2>1. Outcome[w] = "none" /\ Outcome'[w] = "asked"
    BY <1>5 DEF Receive, Outcome, Passed, Refused
  <2>2. Outcome' = [Outcome EXCEPT ![w] = "asked"]
    BY <1>5, <2>1, OutcomeOfOne DEF Receive
  <2>3. key' = [key EXCEPT ![w] = k] /\ UNCHANGED Allowed
    BY <1>5 DEF Receive, Allowed
  <2> QED
    BY <2>1, <2>2, <2>3 DEF RulebookStep, Rulebook!Next, Rulebook!Ask
<1>6. ASSUME NEW w \in Workers, RLock(w) PROVE RulebookStep
  BY <1>6 DEF RLock, RulebookStep, Allowed, Outcome, Passed, Refused
<1>7. ASSUME NEW w \in Workers, MatchRule(w) PROVE RulebookStep
  <2>1. CASE Matching(rules, key[w]) = {}
    BY <1>7, <2>1 DEF MatchRule, RulebookStep, Allowed, Outcome, Passed, Refused
  <2>2. CASE Matching(rules, key[w]) # {}
    BY <1>7, <2>2, DecideStep DEF MatchRule, Allow, Deny, Passed, Refused
  <2> QED
    BY <2>1, <2>2
<1>8. ASSUME NEW w \in Workers, Default(w) PROVE RulebookStep
  BY <1>8, DecideStep DEF Default, Allow, Deny, Passed, Refused, Allows
<1>9. ASSUME NEW w \in Workers, Has(w) PROVE RulebookStep
  BY <1>9, StaysPassed DEF Has, Passed
<1>10. ASSUME NEW w \in Workers, CacheHit(w) PROVE RulebookStep
  BY <1>10, StaysPassed DEF CacheHit, Passed
<1>11. ASSUME NEW w \in Workers, Forward(w) PROVE RulebookStep
  BY <1>11, StaysPassed DEF Forward, Passed
<1>12. ASSUME NEW w \in Workers, ForwardAborted(w) PROVE RulebookStep
  BY <1>12, StaysPassed DEF ForwardAborted, Passed
<1>13. ASSUME NEW w \in Workers, Store(w) PROVE RulebookStep
  BY <1>13, StaysPassed DEF Store, Passed
<1>14. ASSUME NEW w \in Workers, Return(w) PROVE RulebookStep
  <2>1. Outcome[w] \in {"passed", "refused"} /\ Outcome'[w] = "none"
    BY <1>14 DEF Return, Outcome, Passed, Refused
  <2>2. Outcome' = [Outcome EXCEPT ![w] = "none"]
    BY <1>14, <2>1, OutcomeOfOne DEF Return
  <2>3. key' = [key EXCEPT ![w] = None] /\ UNCHANGED Allowed
    BY <1>14 DEF Return, Allowed
  <2> QED
    BY <2>1, <2>2, <2>3 DEF RulebookStep, Rulebook!Next, Rulebook!End
<1>15. ASSUME NEW k \in Keys, Expire(k) PROVE RulebookStep
  BY <1>15 DEF Expire, RulebookStep, Allowed, Outcome, Passed, Refused
<1>16. CASE UNCHANGED vars
  BY <1>16 DEF vars, RulebookStep, Allowed, Outcome, Passed, Refused
<1> HIDE DEF IndInv, TypeOK, LocalsOf, confVars, Goto, Answer, Answers, Replies
<1> QED
  BY <1>1, <1>2, <1>3, <1>4, <1>5, <1>6, <1>7, <1>8, <1>9, <1>10, <1>11, <1>12, <1>13,
     <1>14, <1>15, <1>16 DEF Next, Traffic, Arrive, Serve, Advance, WaitEnds

\* The proxy implements Firewall with Held: SetRules changes what is allowed only while
\* no request that was decided is being served.
THEOREM FirewallImplemented == Spec => Rulebook!Spec
<1>1. IndInv /\ [Next]_vars => [Rulebook!Next]_<<Allowed, key, Outcome>>
  BY RulebookSteps DEF RulebookStep
<1> QED
  BY <1>1, RulebookInit, Invariance, PTL DEF Spec, Rulebook!Spec
=============================================================================
