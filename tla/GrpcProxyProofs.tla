--------------------------- MODULE GrpcProxyProofs ---------------------------
(***************************************************************************)
(* Proofs about GrpcProxy: it implements Firewall without Held.            *)
(***************************************************************************)
EXTENDS GrpcProxy, TLAPS

\* Reflection has no key; what the loop over the rules has found is still true where
\* the default action is read.
LocalsOf(c) ==
    /\ pc[c] = "idle" => key[c] = None
    /\ pc[c] \in {"rlock", "match", "default", "refused"} => key[c] \in Keys
    /\ pc[c] = "default" => Matching(rules, key[c]) = {}

IndInv == TypeOK /\ \A c \in Calls : LocalsOf(c)

\* The invariant holds at first.
LEMMA InitInv == Init => IndInv
<1> SUFFICES ASSUME Init PROVE IndInv
  OBVIOUS
<1>1. <<>> \in Seq(Rules)
  OBVIOUS
<1>2. TypeOK
  BY <1>1, Zenon DEF Init, TypeOK, Actions
<1>3. \A c \in Calls : LocalsOf(c)
  BY DEF Init, LocalsOf
<1> QED
  BY <1>2, <1>3 DEF IndInv

\* Install, the only step that changes the rules, waits for the calls in between.
LEMMA InvPreserved == IndInv /\ [Next]_vars => IndInv'
<1> SUFFICES ASSUME IndInv, [Next]_vars PROVE IndInv'
  OBVIOUS
<1> USE NoneAssumption DEF IndInv, TypeOK, LocalsOf, confVars, Goto
<1>1. CASE SetRules
  BY <1>1 DEF SetRules
<1>2. ASSUME NEW rs \in Seq(Rules), NEW default \in Actions, Install(rs, default) PROVE IndInv'
  BY <1>2 DEF Install, Readers
<1>3. ASSUME NEW c \in Calls, NEW k \in Keys, Receive(c, k) PROVE IndInv'
  BY <1>3 DEF Receive
<1>4. ASSUME NEW c \in Calls, Reflection(c) PROVE IndInv'
  BY <1>4 DEF Reflection
<1>5. ASSUME NEW c \in Calls, RLock(c) PROVE IndInv'
  BY <1>5 DEF RLock
<1>6. ASSUME NEW c \in Calls, MatchRule(c) PROVE IndInv'
  BY <1>6 DEF MatchRule
<1>7. ASSUME NEW c \in Calls, Default(c) PROVE IndInv'
  BY <1>7 DEF Default
<1>8. ASSUME NEW c \in Calls, CallEnds(c) PROVE IndInv'
  BY <1>8 DEF CallEnds
<1>9. CASE UNCHANGED vars
  BY <1>9 DEF vars
<1> HIDE DEF IndInv, TypeOK, LocalsOf, confVars, Goto
<1> QED
  BY <1>1, <1>2, <1>3, <1>4, <1>5, <1>6, <1>7, <1>8, <1>9 DEF Next, Traffic, Arrive, Handle

\* The invariant of the proxy: a call whose search found nothing is decided by the
\* default action of the same rules (Handle holds the read lock over both).
THEOREM Invariance == Spec => []IndInv
BY InitInv, InvPreserved, PTL DEF Spec

\* Every variable keeps its type.
THEOREM TypeCorrect == Spec => []TypeOK
<1>1. IndInv => TypeOK
  BY DEF IndInv
<1> QED
  BY <1>1, Invariance, PTL

-----------------------------------------------------------------------------
(* The proxy is a firewall *)

RulebookStep == Rulebook!Next \/ UNCHANGED <<Allowed, key, Outcome>>

\* The initial states are those of Firewall.
LEMMA RulebookInit == Init => Rulebook!Init
<1> SUFFICES ASSUME Init PROVE Rulebook!Init
  OBVIOUS
<1>1. Allowed \in SUBSET Keys
  BY DEF Allowed, AllowedBy
<1>2. Outcome = [c \in Calls |-> "none"]
  BY DEF Init, Outcome
<1> QED
  BY <1>1, <1>2 DEF Init, Rulebook!Init

\* The outcome of a call depends on nothing but its own key and place.
LEMMA OutcomeOfOne ==
    ASSUME TypeOK, NEW c \in Calls,
           \A d \in Calls \ {c} : pc'[d] = pc[d] /\ key'[d] = key[d],
           NEW o, Outcome'[c] = o
    PROVE  Outcome' = [Outcome EXCEPT ![c] = o]
BY DEF Outcome

\* Every step of the proxy is one of the firewall, or nothing to it.
LEMMA RulebookSteps == IndInv /\ [Next]_vars => RulebookStep
<1> SUFFICES ASSUME IndInv, [Next]_vars PROVE RulebookStep
  OBVIOUS
<1> USE NoneAssumption DEF IndInv, TypeOK, LocalsOf, confVars, Goto
<1>1. CASE SetRules
  BY <1>1 DEF SetRules, RulebookStep, Allowed, Outcome
<1>2. ASSUME NEW rs \in Seq(Rules), NEW default \in Actions, Install(rs, default)
      PROVE  RulebookStep
  <2>1. UNCHANGED <<key, Outcome>>
    BY <1>2 DEF Install, Outcome
  <2>2. Allowed' \in SUBSET Keys
    BY DEF Allowed, AllowedBy
  <2> QED
    BY <2>1, <2>2 DEF RulebookStep, Rulebook!Next, Rulebook!Change
<1>3. ASSUME NEW c \in Calls, NEW k \in Keys, Receive(c, k) PROVE RulebookStep
  <2>1. Outcome[c] = "none" /\ Outcome'[c] = "asked"
    BY <1>3 DEF Receive, Outcome
  <2>2. Outcome' = [Outcome EXCEPT ![c] = "asked"]
    BY <1>3, <2>1, OutcomeOfOne DEF Receive
  <2>3. key' = [key EXCEPT ![c] = k] /\ UNCHANGED Allowed
    BY <1>3 DEF Receive, Allowed
  <2> QED
    BY <2>1, <2>2, <2>3 DEF RulebookStep, Rulebook!Next, Rulebook!Ask
<1>4. ASSUME NEW c \in Calls, Reflection(c) PROVE RulebookStep
  BY <1>4 DEF Reflection, RulebookStep, Allowed, Outcome
<1>5. ASSUME NEW c \in Calls, RLock(c) PROVE RulebookStep
  BY <1>5 DEF RLock, RulebookStep, Allowed, Outcome
<1>6. ASSUME NEW c \in Calls, MatchRule(c) \/ Default(c) PROVE RulebookStep
  <2>1. Outcome[c] = "asked" /\ key[c] \in Keys /\ UNCHANGED <<key, Allowed>>
    BY <1>6 DEF MatchRule, Default, Outcome, Allowed
  <2>2. CASE pc'[c] = "default"
    BY <1>6, <2>1, <2>2 DEF MatchRule, Default, RulebookStep, Outcome
  <2>3. CASE pc'[c] # "default"
    <3>1. Outcome'[c] = IF key[c] \in Allowed THEN "passed" ELSE "refused"
      BY <1>6, <2>1, <2>3 DEF MatchRule, Default, Outcome, Allowed, AllowedBy, Allows
    <3>2. Outcome' = [Outcome EXCEPT ![c] = IF key[c] \in Allowed THEN "passed" ELSE "refused"]
      BY <1>6, <3>1, OutcomeOfOne DEF MatchRule, Default
    <3> QED
      BY <2>1, <3>2 DEF RulebookStep, Rulebook!Next, Rulebook!Decide
  <2> QED
    BY <2>2, <2>3
<1>7. ASSUME NEW c \in Calls, CallEnds(c) PROVE RulebookStep
  <2>1. key' = [key EXCEPT ![c] = None] /\ Outcome'[c] = "none" /\ UNCHANGED Allowed
    BY <1>7 DEF CallEnds, Outcome, Allowed
  <2>2. Outcome' = [Outcome EXCEPT ![c] = "none"]
    BY <1>7, <2>1, OutcomeOfOne DEF CallEnds
  <2>3. CASE key[c] = None
    BY <2>1, <2>2, <2>3 DEF RulebookStep, Outcome
  <2>4. CASE key[c] # None
    <3>1. Outcome[c] \in {"passed", "refused"}
      BY <1>7, <2>4 DEF CallEnds, Outcome
    <3> QED
      BY <2>1, <2>2, <3>1 DEF RulebookStep, Rulebook!Next, Rulebook!End
  <2> QED
    BY <2>3, <2>4
<1>8. CASE UNCHANGED vars
  BY <1>8 DEF vars, RulebookStep, Allowed, Outcome
<1> HIDE DEF IndInv, TypeOK, LocalsOf, confVars, Goto
<1> QED
  BY <1>1, <1>2, <1>3, <1>4, <1>5, <1>6, <1>7, <1>8 DEF Next, Traffic, Arrive, Handle

\* The proxy implements Firewall without Held: Handle decides a call by the rules in
\* force, and the stream may outlive them.
THEOREM FirewallImplemented == Spec => Rulebook!Spec
<1>1. IndInv /\ [Next]_vars => [Rulebook!Next]_<<Allowed, key, Outcome>>
  BY RulebookSteps DEF RulebookStep
<1> QED
  BY <1>1, RulebookInit, Invariance, PTL DEF Spec, Rulebook!Spec
=============================================================================
