-------------------------- MODULE CosmoGuardProofs --------------------------
(***************************************************************************)
(* Proofs about CosmoGuard: the composition behaves like each of its parts *)
(* (ConfigReload, HttpProxy, GrpcProxy), so that what is proved about a    *)
(* part in a module of its own holds of the whole; and the theorems that   *)
(* take two parts together.                                                *)
(***************************************************************************)
EXTENDS CosmoGuard, TLAPS

ReloadP == INSTANCE ConfigReloadProofs WITH pc <- run

LcdP == INSTANCE HttpProxyProofs WITH
    rules <- installed["lcd"].rules, defaultAction <- installed["lcd"].default,
    setting <- lcdSetting, pc <- lcdPc, key <- lcdKey

GrpcP == INSTANCE GrpcProxyProofs WITH
    rules <- installed["grpc"].rules, defaultAction <- installed["grpc"].default,
    setting <- grpcSetting, pc <- grpcPc, key <- grpcKey

-----------------------------------------------------------------------------
(* The parts are used under the assumptions of the whole. *)

\* The parts of the guard have constants that their modules allow: the reload,
LEMMA ReloadAssumed ==
    /\ ReloadP!RulesAssumption /\ ReloadP!NoneAssumption
    /\ ReloadP!ContentsAssumption /\ ReloadP!PartialAssumption
    /\ ReloadP!UnreadableAssumption /\ ReloadP!SavesAssumption
BY RulesAssumption, NoneAssumption, ContentsAssumption, PartialAssumption,
   UnreadableAssumption, SavesAssumption, Zenon
   DEF Caches, Config, ReloadP!Caches, ReloadP!Config

\* the LCD proxy,
LEMMA LcdAssumed == LcdP!RulesAssumption /\ LcdP!NoneAssumption
BY RulesAssumption, NoneAssumption, Zenon DEF Caches, LcdP!Caches

\* and the gRPC proxy.
LEMMA GrpcAssumed == GrpcP!RulesAssumption /\ GrpcP!NoneAssumption
BY RulesAssumption, NoneAssumption, Zenon DEF Caches, GrpcP!Caches

-----------------------------------------------------------------------------
(* CosmoGuard implements ConfigReload. *)

\* The parts and the whole read a file in the same way.
LEMMA SameReading ==
    \A c : /\ ReadConfigFromFile(c) = Reload!ReadConfigFromFile(c)
           /\ ReadConfigFromFile(c) = ReloadP!ReadConfigFromFile(c)
BY Zenon DEF ReadConfigFromFile, Sorted, Orders, WithDefaults, Defaulted,
     Reload!ReadConfigFromFile, Reload!Sorted, Reload!Orders, Reload!WithDefaults,
     Reload!Defaulted,
     ReloadP!ReadConfigFromFile, ReloadP!Sorted, ReloadP!Orders, ReloadP!WithDefaults,
     ReloadP!Defaulted

\* The proofs of ConfigReload are about ReloadP, which has the definitions of Reload.
LEMMA SameReload ==
    /\ Reload!Init = ReloadP!Init
    /\ Reload!LoadConfig = ReloadP!LoadConfig
    /\ Reload!ApplyRules = ReloadP!ApplyRules
    /\ Reload!Watch = ReloadP!Watch
    /\ Reload!Event = ReloadP!Event
    /\ Reload!WatchFails = ReloadP!WatchFails
    /\ Reload!SaveEnds = ReloadP!SaveEnds
    /\ \A c : Reload!Save(c) = ReloadP!Save(c)
BY SameReading, Zenon DEF Reload!Init, ReloadP!Init, Reload!Sections, ReloadP!Sections,
     Reload!Unset, ReloadP!Unset,
     Reload!LoadConfig, ReloadP!LoadConfig, Reload!ApplyRules, ReloadP!ApplyRules,
     Reload!Policy, ReloadP!Policy, Reload!Order, ReloadP!Order, Reload!Base, ReloadP!Base,
     Reload!Evm, ReloadP!Evm, Reload!editVars, ReloadP!editVars, Reload!Watch,
     ReloadP!Watch,
     Reload!Event, ReloadP!Event, Reload!WatchFails, ReloadP!WatchFails,
     Reload!SaveEnds, ReloadP!SaveEnds, Reload!Save, ReloadP!Save,
     Reload!Notify, ReloadP!Notify

\* Every step of the guard is a step of its reload, or leaves it alone.
LEMMA ReloadSteps == [Next]_vars => [ReloadP!Next]_(ReloadP!vars)
<1> SUFFICES ASSUME [Next]_vars PROVE ReloadP!Next \/ UNCHANGED ReloadP!vars
  OBVIOUS
<1> USE DEF reloadVars, ReloadP!vars, ReloadP!editVars
<1>1. CASE CallLcd \/ CallGrpc \/ LcdTraffic \/ GrpcTraffic \/ Stopped \/ UNCHANGED vars
  BY <1>1, Zenon DEF CallLcd, CallGrpc, LcdTraffic, GrpcTraffic, Stopped, vars
<1>2. CASE ReturnLcd \/ ReturnGrpc \/ ApplyOthers
  BY <1>2, SameReload, Zenon DEF ReturnLcd, ReturnGrpc, ApplyOthers, ReloadP!Next
<1>3. CASE Watcher \/ WatcherFails
  BY <1>3, SameReload, Zenon DEF Watcher, WatcherFails, ReloadP!Next
<1>4. CASE Editor
  BY <1>4, SameReload, Zenon DEF Editor, EditorEnds, ReloadP!Next
<1> QED
  BY <1>1, <1>2, <1>3, <1>4, Zenon DEF Next, Step

\* The composition is a ConfigReload: waiting for a lock delays ApplyRules, and traffic
\* does not touch the file, the watcher or the list of proxies to be told.
THEOREM ReloadImplemented == Spec => ReloadP!Spec
<1>1. Init => ReloadP!Init
  BY SameReload, Zenon DEF Init
<1> QED
  BY <1>1, ReloadSteps, PTL DEF Spec, ReloadP!Spec

\* What is proved of the reload holds in the guard.
LEMMA ReloadInvariant == Spec => []ReloadP!IndInv
BY ReloadImplemented, ReloadP!Invariance, ReloadAssumed, PTL

\* Once the watcher waits with nothing pending, every proxy has the rules of the file,
\* also when its SetRules had to wait for requests.
THEOREM SettlesOnFile == Spec => []SettledOnFile
<1>1. ReloadP!SettledOnFile => SettledOnFile
  BY SameReading, Zenon DEF ReloadP!SettledOnFile, ReloadP!Settled, ReloadP!InForce,
     ReloadP!Order, ReloadP!Policy, ReloadP!Base, ReloadP!Evm, SettledOnFile,
     Reload!SettledOnFile, Reload!Settled, Reload!InForce, Reload!Order, Reload!Policy,
     Reload!Base, Reload!Evm
<1> QED
  BY <1>1, ReloadImplemented, ReloadP!SettlesOnFile, ReloadAssumed, PTL

-----------------------------------------------------------------------------
(* CosmoGuard implements HttpProxy. *)

\* LcdP has the definitions of Lcd.
LEMMA SameLcd ==
    /\ Lcd!Init = LcdP!Init
    /\ Lcd!SetRules = LcdP!SetRules
    /\ \A rs, d : Lcd!Install(rs, d) = LcdP!Install(rs, d)
    /\ Lcd!Traffic = LcdP!Traffic
<1> USE DEF Lcd!confVars, LcdP!confVars, Lcd!Goto, LcdP!Goto, Lcd!Answer, LcdP!Answer
<1>1. Lcd!Init = LcdP!Init
  BY Zenon DEF Lcd!Init, LcdP!Init
<1>2. Lcd!SetRules = LcdP!SetRules
  BY Zenon DEF Lcd!SetRules, LcdP!SetRules
<1>3. \A rs, d : Lcd!Install(rs, d) = LcdP!Install(rs, d)
  BY Zenon DEF Lcd!Install, LcdP!Install, Lcd!Readers, LcdP!Readers
<1>4. \A w : Lcd!Arrive(w) = LcdP!Arrive(w)
  BY Zenon DEF Lcd!Arrive, LcdP!Arrive, Lcd!Endpoint, LcdP!Endpoint, Lcd!Receive, LcdP!Receive
<1>5. \A w : /\ Lcd!EndpointEnds(w) = LcdP!EndpointEnds(w)
             /\ Lcd!RLock(w) = LcdP!RLock(w)
             /\ Lcd!Has(w) = LcdP!Has(w)
             /\ Lcd!CacheHit(w) = LcdP!CacheHit(w)
             /\ Lcd!Return(w) = LcdP!Return(w)
  BY Zenon DEF Lcd!EndpointEnds, LcdP!EndpointEnds, Lcd!RLock, LcdP!RLock, Lcd!Has, LcdP!Has,
     Lcd!CacheHit, LcdP!CacheHit, Lcd!Return, LcdP!Return
<1>6. \A w : /\ Lcd!Default(w) = LcdP!Default(w)
             /\ Lcd!MatchRule(w) = LcdP!MatchRule(w)
  BY Zenon DEF Lcd!Default, LcdP!Default, Lcd!MatchRule, LcdP!MatchRule, Lcd!Allow, LcdP!Allow,
     Lcd!Deny, LcdP!Deny, Lcd!Allows, LcdP!Allows, Lcd!CacheOf, LcdP!CacheOf,
     Lcd!FirstMatch, LcdP!FirstMatch, Lcd!Matching, LcdP!Matching,
     Lcd!Effective, LcdP!Effective, Lcd!Match, LcdP!Match
<1>7. \A w : /\ Lcd!Forward(w) = LcdP!Forward(w)
             /\ Lcd!ForwardAborted(w) = LcdP!ForwardAborted(w)
             /\ Lcd!Store(w) = LcdP!Store(w)
  BY Zenon DEF Lcd!Forward, LcdP!Forward, Lcd!ForwardAborted, LcdP!ForwardAborted,
     Lcd!Store, LcdP!Store, Lcd!Stores, LcdP!Stores
<1>8. \A k : Lcd!Expire(k) = LcdP!Expire(k)
  BY Zenon DEF Lcd!Expire, LcdP!Expire
<1>9. Lcd!Traffic = LcdP!Traffic
  BY <1>4, <1>5, <1>6, <1>7, <1>8, Zenon
     DEF Lcd!Traffic, LcdP!Traffic, Lcd!Serve, LcdP!Serve, Lcd!Advance, LcdP!Advance,
     Lcd!WaitEnds, LcdP!WaitEnds
<1> QED
  BY <1>1, <1>2, <1>3, <1>9

\* During applyRules cfg is a configuration.
LEMMA CfgType ==
    ASSUME ReloadP!IndInv, run = "apply"
    PROVE  cfg.rules \in Seq(Rules) /\ cfg.default \in {"allow", "deny", ""}
<1>1. PICK c \in ReloadP!Config : cfg \in ReloadP!ReadConfigFromFile(c)
  BY DEF ReloadP!IndInv, ReloadP!CfgKnown
<1>2. cfg \in ReloadP!Config
  BY <1>1, ReloadP!ReadConfigType, ReloadAssumed, Zenon
<1> QED
  BY <1>2 DEF ReloadP!Config

\* SetRules of one proxy leaves the rules of the others alone.
LEMMA OthersKept ==
    ASSUME ReloadP!IndInv, Reload!ApplyRules, NEW s \in Reload!Sections, ~Turn(s)
    PROVE  installed'[s] = installed[s]
<1>1. installed \in [Reload!Sections -> [rules : Seq(Rules), default : {"allow", "deny", ""}]]
  BY Zenon DEF ReloadP!IndInv, ReloadP!TypeOK, ReloadP!Sections, Reload!Sections
<1> QED
  BY <1>1 DEF Reload!ApplyRules, Turn

\* Every step of the guard is a step of the LCD proxy, or leaves it alone: the reload
\* installs rules that are types of the proxy's rules.
LEMMA LcdSteps == ReloadP!IndInv /\ [Next]_vars => [LcdP!Next]_(LcdP!vars)
<1> SUFFICES ASSUME ReloadP!IndInv, [Next]_vars PROVE LcdP!Next \/ UNCHANGED LcdP!vars
  OBVIOUS
<1> USE DEF lcdVars, LcdP!vars, LcdP!confVars
<1>1. CASE CallLcd
  BY <1>1, SameLcd, Zenon DEF CallLcd, LcdP!Next
<1>2. CASE ReturnLcd
  <2>1. cfg.rules \in Seq(Rules) /\ cfg.default \in LcdP!Actions
    BY <1>2, CfgType, Zenon DEF ReturnLcd, Turn, LcdP!Actions
  <2> QED
    BY <1>2, <2>1, SameLcd, Zenon DEF ReturnLcd, LcdP!Next
<1>3. CASE ReturnGrpc \/ ApplyOthers
  <2>1. Reload!ApplyRules /\ ~Turn("lcd") /\ UNCHANGED lcdVars
    BY <1>3 DEF ReturnGrpc, ApplyOthers, Turn
  <2>2. installed'["lcd"] = installed["lcd"]
    BY <2>1, OthersKept DEF Reload!Sections
  <2> QED
    BY <2>1, <2>2, Zenon
<1>4. CASE Watcher \/ WatcherFails
  BY <1>4, Zenon DEF Watcher, WatcherFails, Reload!LoadConfig, Reload!Watch, Reload!Event,
     Reload!WatchFails
<1>5. CASE Editor
  BY <1>5, Zenon DEF Editor, EditorEnds, Reload!Save, Reload!SaveEnds
<1>6. CASE LcdTraffic
  BY <1>6, SameLcd, Zenon DEF LcdTraffic, LcdP!Next
<1>7. CASE CallGrpc \/ GrpcTraffic \/ Stopped \/ UNCHANGED vars
  BY <1>7, Zenon DEF CallGrpc, GrpcTraffic, Stopped, vars, reloadVars
<1> QED
  BY <1>1, <1>2, <1>3, <1>4, <1>5, <1>6, <1>7, Zenon DEF Next, Step

\* The composition is an HttpProxy: applyRules is one of the callers that may install
\* any rules, and always goes through the lock of the proxy.
THEOREM LcdImplemented == Spec => LcdP!Spec
<1>1. Init => LcdP!Init
  BY SameLcd, Zenon DEF Init
<1> QED
  BY <1>1, LcdSteps, ReloadInvariant, PTL DEF Spec, LcdP!Spec

\* A request to the LCD proxy goes by the rules that are installed until it has been
\* served, while the configuration is being reloaded.
THEOREM DecidedUnderRules == Spec => []ServedUnderRules
<1>1. LcdP!ServedUnderRules => ServedUnderRules
  BY Zenon DEF LcdP!ServedUnderRules, LcdP!Passed, LcdP!Refused, LcdP!Allows, LcdP!CacheOf,
     LcdP!FirstMatch, LcdP!Matching, LcdP!Effective, LcdP!Match,
     ServedUnderRules, Lcd!ServedUnderRules, Lcd!Passed, Lcd!Refused, Lcd!Allows,
     Lcd!CacheOf,
     Lcd!FirstMatch, Lcd!Matching, Lcd!Effective, Lcd!Match
<1> QED
  BY <1>1, LcdImplemented, LcdP!DecidedUnderRules, LcdAssumed, PTL

\* What enters the cache was let through, and is to be cached, under the rules that
\* are installed when it enters, however long the node has taken to answer.
THEOREM CacheFollowsRules == Spec => StoredAsRuled
<1>1. [LcdP!StoresAsRuled]_cache =>
        [\A k \in Keys : cache'[k] \notin {None, cache[k]} =>
            LET p == installed["lcd"]
                c == CacheOf(p.rules, k, None)
            IN  /\ Allows(p.rules, p.default, k)
                /\ c # None /\ c.enable
                /\ cache'[k].kind = "error" => c.cacheError]_cache
  BY Zenon DEF LcdP!StoresAsRuled, LcdP!Allows, LcdP!CacheOf, LcdP!FirstMatch, LcdP!Matching,
     LcdP!Effective, LcdP!Match, Allows, CacheOf, FirstMatch, Matching, Effective, Match
<1> QED
  BY <1>1, LcdImplemented, LcdP!CacheFollowsRules, LcdAssumed, PTL DEF StoredAsRuled

\* The LCD proxy of the composition implements Firewall with Held.
THEOREM LcdFirewall == Spec => LcdImplementsFirewall
<1>1. /\ LcdP!Allowed = Lcd!Allowed /\ LcdP!Outcome = Lcd!Outcome
      /\ (LcdP!Allowed)' = (Lcd!Allowed)' /\ (LcdP!Outcome)' = (Lcd!Outcome)'
  BY Zenon DEF LcdP!Allowed, Lcd!Allowed, LcdP!AllowedBy, Lcd!AllowedBy,
     LcdP!Allows, Lcd!Allows,
     LcdP!FirstMatch, Lcd!FirstMatch, LcdP!Matching, Lcd!Matching, LcdP!Effective,
     Lcd!Effective,
     LcdP!Match, Lcd!Match, LcdP!Outcome, Lcd!Outcome, LcdP!Passed, Lcd!Passed,
     LcdP!Refused, Lcd!Refused
<1>2. LcdP!Rulebook!Init => Lcd!Rulebook!Init
  BY <1>1, Zenon DEF LcdP!Rulebook!Init, Lcd!Rulebook!Init
<1>3. [LcdP!Rulebook!Next]_<<LcdP!Allowed, lcdKey, LcdP!Outcome>>
        => [Lcd!Rulebook!Next]_<<Lcd!Allowed, lcdKey, Lcd!Outcome>>
  BY <1>1, Zenon DEF LcdP!Rulebook!Next, Lcd!Rulebook!Next, LcdP!Rulebook!Ask, Lcd!Rulebook!Ask,
     LcdP!Rulebook!Decide, Lcd!Rulebook!Decide, LcdP!Rulebook!End, Lcd!Rulebook!End,
     LcdP!Rulebook!Change, Lcd!Rulebook!Change
<1> QED
  BY <1>2, <1>3, LcdImplemented, LcdP!FirewallImplemented, LcdAssumed, PTL
     DEF LcdImplementsFirewall, LcdP!Rulebook!Spec, Lcd!Rulebook!Spec

\* Once the proxies have settled on the file, no request has passed that it does not
\* allow: what was let through under earlier rules has been served by then.
THEOREM SettledPasses == Spec => []SettledTraffic
<1>1. SettledOnFile /\ ServedUnderRules => SettledTraffic
  <2> SUFFICES ASSUME SettledOnFile, ServedUnderRules, Reload!Settled
               PROVE  \E c \in ReadConfigFromFile(file) : \A w \in Workers :
                         Lcd!Passed(w) => Allows(c.rules, c.default, lcdKey[w])
    BY DEF SettledTraffic
  <2>1. 1 \in DOMAIN Reload!Order(file) /\ Reload!Order(file)[1] = "lcd"
    BY DEF Reload!Order, Reload!Base, Reload!Evm
  <2>2. PICK c \in ReadConfigFromFile(file) : installed["lcd"] = Reload!Policy(c)
    BY <2>1, SameReading, Zenon DEF SettledOnFile, Reload!SettledOnFile, Reload!InForce
  <2>3. installed["lcd"].rules = c.rules /\ installed["lcd"].default = c.default
    BY <2>2 DEF Reload!Policy
  <2>4. \A rs, d, k : Lcd!Allows(rs, d, k) = Allows(rs, d, k)
    BY Zenon DEF Lcd!Allows, Lcd!FirstMatch, Lcd!Matching, Lcd!Effective, Lcd!Match,
       Allows, FirstMatch, Matching, Effective, Match
  <2>5. \A w \in Workers : Lcd!Passed(w) => Allows(c.rules, c.default, lcdKey[w])
    BY <2>3, <2>4, Zenon DEF ServedUnderRules, Lcd!ServedUnderRules
  <2> QED
    BY <2>5
<1> QED
  BY <1>1, SettlesOnFile, DecidedUnderRules, PTL

-----------------------------------------------------------------------------
(* CosmoGuard implements GrpcProxy. *)

\* GrpcP has the definitions of Grpc.
LEMMA SameGrpc ==
    /\ Grpc!Init = GrpcP!Init
    /\ Grpc!SetRules = GrpcP!SetRules
    /\ \A rs, d : Grpc!Install(rs, d) = GrpcP!Install(rs, d)
    /\ Grpc!Traffic = GrpcP!Traffic
<1> USE DEF Grpc!confVars, GrpcP!confVars, Grpc!Goto, GrpcP!Goto
<1>1. Grpc!Init = GrpcP!Init
  BY Zenon DEF Grpc!Init, GrpcP!Init
<1>2. Grpc!SetRules = GrpcP!SetRules
  BY Zenon DEF Grpc!SetRules, GrpcP!SetRules
<1>3. \A rs, d : Grpc!Install(rs, d) = GrpcP!Install(rs, d)
  BY Zenon DEF Grpc!Install, GrpcP!Install, Grpc!Readers, GrpcP!Readers
<1>4. \A c : /\ Grpc!Arrive(c) = GrpcP!Arrive(c)
             /\ Grpc!CallEnds(c) = GrpcP!CallEnds(c)
  BY Zenon DEF Grpc!Arrive, GrpcP!Arrive, Grpc!Reflection, GrpcP!Reflection,
     Grpc!Receive, GrpcP!Receive, Grpc!CallEnds, GrpcP!CallEnds
<1>5. \A c : Grpc!Handle(c) = GrpcP!Handle(c)
  BY Zenon DEF Grpc!Handle, GrpcP!Handle, Grpc!RLock, GrpcP!RLock, Grpc!MatchRule,
     GrpcP!MatchRule, Grpc!Default, GrpcP!Default, Grpc!FirstMatch, GrpcP!FirstMatch,
     Grpc!Matching, GrpcP!Matching, Grpc!Effective, GrpcP!Effective, Grpc!Match, GrpcP!Match
<1>6. Grpc!Traffic = GrpcP!Traffic
  BY <1>4, <1>5, Zenon DEF Grpc!Traffic, GrpcP!Traffic
<1> QED
  BY <1>1, <1>2, <1>3, <1>6

\* Every step of the guard is a step of the gRPC proxy, or leaves it alone.
LEMMA GrpcSteps == ReloadP!IndInv /\ [Next]_vars => [GrpcP!Next]_(GrpcP!vars)
<1> SUFFICES ASSUME ReloadP!IndInv, [Next]_vars PROVE GrpcP!Next \/ UNCHANGED GrpcP!vars
  OBVIOUS
<1> USE DEF grpcVars, GrpcP!vars, GrpcP!confVars
<1>1. CASE CallGrpc
  BY <1>1, SameGrpc, Zenon DEF CallGrpc, GrpcP!Next
<1>2. CASE ReturnGrpc
  <2>1. cfg.rules \in Seq(Rules) /\ cfg.default \in GrpcP!Actions
    BY <1>2, CfgType, Zenon DEF ReturnGrpc, Turn, GrpcP!Actions
  <2> QED
    BY <1>2, <2>1, SameGrpc, Zenon DEF ReturnGrpc, GrpcP!Next
<1>3. CASE ReturnLcd \/ ApplyOthers
  <2>1. Reload!ApplyRules /\ ~Turn("grpc") /\ UNCHANGED grpcVars
    BY <1>3 DEF ReturnLcd, ApplyOthers, Turn
  <2>2. installed'["grpc"] = installed["grpc"]
    BY <2>1, OthersKept DEF Reload!Sections
  <2> QED
    BY <2>1, <2>2, Zenon
<1>4. CASE Watcher \/ WatcherFails
  BY <1>4, Zenon DEF Watcher, WatcherFails, Reload!LoadConfig, Reload!Watch, Reload!Event,
     Reload!WatchFails
<1>5. CASE Editor
  BY <1>5, Zenon DEF Editor, EditorEnds, Reload!Save, Reload!SaveEnds
<1>6. CASE GrpcTraffic
  BY <1>6, SameGrpc, Zenon DEF GrpcTraffic, GrpcP!Next
<1>7. CASE CallLcd \/ LcdTraffic \/ Stopped \/ UNCHANGED vars
  BY <1>7, Zenon DEF CallLcd, LcdTraffic, Stopped, vars, reloadVars
<1> QED
  BY <1>1, <1>2, <1>3, <1>4, <1>5, <1>6, <1>7, Zenon DEF Next, Step

\* The composition is a GrpcProxy, for the same reason.
THEOREM GrpcImplemented == Spec => GrpcP!Spec
<1>1. Init => GrpcP!Init
  BY SameGrpc, Zenon DEF Init
<1> QED
  BY <1>1, GrpcSteps, ReloadInvariant, PTL DEF Spec, GrpcP!Spec

\* The gRPC proxy of the composition implements Firewall without Held.
THEOREM GrpcFirewall == Spec => GrpcImplementsFirewall
<1>1. /\ GrpcP!Allowed = Grpc!Allowed /\ GrpcP!Outcome = Grpc!Outcome
      /\ (GrpcP!Allowed)' = (Grpc!Allowed)' /\ (GrpcP!Outcome)' = (Grpc!Outcome)'
  BY Zenon DEF GrpcP!Allowed, Grpc!Allowed, GrpcP!AllowedBy, Grpc!AllowedBy,
     GrpcP!Allows, Grpc!Allows,
     GrpcP!FirstMatch, Grpc!FirstMatch, GrpcP!Matching, Grpc!Matching,
     GrpcP!Effective, Grpc!Effective,
     GrpcP!Match, Grpc!Match, GrpcP!Outcome, Grpc!Outcome
<1>2. GrpcP!Rulebook!Init => Grpc!Rulebook!Init
  BY <1>1, Zenon DEF GrpcP!Rulebook!Init, Grpc!Rulebook!Init
<1>3. [GrpcP!Rulebook!Next]_<<GrpcP!Allowed, grpcKey, GrpcP!Outcome>>
        => [Grpc!Rulebook!Next]_<<Grpc!Allowed, grpcKey, Grpc!Outcome>>
  BY <1>1, Zenon DEF GrpcP!Rulebook!Next, Grpc!Rulebook!Next,
     GrpcP!Rulebook!Ask, Grpc!Rulebook!Ask,
     GrpcP!Rulebook!Decide, Grpc!Rulebook!Decide, GrpcP!Rulebook!End, Grpc!Rulebook!End,
     GrpcP!Rulebook!Change, Grpc!Rulebook!Change
<1> QED
  BY <1>2, <1>3, GrpcImplemented, GrpcP!FirewallImplemented, GrpcAssumed, PTL
     DEF GrpcImplementsFirewall, GrpcP!Rulebook!Spec, Grpc!Rulebook!Spec

-----------------------------------------------------------------------------
\* Every variable of the three parts keeps its type.
THEOREM TypeCorrect == Spec => []TypeOK
<1>1. ReloadP!TypeOK /\ LcdP!TypeOK /\ GrpcP!TypeOK => TypeOK
  BY Zenon DEF TypeOK, Reload!TypeOK, ReloadP!TypeOK, Reload!Config, ReloadP!Config,
     Reload!Sections, ReloadP!Sections, Lcd!TypeOK, LcdP!TypeOK, Lcd!Actions, LcdP!Actions,
     Lcd!Answers, LcdP!Answers, Lcd!Replies, LcdP!Replies, Lcd!Caches, LcdP!Caches,
     Grpc!TypeOK, GrpcP!TypeOK, Grpc!Actions, GrpcP!Actions
<1>2. Spec => []ReloadP!TypeOK
  BY ReloadImplemented, ReloadP!TypeCorrect, ReloadAssumed, PTL
<1>3. Spec => []LcdP!TypeOK
  BY LcdImplemented, LcdP!TypeCorrect, LcdAssumed, PTL
<1>4. Spec => []GrpcP!TypeOK
  BY GrpcImplemented, GrpcP!TypeCorrect, GrpcAssumed, PTL
<1> QED
  BY <1>1, <1>2, <1>3, <1>4, PTL
=============================================================================
