------------------------------ MODULE GrpcProxy ------------------------------
(***************************************************************************)
(* The gRPC proxy (grpc_proxy.go).  Handle is the director of a            *)
(* transparent proxy: it decides about a call and returns; the library     *)
(* then forwards the stream for as long as the two ends keep it open.  So  *)
(* the read lock covers the decision and not the call.                     *)
(***************************************************************************)
EXTENDS ProxyRules

CONSTANT Calls  \* calls that are open at once

Actions == {"allow", "deny", ""}

VARIABLES
    rules, defaultAction,
    setting,   \* SetRules waits for the write lock
    pc, key    \* call -> where it is, its method

confVars == <<rules, defaultAction, setting>>
vars == <<confVars, pc, key>>

TypeOK ==
    /\ rules \in Seq(Rules) /\ defaultAction \in Actions
    /\ setting \in BOOLEAN
    /\ pc \in [Calls -> {"idle", "rlock", "match", "default", "stream", "refused"}]
    /\ key \in [Calls -> Keys \cup {None}]

Init ==
    /\ rules = <<>> /\ defaultAction = "" /\ setting = FALSE
    /\ pc = [c \in Calls |-> "idle"]
    /\ key = [c \in Calls |-> None]

-----------------------------------------------------------------------------
(* SetRules *)

Goto(c, step) == pc' = [pc EXCEPT ![c] = step]

\* mutant: Handle reads the rules without the lock
NoReaders == {}

Readers == {c \in Calls : pc[c] \in {"match", "default"}}

SetRules ==
    /\ ~setting
    /\ setting' = TRUE
    /\ UNCHANGED <<rules, defaultAction, pc, key>>

\* both fields change under the write lock: one step for everyone else
Install(rs, default) ==
    /\ setting
    /\ Readers = {}
    /\ rules' = rs
    /\ defaultAction' = default
    /\ setting' = FALSE
    /\ UNCHANGED <<pc, key>>

-----------------------------------------------------------------------------
(* Handle, and the stream that follows it *)

Receive(c, k) ==
    /\ pc[c] = "idle"
    /\ key' = [key EXCEPT ![c] = k]
    /\ Goto(c, "rlock")
    /\ UNCHANGED confVars

\* /grpc.reflection...: always forwarded, the rules are not looked at
Reflection(c) ==
    /\ pc[c] = "idle"
    /\ Goto(c, "stream")
    /\ UNCHANGED <<confVars, key>>

RLock(c) ==
    /\ pc[c] = "rlock"
    /\ ~setting
    /\ Goto(c, "match")
    /\ UNCHANGED <<confVars, key>>

\* the loop over the rules; the lock is released where Handle returns
MatchRule(c) ==
    /\ pc[c] = "match"
    /\ Goto(c, IF Matching(rules, key[c]) = {} THEN "default"
               ELSE IF FirstMatch(rules, key[c]).action = "allow" THEN "stream" ELSE "refused")
    /\ UNCHANGED <<confVars, key>>

Default(c) ==
    /\ pc[c] = "default"
    /\ Goto(c, IF defaultAction = "allow" THEN "stream" ELSE "refused")
    /\ UNCHANGED <<confVars, key>>

\* either end closes the stream, or the error status has been sent
CallEnds(c) ==
    /\ pc[c] \in {"stream", "refused"}
    /\ key' = [key EXCEPT ![c] = None]
    /\ Goto(c, "idle")
    /\ UNCHANGED confVars

Arrive(c) == Reflection(c) \/ \E k \in Keys : Receive(c, k)

Handle(c) == RLock(c) \/ MatchRule(c) \/ Default(c)

Traffic == \E c \in Calls : Arrive(c) \/ Handle(c) \/ CallEnds(c)

Next ==
    \/ Traffic \/ SetRules
    \/ \E rs \in Seq(Rules), default \in Actions : Install(rs, default)

Spec == Init /\ [][Next]_vars

-----------------------------------------------------------------------------
Allowed == AllowedBy(rules, defaultAction, Keys)
Outcome == [c \in Calls |->
               IF key[c] = None THEN "none" ELSE IF pc[c] = "stream" THEN "passed"
               ELSE IF pc[c] = "refused" THEN "refused" ELSE "asked"]

\* The proxy is a firewall for everything but reflection: what it lets through
\* was allowed when it was decided, and may go on under other rules.
Rulebook == INSTANCE Firewall WITH
    Requests <- Calls, Held <- FALSE, allowed <- Allowed, asked <- key, outcome <- Outcome
=============================================================================
