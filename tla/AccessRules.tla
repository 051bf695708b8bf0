----------------------------- MODULE AccessRules -----------------------------
(***************************************************************************)
(* What a list of rules and a default action say about a request: the loop *)
(* over the rules that ServeHTTP (http_proxy.go), Handle (grpc_proxy.go)   *)
(* and handleRequest (ws_proxy.go) have in common, and Match (rules.go).   *)
(*                                                                         *)
(* A rule is a record with at least the fields action, keys and cache.  A  *)
(* key stands for what Match looks at; the methods and globs of a rule for *)
(* the keys they match, and none at all for every key.                     *)
(***************************************************************************)
EXTENDS Integers, Sequences

Match(rule, key) == rule.keys = {} \/ key \in rule.keys

\* a rule with another action is logged and skipped
Effective(rule, key) == Match(rule, key) /\ rule.action \in {"allow", "deny"}

Matching(rules, key) == {i \in DOMAIN rules : Effective(rules[i], key)}

\* the rule that decides, where there is one
FirstMatch(rules, key) ==
    rules[CHOOSE i \in Matching(rules, key) : \A j \in Matching(rules, key) : i <= j]

\* the action unset, before the first SetRules, denies like deny
Allows(rules, default, key) ==
    IF Matching(rules, key) = {} THEN default = "allow"
    ELSE FirstMatch(rules, key).action = "allow"

AllowedBy(rules, default, keys) == {key \in keys : Allows(rules, default, key)}

\* the cache section of the rule that allows a request
CacheOf(rules, key, none) ==
    IF Matching(rules, key) = {} THEN none ELSE FirstMatch(rules, key).cache
=============================================================================
