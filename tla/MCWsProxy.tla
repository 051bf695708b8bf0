----------------------------- MODULE MCWsProxy -----------------------------
(* Instances of WsProxy for TLC. *)
EXTENDS WsProxy

Kept == [cacheError |-> FALSE, cacheEmptyResult |-> FALSE]

R(a, ms, c) == [action |-> a, keys |-> ms, cache |-> c]

\* the example of CONFIG.md with a cache section on subscribe, and a configuration
\* under which nobody can subscribe or leave a single subscription
Cautious == {
    [rules |-> <<R("allow", {"subscribe"}, Kept), R("allow", Methods, None)>>,
     default |-> "deny"],
    [rules |-> <<R("deny", {"subscribe", "unsubscribe"}, None)>>, default |-> "allow"] }
=============================================================================
