-------------------------- MODULE MCConfigReload --------------------------
(* Instances of ConfigReload for TLC. *)
EXTENDS ConfigReload

\* a rule for everything
Rule(a, p) == [action |-> a, keys |-> {}, cache |-> None, priority |-> p]

TwoRules == {Rule(a, p) : a \in {"allow", "deny"}, p \in {0, 10, 1000}}

\* the priority of the rule that denies everything is left to the default
OneWithout == {[evm |-> FALSE, rules |-> <<Rule("allow", 10), Rule("deny", 0)>>, default |-> ""]}

\* an empty file is a configuration without rules
EmptiedOrGone == {[evm |-> FALSE, rules |-> <<>>, default |-> ""], Unreadable}
===========================================================================
