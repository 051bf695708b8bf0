--------------------------- MODULE MCCosmoGuard ---------------------------
(* Instances of CosmoGuard and ConfigReload's parameters for TLC. *)
EXTENDS CosmoGuard

CONSTANT k1

Plain     == [enable |-> TRUE, cacheError |-> FALSE]
AndErrors == [enable |-> TRUE, cacheError |-> TRUE]
Off       == [enable |-> FALSE, cacheError |-> TRUE]

Rule(a, c, p) == [action |-> a, keys |-> IF c = None THEN {} ELSE {k1}, cache |-> c, priority |-> p]

FewRules == {Rule(a, c, p) : a \in {"allow", "deny", "other"},
                             c \in {Plain, AndErrors, Off, None}, p \in {-10, 0, 1000, 9999}}

\* two rules against their priorities, one that is skipped, two without priorities
Saved == {
    [evm |-> TRUE, rules |-> <<Rule("deny", None, 9999), Rule("allow", Plain, -10)>>,
     default |-> ""],
    [evm |-> TRUE, rules |-> <<Rule("other", Off, 0)>>, default |-> "allow"],
    [evm |-> FALSE, rules |-> <<Rule("deny", None, 0), Rule("allow", AndErrors, 0)>>,
     default |-> ""] }

\* an empty file is a configuration without rules, a file cut off after its first
\* lines is another configuration
CutOff == {[evm |-> FALSE, rules |-> <<>>, default |-> d] : d \in {"", "allow"}} \cup {Unreadable}
===========================================================================
