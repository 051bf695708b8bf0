----------------------------- MODULE ConfigFile -----------------------------
(***************************************************************************)
(* The configuration file and what ReadConfigFromFile (config.go) makes of *)
(* it.  Every section of the file has a list of rules and a default action *)
(* that are read in the same way; one of each stands for all of them.      *)
(***************************************************************************)
EXTENDS ProxyRules

CONSTANTS
    Contents,   \* what the editor saves
    Partial,    \* what the file may be in the middle of a save
    Unreadable, \* no file, or one that yaml.Unmarshal rejects
    MaxSaves    \* bound on the saves

\* the default action is "" if it is not in the file
Config == [evm : BOOLEAN, rules : Seq(Rules), default : {"allow", "deny", ""}]

\* what SetRules of a proxy is given, and a proxy that has been given nothing
Policy(c) == [rules |-> c.rules, default |-> c.default]
Unset     == [rules |-> <<>>, default |-> ""]

ASSUME ContentsAssumption == Contents \subseteq Config
ASSUME PartialAssumption == Partial \subseteq Config \cup {Unreadable}
ASSUME UnreadableAssumption == Unreadable \notin Config /\ None \notin Config
ASSUME SavesAssumption == MaxSaves \in Nat

Orders(n) == {f \in [1..n -> 1..n] : \A i, j \in 1..n : f[i] = f[j] => i = j}

\* sort.Slice is not stable: rules of the same priority may come in any order
Sorted(rs) ==
    {[i \in DOMAIN rs |-> rs[f[i]]] : f \in
        {g \in Orders(Len(rs)) : \A i, j \in DOMAIN rs : i < j => rs[g[i]].priority <= rs[g[j]].priority}}

\* mutant: a rule without a priority is left without one
NoDefaults(c) ==
    [c EXCEPT !.rules = [i \in DOMAIN @ |->
                            [@[i] EXCEPT !.priority = IF @ = 0 THEN None ELSE @]]]

\* defaults.Set, of a rule and of the configuration
Defaulted(r) == IF r.priority = 0 THEN [r EXCEPT !.priority = 1000] ELSE r

WithDefaults(c) ==
    [evm     |-> c.evm,
     rules   |-> [i \in DOMAIN c.rules |-> Defaulted(c.rules[i])],
     default |-> IF c.default = "" THEN "deny" ELSE c.default]

\* the rules are sorted first and get their defaults last
ReadConfigFromFile(c) == {WithDefaults([c EXCEPT !.rules = rs]) : rs \in Sorted(c.rules)}
=============================================================================
