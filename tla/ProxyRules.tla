------------------------------ MODULE ProxyRules ------------------------------
(* The rules that a configuration may have (HttpRule and GrpcRule in rules.go), *)
(* for ConfigFile, which reads them, and for the proxies that obey them.        *)
EXTENDS AccessRules

CONSTANTS
    Keys,   \* what rules tell apart
    Rules,  \* the rules; the priority is 0 where it is not in the file
    None

Caches == [enable : BOOLEAN, cacheError : BOOLEAN]

ASSUME RulesAssumption ==
    /\ Rules \subseteq [action : {"allow", "deny", "other"}, keys : SUBSET Keys,
                        cache : Caches \cup {None}, priority : Int]
    /\ \A r \in Rules : [r EXCEPT !.priority = 1000] \in Rules
ASSUME NoneAssumption == None \notin Keys \cup Caches
=============================================================================
