------------------------- MODULE MCJsonRpcHandler -------------------------
(* Instances of JsonRpcHandler for TLC. *)
EXTENDS JsonRpcHandler, TLC

CONSTANTS k1, k2

Settings(en, err, empty) == [enable |-> en, cacheError |-> err, cacheEmptyResult |-> empty]

\* k1 is cached if the answer has a result, everything else is denied
Strict == [rules |-> <<[action |-> "allow", keys |-> {k1}, cache |-> Settings(TRUE, FALSE, FALSE)],
                       [action |-> "deny", keys |-> {}, cache |-> None]>>,
           default |-> "allow"]

\* k1 is denied; a rule with a misspelt action stands before the one that caches
\* every answer to k2
Open == [rules |-> <<[action |-> "deny", keys |-> {k1}, cache |-> None],
                     [action |-> "other", keys |-> {k2}, cache |-> None],
                     [action |-> "allow", keys |-> {k2}, cache |-> Settings(TRUE, TRUE, TRUE)]>>,
         default |-> "allow"]

TwoRuleSets == {Strict, Open}

\* one key that is cached, or allowed by the default action
OneKey == {[rules |-> <<[action |-> "allow", keys |-> {k1}, cache |-> Settings(TRUE, FALSE, FALSE)]>>,
            default |-> "deny"],
           [rules |-> <<>>, default |-> "allow"]}

Interchangeable == Permutations(Workers)
===========================================================================
