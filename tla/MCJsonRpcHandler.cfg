SPECIFICATION Spec
CONSTANTS
    Workers = {w1, w2}
    k1 = k1
    k2 = k2
    Keys = {k1, k2}
    RuleSets <- TwoRuleSets
    MaxBatch = 2
    CacheMayFail = FALSE
    None = None
INVARIANT TypeOK
INVARIANT DecisionsInForce
INVARIANT CachedIsWanted
INVARIANT RepliesMatch
SYMMETRY Interchangeable
