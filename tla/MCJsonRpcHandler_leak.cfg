SPECIFICATION FairSpec
CONSTANTS
    Workers = {w1}
    k1 = k1
    k2 = k2
    Keys = {k1}
    RuleSets <- OneKey
    MaxBatch = 1
    CacheMayFail = FALSE
    None = None
PROPERTY RulesUpdate
