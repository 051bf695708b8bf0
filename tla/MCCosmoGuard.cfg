SPECIFICATION FairSpec
CONSTANTS
    k1 = k1
    Rules <- FewRules
    Contents <- Saved
    Partial <- CutOff
    Unreadable = Unreadable
    MaxSaves = 1
    Workers = {w1}
    Keys = {k1}
    CacheMayFail = FALSE
    Calls = {g1}
    None = None
INVARIANT TypeOK
INVARIANT SettledOnFile
INVARIANT ServedUnderRules
INVARIANT SettledTraffic
PROPERTY StoredAsRuled
PROPERTY ChangesApply
PROPERTY LcdImplementsFirewall
PROPERTY GrpcImplementsFirewall
