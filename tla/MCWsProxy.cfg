SPECIFICATION FairSpec
CONSTANTS
    Clients = {c1, c2}
    Params = {p1}
    IDs = {i1}
    Conns = {k1}
    NoID = NoID
    NoParam = NoParam
    NoConn = NoConn
    Nobody = Nobody
    RuleSets <- Cautious
    None = None
INVARIANT TypeOK
INVARIANT AnswersAreTrue
PROPERTY RequestsEnd
PROPERTY SetRulesReturns
