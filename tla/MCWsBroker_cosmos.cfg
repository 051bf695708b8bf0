SPECIFICATION Spec
CONSTANTS
    Clients = {c1, c2, c3}
    Params = {p1}
    IDs = {i1, i2}
    Conns = {k1, k2}
    NoID = NoID
    NoParam = NoParam
    NoConn = NoConn
    Nobody = Nobody
    Eth = FALSE
    MaxSending = 1
SYMMETRY Interchangeable
INVARIANT TypeOK
INVARIANT IndexConsistent
INVARIANT BrokerPoolAgree
INVARIANT PoolConnAgree
INVARIANT ToldIsServed
INVARIANT NoIdleUpstream
INVARIANT ClosedHoldsLeftovers
PROPERTY ImplementsService
