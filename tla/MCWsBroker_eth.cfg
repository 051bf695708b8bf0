SPECIFICATION Spec
CONSTANTS
    Clients = {c1, c2}
    Params = {p1, p2}
    IDs = {i1, i2}
    Conns = {k1, k2}
    NoID = NoID
    NoParam = NoParam
    NoConn = NoConn
    Nobody = Nobody
    Eth = TRUE
    MaxSending = 1
SYMMETRY Interchangeable
INVARIANT PoolConnAgree
INVARIANT ToldIsServed
INVARIANT ClosedHoldsLeftovers
PROPERTY BroadcastReachesSubscribers
