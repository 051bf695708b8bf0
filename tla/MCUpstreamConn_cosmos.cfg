SPECIFICATION Spec
CONSTANTS
    Callers = {c1}
    Sub = Sub
    Run = Run
    Params = {p1}
    IDs = {i1, i2, i3, i4}
    SubIDs = {}
    NoID = NoID
    None = None
    Orphan = Orphan
    Eth = FALSE
    MaxInbox = 1
SYMMETRY Interchangeable
INVARIANT TypeOK
INVARIANT LeftoversAreDead
INVARIANT NoSharedChannel
INVARIANT ConnMatchesPool
