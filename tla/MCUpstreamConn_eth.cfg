SPECIFICATION FairSpec
CONSTANTS
    Callers = {c1}
    Sub = Sub
    Run = Run
    Params = {p1}
    IDs = {i1, i2}
    SubIDs = {s1}
    NoID = NoID
    None = None
    Orphan = Orphan
    Eth = TRUE
    MaxInbox = 1
INVARIANT NoSharedChannel
INVARIANT ConnMatchesPool
INVARIANT NoClosedSend
PROPERTY RequestsEnd
PROPERTY ReadsAgain
