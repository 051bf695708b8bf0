SPECIFICATION FairSpec
CONSTANTS
    Callers = {}
    Sub = Sub
    Run = Run
    Params = {p1}
    IDs = {i1, i2, i3}
    SubIDs = {}
    NoID = NoID
    None = None
    Orphan = Orphan
    Eth = FALSE
    MaxInbox = 1
PROPERTY ReadsAgain
