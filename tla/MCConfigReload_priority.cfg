SPECIFICATION Spec
CONSTANTS
    Keys = {}
    Rules <- TwoRules
    Contents <- OneWithout
    Partial <- EmptiedOrGone
    Unreadable = Unreadable
    MaxSaves = 1
    None = None
INVARIANT PriorityOrder
