CONSTANTS
    Objects = {o1, o2}
    Roots = {r1}
    Nil = Nil
    NumPages = 6
    PageSlots = 2
    LargeSpan = 2
    Sizes = {"small", "large"}
    MaxPins = 1
    YoungCap = 2
    G0Threshold = 2
    G1Threshold = 2
SPECIFICATION Spec
INVARIANTS
    PinnedChildrenSurvive
CHECK_DEADLOCK FALSE
