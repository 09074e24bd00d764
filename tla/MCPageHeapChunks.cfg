CONSTANTS
    Objects = {o1, o2}
    Roots = {r1}
    Nil = Nil
    NumPages = 4
    PageSlots = 1
    LargeSpan = 2
    Sizes = {"small"}
    MaxPins = 0
    YoungCap = 2
    G0Threshold = 1
    G1Threshold = 2
SPECIFICATION Spec
INVARIANTS
    ReferencesRewritten
CHECK_DEADLOCK FALSE
