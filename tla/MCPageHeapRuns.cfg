CONSTANTS
    Objects = {o1, o2, o3}
    Roots = {r1}
    Nil = Nil
    NumPages = 6
    PageSlots = 1
    LargeSpan = 2
    Sizes = {"small", "large"}
    MaxPins = 0
    YoungCap = 2
    G0Threshold = 3
    G1Threshold = 3
SPECIFICATION Spec
PROPERTIES
    RootsSurviveReclaim
CHECK_DEADLOCK FALSE
