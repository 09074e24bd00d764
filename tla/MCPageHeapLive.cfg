CONSTANTS
    Objects = {o1, o2}
    Roots = {r1}
    Nil = Nil
    NumPages = 2
    PageSlots = 2
    LargeSpan = 2
    Sizes = {"small", "large"}
    MaxPins = 1
    YoungCap = 2
    G0Threshold = 2
    G1Threshold = 1
SPECIFICATION FairSpec
PROPERTIES
    CollectionEnds
    AllocationAnswered
CHECK_DEADLOCK FALSE
