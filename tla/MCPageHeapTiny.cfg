CONSTANTS
    Objects = {o1, o2, o3, o4}
    Roots = {r1}
    Nil = Nil
    NumPages = 2
    PageSlots = 2
    LargeSpan = 2
    Sizes = {"small"}
    MaxPins = 1
    YoungCap = 2
    G0Threshold = 1
    G1Threshold = 1
SPECIFICATION Spec
SYMMETRY Symmetry
INVARIANTS
    AllocatorInOrder
    PointersValid
PROPERTIES
    PinnedObjectsStay
    ImplementsObjectGraph
CHECK_DEADLOCK FALSE
