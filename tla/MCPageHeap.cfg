CONSTANTS
    Objects = {o1, o2}
    Roots = {r1, r2}
    Nil = Nil
    NumPages = 5
    PageSlots = 2
    LargeSpan = 2
    Sizes = {"small"}
    MaxPins = 1
    YoungCap = 2
    G0Threshold = 2
    G1Threshold = 2
SPECIFICATION Spec
SYMMETRY Symmetry
INVARIANTS
    TypeOK
    AllocatorInOrder
    OldToYoungIsCarded
    PointersValid
PROPERTIES
    PinnedObjectsStay
    ImplementsObjectGraph
