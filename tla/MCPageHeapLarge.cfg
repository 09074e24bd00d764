CONSTANTS
    Objects = {o1, o2}
    Roots = {r1, r2}
    Nil = Nil
    NumPages = 10
    PageSlots = 1
    LargeSpan = 2
    Sizes = {"small", "large"}
    MaxPins = 0
    YoungCap = 2
    G0Threshold = 2
    G1Threshold = 2
SPECIFICATION Spec
SYMMETRY Symmetry
INVARIANTS
    OldToYoungIsCarded
    PointersValid
PROPERTIES
    ImplementsObjectGraph
