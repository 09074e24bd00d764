CONSTANTS
    Nil = Nil
    Error = Error
    Warning = Warning
    Outer = Outer
    Inner = Inner
    Classes = {Error, Warning}
    Kinds <- MCKinds
    Blocks <- MCBlocks
    MaxDepth = 4
    MaxFrames = 2
    MaxChain = 1
    Keys = {k1, k2, k3, k4}
    Values = {v1, v2}
    Absent = Absent
    Hashes = {0, 2, 7}
    InitialCapacity = 4
    Hints = {1, 5}
    MaxCapacity = 8
    Temp = Temp
    Temps = {Temp}
    Functions <- MCFunctions
    Hierarchies <- MCHierarchies
SPECIFICATION MCSpec
CHECK_DEADLOCK FALSE
INVARIANTS
    TypeOK
    HandlersOfBlocks
    SafepointsOfFrames
    ChainOfMethods
    TableIsMap
    CountsMatch
    ProbesEnd
    RootsAreLiveAcross
    ListsAgree
    RefusedForCause
PROPERTIES
    ExitsReachTheirBlock
    ImplementsBlockScopes
