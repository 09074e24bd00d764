CONSTANTS
    Mutators = {m1, m2, m3}
    None = None
    MaxEpoch = 3
SPECIFICATION Spec
SYMMETRY Symmetry
INVARIANTS
    TypeOK
    WorldStopped
    NoStaleAddress
    RootsVisitedEveryCycle
PROPERTY ImplementsStopTheWorld
