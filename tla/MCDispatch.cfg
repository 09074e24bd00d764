CONSTANTS
    Threads = {t1, t2}
    Nil = Nil
    Object = Object
    Shape = Shape
    Circle = Circle
    Cpl <- MCCpl
    Args <- UnaryArgs
    Signatures <- UnarySignatures
    Bodies = {b1, b2}
    Domains <- UnaryDomains
    SealedClasses = {Circle}
    MaxGeneration = 3
SPECIFICATION Spec
SYMMETRY Symmetry
INVARIANTS
    TypeOK
    CallsCurrentMethod
    CacheIsCurrent
    SealedCallsKeepTheirMethods
