CONSTANTS
    Threads = {t1}
    Nil = Nil
    Object = Object
    Shape = Shape
    Circle = Circle
    Cpl <- MCCpl
    Args <- BinaryArgs
    Signatures <- BinarySignatures
    Bodies = {b1, b2}
    Domains <- BinarySignatures
    SealedClasses = {}
    MaxGeneration = 3
SPECIFICATION Spec
INVARIANTS
    CallsCurrentMethod
