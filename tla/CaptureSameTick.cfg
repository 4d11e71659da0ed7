\* Two writes may share one tick of the file system's clock.
SPECIFICATION Spec
CONSTANTS
    Blocks = {b1, b2}
    Retries = 3
    SameTick = TRUE
    MaxLen = 2
    MaxWrites = 2
SYMMETRY BlockSymmetry
INVARIANT
    StableIsExact
CHECK_DEADLOCK FALSE
