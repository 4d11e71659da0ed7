\* A file the walk listed is unlinked before it is read.
SPECIFICATION Spec
CONSTANTS
    Blocks = {b1, b2}
    Retries = 3
    SameTick = FALSE
    MaxLen = 2
    MaxWrites = 1
SYMMETRY BlockSymmetry
INVARIANT
    NeverAborts
CHECK_DEADLOCK FALSE
