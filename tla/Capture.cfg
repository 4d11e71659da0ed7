\* Four writes reach the last attempt; every write moves the mtime.
SPECIFICATION Spec
CONSTANTS
    Blocks = {b1, b2}
    Retries = 3
    SameTick = FALSE
    MaxLen = 2
    MaxWrites = 4
SYMMETRY BlockSymmetry
INVARIANTS
    StableIsExact
    FastPathSound
    FlaggedWasBusy
CHECK_DEADLOCK FALSE
