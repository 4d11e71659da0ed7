\* A purge without a signing key.
SPECIFICATION Spec
CONSTANTS
    a = a
    b = b
    k1 = k1
    k2 = k2
    k3 = k3
    Absent = Absent
    Contents = {a, b}
    Chunks = {k1, k2, k3}
    ChunksOf <- MCChunksOf
    Paths = {1, 2}
    Ignored = {}
    Commands = {"snap", "purge"}
    MaxSnaps = 1
    MaxEdits = 0
    MaxCrashes = 0
INVARIANT
    TombstoneCertified
CHECK_DEADLOCK FALSE
