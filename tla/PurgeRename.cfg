\* A copy of purged content is snapshotted under another name.
SPECIFICATION Spec
CONSTANTS
    a = a
    b = b
    k1 = k1
    k2 = k2
    k3 = k3
    Absent = Absent
    Contents = {a, b}
    Chunks = {k1, k2, k3}
    ChunksOf <- MCChunksOf
    Paths = {1, 2}
    Ignored = {}
    Commands = {"snap", "purge", "keygen"}
    MaxSnaps = 2
    MaxEdits = 1
    MaxCrashes = 0
INVARIANT
    CertifiedGone
CHECK_DEADLOCK FALSE
