\* Snapshots and purges over paths that share a chunk; one command may die.
SPECIFICATION Spec
CONSTANTS
    a = a
    b = b
    k1 = k1
    k2 = k2
    k3 = k3
    Absent = Absent
    Contents = {a, b}
    Chunks = {k1, k2, k3}
    ChunksOf <- MCChunksOf
    Paths = {1, 2}
    Ignored = {}
    Commands = {"snap", "purge", "keygen"}
    MaxSnaps = 2
    MaxEdits = 2
    MaxCrashes = 1
INVARIANTS
    Restorable
    ErasureComplete
PROPERTIES
    PurgedStaysDead
CHECK_DEADLOCK FALSE
