\* Reverts and guarded commands against edits at any moment; path 2 is ignored.
SPECIFICATION FairSpec
CONSTANTS
    a = a
    b = b
    k1 = k1
    k2 = k2
    k3 = k3
    Absent = Absent
    Contents = {a, b}
    Chunks = {k1, k2, k3}
    ChunksOf <- MCChunksOf
    Paths = {1, 2}
    Ignored = {2}
    Commands = {"snap", "revert", "guard", "purge"}
    MaxSnaps = 2
    MaxEdits = 2
    MaxCrashes = 1
INVARIANTS
    HistoryClosed
    RevertExact
    GuardUndoes
PROPERTIES
    GateProtects
    HistorySpec
    CommandEnds
CHECK_DEADLOCK FALSE
