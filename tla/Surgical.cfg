\* Two paths, every history of four snapshots by two actors and untagged ones.
SPECIFICATION Spec
CONSTANTS
    Paths = {1, 2}
    Contents = {a, b}
    Absent = Absent
    Actors = {alice, bob}
    NoActor = NoActor
    MaxSnaps = 4
SYMMETRY Symmetry
INVARIANTS
    OthersKept
    ActorGone
    UndoIsReplay
CHECK_DEADLOCK FALSE
