\* An undo over work that the actor merely captured.
SPECIFICATION Spec
CONSTANTS
    Paths = {1}
    Contents = {a, b, c}
    Absent = Absent
    Actors = {alice}
    NoActor = NoActor
    MaxSnaps = 6
SYMMETRY Symmetry
INVARIANTS
    OwnWorkKept
CHECK_DEADLOCK FALSE
