\* An undo over a deletion by someone else.
SPECIFICATION Spec
CONSTANTS
    Paths = {1}
    Contents = {a, b}
    Absent = Absent
    Actors = {alice}
    NoActor = NoActor
    MaxSnaps = 4
SYMMETRY Symmetry
INVARIANTS
    DeletionKept
CHECK_DEADLOCK FALSE
