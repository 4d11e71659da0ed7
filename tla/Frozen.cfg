\* Two commands of any kind on one fabric, two files, cuts of Time Machine's own.
SPECIFICATION Spec
CONSTANTS
    Procs = {p1, p2}
    NumPaths = 2
    Vals = {a, b}
    MaxCuts = 2
    None = None
SYMMETRY Symmetry
INVARIANTS
    PointInTime
    CleanExit
CHECK_DEADLOCK FALSE
