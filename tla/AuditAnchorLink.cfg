\* A process dies between the anchor file and last_anchor.
SPECIFICATION Spec
CONSTANTS
    Procs = {p1, p2}
    NoProc = NoProc
    Bodies = {x}
    MaxLines = 3
    MaxAnchors = 2
    MaxInits = 0
    MaxCrashes = 1
SYMMETRY Symmetry
INVARIANT
    SeriesLinks
CHECK_DEADLOCK FALSE
