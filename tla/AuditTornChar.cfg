\* A process dies with its entry cut inside a multibyte character.
SPECIFICATION Spec
CONSTANTS
    Procs = {p1, p2}
    NoProc = NoProc
    Bodies = {x}
    MaxLines = 3
    MaxAnchors = 1
    MaxInits = 0
    MaxCrashes = 1
SYMMETRY Symmetry
INVARIANT
    AlwaysResumes
CHECK_DEADLOCK FALSE
