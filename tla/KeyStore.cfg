\* Four commands of two processes in every order; a failed Keychain call, a failed
\* launchctl call and a death.
SPECIFICATION Spec
CONSTANTS
    Procs = {p1, p2}
    NoProc = NoProc
    Keys = {k1, k2}
    NoKey = NoKey
    Ids = {i1, i2}
    NoId = NoId
    MaxCmds = 4
    MaxDenied = 1
    MaxRefused = 1
    MaxCrashes = 1
SYMMETRY Symmetry
INVARIANTS
    NoSecondKey
    KeySafe
    AgentRemovable
CHECK_DEADLOCK FALSE
