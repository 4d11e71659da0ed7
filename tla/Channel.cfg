\* One pull of up to three requests; every pair of passphrases; frames of no, one
\* and several Noise messages and one over the limit; faults at any point.
SPECIFICATION FairSpec
CONSTANTS
    Psks = {k1, k2}
    NoPsk = NoPsk
    MaxReqs = 3
    ReqSizes = {1, 3}
    ReplySizes = {0, 1, 3, 4}
    MsgCap = 2
    MaxFrame = 3
    Room = 2
INVARIANTS
    NoDowngrade
    FailsForCause
PROPERTIES
    RpcSpec
    SessionEnds
CHECK_DEADLOCK FALSE
