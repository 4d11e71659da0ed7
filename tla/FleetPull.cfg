\* One order, nodes of one or two fabrics, a pull inside the apply; both may be cut short.
SPECIFICATION FleetSpec
CONSTANTS
    n1 = n1
    n2 = n2
    Nodes <- MCNodes
    Chunks = {k1}
    HaveBatch = 1
    MaxConns = 1
    MaxSnaps = 1
    MaxPulls = 1
    MaxPurges = 1
    MaxFails = 1
    Signers <- MCSigners
    Fabrics = {1, 2}
    NoKey = NoKey
    NoOrder = NoOrder
    MaxEdits = 1
    MaxTime = 1
    MaxOrders = 1
    MaxDeaths = 1
INVARIANTS
    ApplySettles
    PinnedOnly
CHECK_DEADLOCK FALSE
