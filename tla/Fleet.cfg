\* Two orders minted in two seconds, presented to two nodes in any sequence.
SPECIFICATION FleetSpec
CONSTANTS
    n1 = n1
    n2 = n2
    Nodes <- MCNodes
    Chunks = {}
    HaveBatch = 1
    MaxConns = 1
    MaxSnaps = 2
    MaxPulls = 1
    MaxPurges = 0
    MaxFails = 0
    Signers <- MCSigners
    Fabrics = {1}
    NoKey = NoKey
    NoOrder = NoOrder
    MaxEdits = 0
    MaxTime = 2
    MaxOrders = 2
    MaxDeaths = 0
INVARIANTS
    FleetConverges
PROPERTIES
    MonotoneApply
CHECK_DEADLOCK FALSE
