SPECIFICATION Spec
CONSTANTS
    n1 = n1
    n2 = n2
    Names = {n1, n2}
    Self = n1
    Lens = {1, 2, 4}
    Limit = 4
    Overhead = 1
    RetransmitMult = 2
    GossipNodes = 2
    NodeCounts = {9, 10}
    MaxQueued = 3
INVARIANT
    OverheadPerMessage
