SPECIFICATION Spec
CONSTANTS
    Accounts = {a1, a2, a3, a4}
    Amounts = {1, 2}
    MaxEdges = 4
    MaxTime = 1
    MinHops = 2
    MaxHops = 3
    MinFirstHopAmount = 2
    MaxHopGap = 1
    Day = 2
    Limit = 3
SYMMETRY Symmetry
INVARIANT EvidenceIsChain
INVARIANT ChainsFlagged
INVARIANT NoOverlap
