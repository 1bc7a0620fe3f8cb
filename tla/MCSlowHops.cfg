SPECIFICATION Spec
CONSTANTS
    Accounts = {a1, a2, a3}
    Amounts = {2}
    MaxEdges = 2
    MaxTime = 3
    MinHops = 2
    MaxHops = 3
    MinFirstHopAmount = 2
    MaxHopGap = 1
    Day = 2
    Limit = 200
SYMMETRY Symmetry
INVARIANT HopsRapid
