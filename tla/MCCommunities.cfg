SPECIFICATION FairSpec
CONSTANTS
    a1 = a1
    a2 = a2
    a3 = a3
    a4 = a4
    Accounts = {a1, a2, a3, a4}
    MaxTransfers = 4
    Graphs <- AllGraphs
    MinSize = 3
    MaxSize = 3
    MinHubIndegree = 2
INVARIANT ForestIsGraph
INVARIANT CommunitiesFound
INVARIANT FlagsTheSuspicious
INVARIANT EvidenceIsTheCluster
PROPERTY Finishes
