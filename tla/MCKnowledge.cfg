SPECIFICATION FairSpec
CONSTANTS
    u1 = u1
    u2 = u2
    q1 = q1
    orgA = orgA
    orgB = orgB
    Uploads = {u1, u2}
    Asks = {q1}
    Orgs = {orgA, orgB}
    OrgOf <- TwoOrgs
    MaxRetries = 1
    MaxPieces = 2
    TopK = 2
    ScanWidth = 3
INVARIANT AllOrNothing
INVARIANT ToldIsStored
INVARIANT OwnReadyContext
INVARIANT ReadyIsFound
INVARIANT TraceTellsAnswer
INVARIANT RepliesExplain
PROPERTY Answered
\* Deadlock: every request may have been served.
CHECK_DEADLOCK FALSE
