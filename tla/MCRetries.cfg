SPECIFICATION FairSpec
CONSTANTS
    t1 = t1
    t2 = t2
    r1 = r1
    r2 = r2
    r3 = r3
    w1 = w1
    w2 = w2
    NoThread = NoThread
    NoRequest = NoRequest
    Threads = {t1}
    Requests = {r1, r2, r3}
    Workers = {w1}
    WorkerOf <- OneWorker
    Replies <- Disciplined
    StepLimit = 4
    Reposts = "lost"
    MaxCrashes = 1
INVARIANT TypeOK
INVARIANT VerdictsAreReal
INVARIANT AwaitedApproval
INVARIANT CaseShowsItsApproval
INVARIANT PausedIsListed
INVARIANT NoDoubleCount
INVARIANT CleanRunsAddUp
PROPERTY DecidedOnce
PROPERTY ImplementsGate
PROPERTY HandlersEnd
PROPERTY DecisionIsHeard
\* Deadlock: every request may have been served.
CHECK_DEADLOCK FALSE
