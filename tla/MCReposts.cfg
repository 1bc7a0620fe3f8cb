SPECIFICATION Spec
CONSTANTS
    t1 = t1
    t2 = t2
    r1 = r1
    r2 = r2
    r3 = r3
    w1 = w1
    w2 = w2
    NoThread = NoThread
    NoRequest = NoRequest
    Threads = {t1}
    Requests = {r1, r2}
    Workers = {w1}
    WorkerOf <- OneWorker
    Replies <- Brief
    StepLimit = 4
    Reposts = "idle"
    MaxCrashes = 0
INVARIANT OnePendingPerThread
\* Deadlock: every request may have been served.
CHECK_DEADLOCK FALSE
