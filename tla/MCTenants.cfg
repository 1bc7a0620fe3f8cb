SPECIFICATION Spec
CONSTANTS
    r1 = r1
    r2 = r2
    r3 = r3
    alice = alice
    bob = bob
    e1 = e1
    e2 = e2
    e3 = e3
    p1 = p1
    p2 = p2
    t1 = t1
    old1 = old1
    old2 = old2
    None = None
    Requests = {r1, r2, r3}
    Emails = {e1, e2, e3}
    Passwords = {p1, p2}
    Founders <- TwoFounders
    DayLength = 2
    LastTick = 2
    Calls <- SomeCalls
    Threads = {t1}
    Windows <- SomeWindows
    DefaultDays = 1
    Earlier <- Past
SYMMETRY Symmetric
INVARIANT TokensHold
INVARIANT OrganizationsOwned
INVARIANT ReportAddsUp
INVARIANT DaysPartition
\* Deadlock: every request may have been served.
CHECK_DEADLOCK FALSE
