CONSTANTS
    api1 = api1
    pass1 = pass1
    sweeper = sweeper
    r1 = r1
    r2 = r2
    Rows = {r1, r2}
    Workers = {api1, pass1, sweeper}
    Duties <- MCDuties
    FailureThreshold = 2
    MaxFailures = 2

SPECIFICATION FairSpec

INVARIANTS
    TypeOK
    ScrapesExclusive
    GateHoldsUntilRaced
    RefundNeedsStreak

PROPERTIES
    PendingGetsScraped

CHECK_DEADLOCK FALSE
