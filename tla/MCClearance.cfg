CONSTANTS
    api1 = api1
    api2 = api2
    cron1 = cron1
    cron2 = cron2
    NoRef = NoRef
    Subs = {s1, s2}
    Refunds = {}
    Workers = {api1, cron1, cron2}
    Duties <- ReviewAndJobs
    Face <- OneClaim
    Nets = {15}
    Batch = 2
    Reopenable = {}
    Overrides = {}

SPECIFICATION FairSpec

INVARIANTS
    EachEventPostedOnce

PROPERTIES
    ClearedEventuallyAvailable

CHECK_DEADLOCK FALSE
