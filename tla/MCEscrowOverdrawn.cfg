CONSTANTS
    api1 = api1
    api2 = api2
    cron1 = cron1
    cron2 = cron2
    NoRef = NoRef
    Subs = {s1, s2}
    Refunds = {}
    Workers = {api1}
    Duties <- ReviewOnly
    Face <- TwoClaims
    Nets = {15}
    Batch = 2
    Reopenable = {}
    Overrides = {}

SPECIFICATION Spec

INVARIANTS
    ReserveCoversApprovals

CHECK_DEADLOCK FALSE
