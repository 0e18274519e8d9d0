CONSTANTS
    api1 = api1
    api2 = api2
    cron1 = cron1
    cron2 = cron2
    NoRef = NoRef
    Subs = {s1}
    Refunds = {r1}
    Workers = {api1, api2, cron1}
    Duties <- AllHandlers
    Face <- OneClaim
    Nets = {15, 17}
    Batch = 2
    Reopenable = {s1}
    Overrides = {"APPROVED"}

SPECIFICATION Spec

SYMMETRY ApiSymmetry

INVARIANTS
    TypeOK
    ReversalHasOriginal
    ReleaseMatchesApproval
    RefundSettled

PROPERTIES
    ImplementsEarnings

CHECK_DEADLOCK FALSE
