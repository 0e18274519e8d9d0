CONSTANTS
    api1 = api1
    api2 = api2
    cron1 = cron1
    s1 = s1
    d1 = d1
    Subs = {s1}
    Disputes = {d1}
    DisputeOf <- MCDisputeOf
    Workers = {api1, api2, cron1}
    Duties <- MCDuties
    Overrides = {"APPROVED", "REJECTED"}
    MaxActive = 3
    MaxCredits = 1

SPECIFICATION FairSpec

INVARIANTS
    TypeOK
    AutoPayoutCreditsOnce
    HistoryFollowsStatus

PROPERTIES
    StaleGetsEscalated
    RipeGetsClosed
    DueGetsPaid

CHECK_DEADLOCK FALSE
