CONSTANTS
    api1 = api1
    api2 = api2
    cron1 = cron1
    cron2 = cron2
    Workers = {api1, api2, cron1, cron2}
    Duties <- MCDuties
    MaxPayments = 2

SPECIFICATION FairSpec

INVARIANTS
    TypeOK

PROPERTIES
    ProIsRecorded
    DueGetsRenewed
    EndedGetsExpired

CHECK_DEADLOCK FALSE
