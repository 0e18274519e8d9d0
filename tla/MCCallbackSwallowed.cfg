CONSTANTS
    api1 = api1
    api2 = api2
    t1 = t1
    t2 = t2
    NoTxn = NoTxn
    Txns = {t1}
    Workers = {api1}
    Duties <- OneReplica
    Announced = {"FUNDS_RECEIVED"}
    Capacities = {1}
    Overrides = {}
    Faults = FALSE

SPECIFICATION FairSpec

PROPERTIES
    FundsReceivedGoLive

CHECK_DEADLOCK FALSE
