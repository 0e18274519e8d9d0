CONSTANTS
    api1 = api1
    api2 = api2
    t1 = t1
    t2 = t2
    NoTxn = NoTxn
    Txns = {t1, t2}
    Workers = {api1, api2}
    Duties <- TwoReplicas
    Announced = {"CREATED", "FUNDS_RECEIVED"}
    Capacities = {1}
    Overrides = {"DRAFT", "LIVE"}
    Faults = TRUE

SPECIFICATION Spec

SYMMETRY ReplicaSymmetry

INVARIANTS
    TypeOK
    PayableIsRecorded
    FundingConsistent
    FundedByProvider

PROPERTIES
    RefundIsFinal
    ImplementsFunding
