CONSTANTS
    api1 = api1
    api2 = api2
    payer = payer
    r1 = r1
    r2 = r2
    NoRef = NoRef
    Wds = {r1, r2}
    Workers = {api1, api2, payer}
    Duties <- AllHandlers
    Nets = {1}
    Amounts = {1}
    Corrections <- OneMoreOrLess
    MaxPending = 1
    MaxCredited = 1
    MaxCorrected = 1

SPECIFICATION Spec

SYMMETRY Symmetric

INVARIANTS
    TypeOK
    WalletMatchesJournal
    SettledInOrder

CHECK_DEADLOCK FALSE
