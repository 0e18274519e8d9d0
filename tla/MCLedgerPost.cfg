CONSTANTS
    own = own
    callers = callers
    override = override
    malformed = malformed
    k1 = k1
    k2 = k2
    Calls <- MCCalls
    Keys <- MCKeys
    KeyOf <- MCKeyOf
    InCallerTx <- MCInCallerTx
    Bypass <- MCBypass
    Malformed <- MCMalformed
    MaxAttempts = 2

SPECIFICATION FairSpec

INVARIANTS
    TypeOK
    AtMostOnePerKey
    AllOrNothing
    AnswerNamesPostedGroup

PROPERTIES
    SwitchAdmitsNone
    EveryCallSettles
    ImplementsPromise
