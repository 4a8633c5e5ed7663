SPECIFICATION FairSpec
CONSTANTS
    Browsers = {b1, b2}
    Null = Null
    Ttl = 0
    MaxKey = 2
    MaxNow = 2
INVARIANTS
    OneRefreshPerAttempt
    RejectionHasCause
PROPERTIES
    NoKeyRollback
    StaleOnlyAfterAttempt
    EveryRequestEnds
