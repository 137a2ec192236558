CONSTANTS
    k1 = k1
    k2 = k2
    r1 = r1
    r2 = r2
    r3 = r3
    approve1 = approve1
    reject1 = reject1
    cancel1 = cancel1
    Keys = {k1}
    Requests = {r1}
    Readers = {}
    BalanceKey <- OnK1
    Days <- ElevenTenths
    IdempotencyKey <- OwnKey
    Reviews = {}
    Kind <- ReviewKind
    Target <- ReviewTarget
    Unit = 1
    ExactFloats = FALSE
    OptimisticLock = FALSE
    MaxRetries = 3
    MaxCrashes = 0
    DbMayFail = FALSE
    InitBalance <- TwelveTenths
    InitHcm <- HcmTenths
SPECIFICATION Spec
CHECK_DEADLOCK FALSE
PROPERTIES RefusedOnlyWhenShort
