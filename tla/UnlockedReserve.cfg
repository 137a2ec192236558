CONSTANTS
    k1 = k1
    k2 = k2
    r1 = r1
    r2 = r2
    r3 = r3
    approve1 = approve1
    reject1 = reject1
    cancel1 = cancel1
    Keys = {k1}
    Requests = {r1, r2}
    Readers = {}
    BalanceKey <- OnK1
    Days <- TwoEach
    IdempotencyKey <- OwnKey
    Reviews = {}
    Kind <- ReviewKind
    Target <- ReviewTarget
    Unit = 1
    ExactFloats = TRUE
    OptimisticLock = FALSE
    MaxRetries = 3
    MaxCrashes = 0
    DbMayFail = FALSE
    InitBalance <- LocalThree
    InitHcm <- HcmThree
SPECIFICATION Spec
CHECK_DEADLOCK FALSE
INVARIANTS NoOverbooking
