CONSTANTS
    k1 = k1
    k2 = k2
    r1 = r1
    r2 = r2
    r3 = r3
    approve1 = approve1
    reject1 = reject1
    cancel1 = cancel1
    Keys = {k1, k2}
    Requests = {r1, r2}
    Readers = {}
    BalanceKey <- R2OnK2
    Days <- TwoAndFive
    IdempotencyKey <- SharedKey
    Reviews = {approve1, reject1, cancel1}
    Kind <- ReviewKind
    Target <- ReviewTarget
    Unit = 1
    ExactFloats = TRUE
    OptimisticLock = FALSE
    MaxRetries = 3
    MaxCrashes = 1
    DbMayFail = TRUE
    InitBalance <- LocalSix
    InitHcm <- HcmFour
SPECIFICATION Spec
CHECK_DEADLOCK FALSE
INVARIANTS TypeOK ApprovedIsFiled SameKeySameRequest HcmDeductsOnce
PROPERTIES ImplementsFiling
