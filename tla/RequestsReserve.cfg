CONSTANTS
    k1 = k1
    k2 = k2
    r1 = r1
    r2 = r2
    r3 = r3
    approve1 = approve1
    reject1 = reject1
    cancel1 = cancel1
    Keys = {k1}
    Requests = {r1, r2, r3}
    Readers = {r1, r2, r3}
    BalanceKey <- OnK1
    Days <- WholeTieFine
    IdempotencyKey <- ThirdRepeatsFirst
    Reviews = {reject1}
    Kind <- ReviewKind
    Target <- ReviewTarget
    Unit = 4
    ExactFloats = FALSE
    OptimisticLock = TRUE
    MaxRetries = 3
    MaxCrashes = 1
    DbMayFail = FALSE
    InitBalance <- Local85
    InitHcm <- Hcm83
SPECIFICATION Spec
CHECK_DEADLOCK FALSE
INVARIANTS HcmDeductsOnce ReservedIsHeld NoOverbooking UsedIsFiled
PROPERTIES ReservesAtomically ImplementsLedger
