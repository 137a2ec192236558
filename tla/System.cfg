CONSTANTS
    k1 = k1
    r1 = r1
    reject1 = reject1
    cycle1 = cycle1
    refresh1 = refresh1
    Keys = {k1}
    Requests = {r1}
    Readers = {r1}
    BalanceKey <- KeyOfRequest
    Days <- TwoDays
    IdempotencyKey <- OwnKey
    Unit = 1
    ExactFloats = TRUE
    OptimisticLock = TRUE
    DbMayFail = FALSE
    InitBalance <- LocalRows
    MaxCrashes = 0
    InitHcm <- HcmRows
    Reviews = {reject1}
    Kind <- ReviewKind
    Target <- ReviewTarget
    MaxRetries = 3
    Cycles = {cycle1}
    Batches = {}
    Postings = {}
    Refreshes = {refresh1}
    RefreshKey <- KeyOfRefresh
    KnownEmployee = {k1}
    RevalidationQuery = TRUE
    HmacSecret = FALSE
    Signatures = {FALSE}
    HcmResets = FALSE
    Pending = {}
    BonusDays = {}
    HcmSettings <- Lowered
    MaxHcmChanges = 1
SPECIFICATION CallSpec
PROPERTIES EveryRequestSettles ImplementsFiling ReservesAtomically
