CONSTANTS
    k1 = k1
    k2 = k2
    k3 = k3
    r1 = r1
    cycle1 = cycle1
    cycle2 = cycle2
    batch1 = batch1
    refresh1 = refresh1
    Keys = {k1}
    Requests = {r1}
    Readers = {}
    BalanceKey <- KeyOfRequest
    Days <- TwoDays
    IdempotencyKey <- OwnKey
    Unit = 1
    ExactFloats = TRUE
    OptimisticLock = FALSE
    DbMayFail = FALSE
    InitBalance <- LocalRows
    MaxCrashes = 0
    InitHcm <- HcmRows
    Cycles = {cycle1}
    Batches = {}
    Postings = {}
    Refreshes = {}
    RefreshKey <- KeyOfRefresh
    KnownEmployee <- Employees
    RevalidationQuery = FALSE
    HmacSecret = FALSE
    Signatures = {FALSE}
    HcmResets = FALSE
    Pending = {r1}
    BonusDays = {}
    HcmSettings <- Lowered
    MaxHcmChanges = 1
SPECIFICATION Spec
PROPERTIES EventuallyInStep
