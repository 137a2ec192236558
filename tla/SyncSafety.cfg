CONSTANTS
    k1 = k1
    k2 = k2
    k3 = k3
    r1 = r1
    cycle1 = cycle1
    cycle2 = cycle2
    batch1 = batch1
    refresh1 = refresh1
    Keys = {k1, k2}
    Requests = {r1}
    Readers = {}
    BalanceKey <- KeyOfRequest
    Days <- TwoDays
    IdempotencyKey <- OwnKey
    Unit = 1
    ExactFloats = FALSE
    OptimisticLock = TRUE
    DbMayFail = TRUE
    InitBalance <- LocalRows
    MaxCrashes = 1
    InitHcm <- HcmRows
    Cycles = {cycle1, cycle2}
    Batches = {batch1}
    Postings <- AnyList
    Refreshes = {refresh1}
    RefreshKey <- KeyOfRefresh
    KnownEmployee <- Employees
    RevalidationQuery = TRUE
    HmacSecret = TRUE
    Signatures = {TRUE, FALSE}
    HcmResets = TRUE
    Pending = {r1}
    BonusDays <- OneDay
    HcmSettings <- Lowered
    MaxHcmChanges = 1
SPECIFICATION Spec
SYMMETRY CycleSymmetry
INVARIANTS SyncTypeOK FlagMeansOneCycle
PROPERTIES ConflictsAreFlagged
