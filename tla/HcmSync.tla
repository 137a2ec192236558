------------------------------ MODULE HcmSync ------------------------------
(***************************************************************************)
(* How HCM's balances reach the local table: the scheduled reconciliation  *)
(* (HcmSyncService), the batch and real-time syncs of BalancesService, and *)
(* the webhooks HCM sends.                                                 *)
(*                                                                         *)
(* Each sync is a process that runs alone between two awaits.  A snapshot  *)
(* of HCM is taken when HCM serves the call and used later, item by item,  *)
(* while HCM, the requests and the other syncs go on.  The items of a      *)
(* batch have different keys and are applied in any order.                 *)
(*                                                                         *)
(* RevalidationQuery.  The conflict branch of upsertBalanceFromBatch runs  *)
(* a raw UPDATE whose column names (employee_id, ...) are not those of the *)
(* table TypeORM creates (employeeId, ...).  FALSE is the program as       *)
(* built: the statement throws and the transaction rolls back.  TRUE is    *)
(* the statement with the table's own column names.                        *)
(***************************************************************************)
EXTENDS LeaveStore, MockHcm

CONSTANTS
    Cycles,             \* reconciliation cycles; each runs again and again
    Batches,            \* POST /balances/sync/batch calls
    Postings,           \* lists they may post that HCM's table is not
    Refreshes,          \* POST /balances/sync/realtime calls, ?refresh=true
    RefreshKey,         \* RefreshKey[s]: the balance refreshed by call s
    KnownEmployee,      \* the keys whose employee has a row in employees
    RevalidationQuery,
    HmacSecret,         \* whether a webhook secret is configured
    Signatures,         \* whether HCM's webhooks carry the right signature
    HcmResets,          \* whether HCM may be reset to its first balances
    Pending,            \* requests PENDING at the start
    BonusDays,          \* days HCM may add to a balance
    HcmSettings,        \* balances HCM may be set to
    MaxHcmChanges       \* bound on the changes made inside HCM

Syncs == Cycles \cup Batches \cup Refreshes

ASSUME SyncAssumption ==
    /\ Cycles \cap Batches = {}
    /\ (Cycles \cup Batches) \cap Refreshes = {}
    /\ \A list \in Postings : /\ DOMAIN list \subseteq Keys
                             /\ list \in [DOMAIN list -> HcmBalance]
    /\ RefreshKey \in [Refreshes -> Keys]
    /\ DOMAIN InitBalance \subseteq KnownEmployee
    /\ KnownEmployee \subseteq Keys
    /\ RevalidationQuery \in BOOLEAN
    /\ HmacSecret \in BOOLEAN
    /\ Signatures \subseteq BOOLEAN
    /\ HcmResets \in BOOLEAN
    /\ "webhook" \notin Syncs
    /\ Pending \subseteq Requests
    /\ BonusDays \subseteq Nat
    /\ HcmSettings \subseteq HcmBalance
    /\ MaxHcmChanges \in Nat

VARIABLES
    at,             \* at[s]: what sync s does next
    items,          \* items[s]: HCM's data that sync s has yet to apply
    found,          \* found[s]: the row upsertBalance found, as a set
    tally,          \* tally[s]: what happened to the items of s so far
    log,            \* log[s]: the status of the last SyncLog of sync s, or of
                    \* the webhooks
    isReconciling,  \* the flag of HcmSyncService
    webhooks,       \* webhooks on their way, as [key, row, signed]
    hcmChanges      \* changes made inside HCM so far

syncVars ==
    <<at, items, found, tally, log, isReconciling, webhooks, hcmChanges>>

At == {"idle", "fetch", "apply", "get", "find", "store", "done"}

NoItems == << >>

Loggers == Syncs \cup {"webhook"}

SyncInit ==
    /\ at    = [s \in Syncs |-> "idle"]
    /\ items = [s \in Syncs |-> NoItems]
    /\ found = [s \in Syncs |-> {}]
    /\ tally = [s \in Syncs |-> {}]
    /\ log   = [s \in Loggers |-> "none"]
    /\ isReconciling = FALSE
    /\ webhooks      = {}
    /\ hcmChanges    = 0

Step(s, from, to) ==
    /\ at[s] = from
    /\ at' = [at EXCEPT ![s] = to]

Log(s, outcome) == log' = [log EXCEPT ![s] = outcome]

\* The log that ends a call, whose save may throw after all else is done.
LastLog(s, outcome) == Log(s, outcome) \/ (DbMayFail /\ UNCHANGED log)

Without(f, k) == [j \in DOMAIN f \ {k} |-> f[j]]

----------------------------------------------------------------------------
(***************************************************************************)
(* upsertBalanceFromBatch: one transaction per item.                       *)
(***************************************************************************)

\* A write that leaves the version as it is, as a raw UPDATE would.
OverwriteSameVersion(k, row) ==
    /\ balance' = [j \in DOMAIN balance \cup {k} |->
                     IF j = k THEN row ELSE balance[j]]
    /\ UNCHANGED <<fresh, crashes>>

\* A row with HCM's totals replaces the row of k.  lastSyncedAt always
\* differs, so the version always moves.
Overwrite(k, row) ==
    /\ balance' = [j \in DOMAIN balance \cup {k} |->
                     IF j = k THEN row ELSE balance[j]]
    /\ fresh' = [fresh EXCEPT ![k] = {}]
    /\ UNCHANGED crashes

\* A new row.  Its foreign key demands an employee the service knows.
Insert(k, h) ==
    /\ ~HasBalance(k)
    /\ k \in KnownEmployee
    /\ Overwrite(k, [total |-> h.total, used |-> h.used, reserved |-> 0])
    /\ UNCHANGED status

\* What the check may find when the reserved days meet the days left: it
\* subtracts HCM's totals without rounding.
MayFind(left, reserved) ==
    {conflict \in BOOLEAN : IF conflict THEN MayBeLess(left, reserved)
                                        ELSE left >= reserved}

\* The conflict seen against the total alone, as the comment above
\* processBatchSync has it.
ConflictsWithTotal(k, h) == MayFind(h.total, balance[k].reserved)

\* HCM's data leave fewer days than are reserved locally, or not.
Conflicts(k, h) == MayFind(h.total - h.used, balance[k].reserved)

Update(k, h) ==
    /\ HasBalance(k)
    /\ FALSE \in Conflicts(k, h)
    /\ Overwrite(k, Synced(balance[k], h))
    /\ UNCHANGED status

\* The raw UPDATE of the conflict branch.
FlagPending(k) ==
    status' = [r \in Requests |->
                 IF BalanceKey[r] = k /\ status[r] = "PENDING"
                 THEN "NEEDS_REVALIDATION" ELSE status[r]]

UpdateAndFlag(k, h) ==
    /\ HasBalance(k)
    /\ TRUE \in Conflicts(k, h)
    /\ RevalidationQuery
    /\ Overwrite(k, Synced(balance[k], h))
    /\ FlagPending(k)

\* The transaction throws and rolls back.
UpsertFails(k, h) ==
    /\ \/ ~HasBalance(k) /\ k \notin KnownEmployee
       \/ HasBalance(k) /\ TRUE \in Conflicts(k, h) /\ ~RevalidationQuery
       \/ DbMayFail
    /\ UNCHANGED storeVars

----------------------------------------------------------------------------
(***************************************************************************)
(* The scheduled reconciliation and processBatchSync.                      *)
(***************************************************************************)

\* A cycle that starts whether or not another is running.
TickAnyway(s) ==
    /\ Step(s, "idle", "fetch")
    /\ isReconciling' = TRUE
    /\ UNCHANGED <<storeVars, hcmVars, items, found, tally, log, webhooks,
                   hcmChanges>>

\* The cron job fires.  While another cycle runs it does nothing.
Tick(s) == ~isReconciling /\ TickAnyway(s)

\* POST /hcm/balances/batch is served and answered.
Fetch(s) ==
    /\ Step(s, "fetch", "apply")
    /\ items' = [items EXCEPT ![s] = hcm]
    /\ UNCHANGED <<storeVars, hcmVars, found, tally, log, isReconciling,
                   webhooks, hcmChanges>>

\* The failure branch without its finally.
FetchFailsForGood(s) ==
    /\ Step(s, "fetch", "idle")
    /\ LastLog(s, "FAILURE")
    /\ UNCHANGED <<storeVars, hcmVars, items, found, tally, isReconciling,
                   webhooks, hcmChanges>>

\* HCM cannot be reached: a FAILURE log, and the flag is cleared.
FetchFails(s) ==
    /\ Step(s, "fetch", "idle")
    /\ LastLog(s, "FAILURE")
    /\ isReconciling' = FALSE
    /\ UNCHANGED <<storeVars, hcmVars, items, found, tally, webhooks,
                   hcmChanges>>

\* POST /balances/sync/batch: a manager or the system posts an export of HCM,
\* or any other list.  It does not look at isReconciling.
PostBatch(s) ==
    /\ Step(s, "idle", "apply")
    /\ \E list \in {hcm} \cup Postings : items' = [items EXCEPT ![s] = list]
    /\ UNCHANGED <<storeVars, hcmVars, found, tally, log, isReconciling,
                   webhooks, hcmChanges>>

\* Ends the turn of one item of the loop.
ItemDone(s, k, flags) ==
    /\ at[s] = "apply"
    /\ items' = [items EXCEPT ![s] = Without(@, k)]
    /\ tally' = [tally EXCEPT ![s] = @ \cup flags]
    /\ UNCHANGED <<hcmVars, at, found, log, isReconciling, webhooks, hcmChanges>>

ApplyItem(s) ==
    \E k \in DOMAIN items[s] :
        \/ (Insert(k, items[s][k]) \/ Update(k, items[s][k]))
              /\ ItemDone(s, k, {})
        \/ UpdateAndFlag(k, items[s][k]) /\ ItemDone(s, k, {"conflict"})
        \/ UpsertFails(k, items[s][k]) /\ ItemDone(s, k, {"failed"})

\* The BATCH log; a cycle also writes its RECONCILIATION log, of the same
\* status, and clears the flag.
FinishBatch(s) ==
    /\ items[s] = NoItems
    /\ Step(s, "apply", IF s \in Cycles THEN "idle" ELSE "done")
    /\ Log(s, IF "conflict" \in tally[s] THEN "PARTIAL" ELSE "SUCCESS")
    /\ tally' = [tally EXCEPT ![s] = {}]
    /\ isReconciling' = (isReconciling /\ s \notin Cycles)
    /\ UNCHANGED <<storeVars, hcmVars, items, found, webhooks, hcmChanges>>

\* A log cannot be saved: a cycle catches it, as a failure.
FinishFails(s) ==
    /\ DbMayFail
    /\ items[s] = NoItems
    /\ Step(s, "apply", IF s \in Cycles THEN "idle" ELSE "done")
    /\ LastLog(s, IF s \in Cycles THEN "FAILURE" ELSE log[s])
    /\ tally' = [tally EXCEPT ![s] = {}]
    /\ isReconciling' = (isReconciling /\ s \notin Cycles)
    /\ UNCHANGED <<storeVars, hcmVars, items, found, webhooks, hcmChanges>>

----------------------------------------------------------------------------
(***************************************************************************)
(* syncRealtimeFromHcm and upsertBalance, which is no transaction.         *)
(***************************************************************************)

StartRefresh(s) ==
    /\ Step(s, "idle", "get")
    /\ UNCHANGED <<storeVars, hcmVars, items, found, tally, log, isReconciling,
                   webhooks, hcmChanges>>

\* GET /hcm/balances/... is served and answered.
RefreshAnswered(s) ==
    LET k == RefreshKey[s]
    IN  /\ k \in DOMAIN hcm
        /\ Step(s, "get", "find")
        /\ items' = [items EXCEPT ![s] = [j \in {k} |-> hcm[j]]]
        /\ UNCHANGED <<storeVars, hcmVars, found, tally, log, isReconciling,
                       webhooks, hcmChanges>>

\* A 404 or no answer: a FAILURE log, and the local row is answered.
RefreshFails(s) ==
    /\ Step(s, "get", "done")
    /\ LastLog(s, "FAILURE")
    /\ UNCHANGED <<storeVars, hcmVars, items, found, tally, isReconciling,
                   webhooks, hcmChanges>>

\* findOne of upsertBalance.
FindRow(s) ==
    LET k == RefreshKey[s]
    IN  /\ Step(s, "find", "store")
        /\ found' = [found EXCEPT ![s] = {balance[j] : j \in DOMAIN balance \cap {k}}]
        /\ UNCHANGED <<storeVars, hcmVars, items, tally, log, isReconciling,
                       webhooks, hcmChanges>>

\* save of upsertBalance: HCM's totals in the row found, however old, or a new
\* row.  Nothing here looks at a version.
StoreRow(s) ==
    LET k == RefreshKey[s]
        h == items[s][k]
    IN  /\ Step(s, "store", "done")
        /\ \/ Insert(k, h) /\ found[s] = {}
           \/ /\ \E row \in found[s] : Overwrite(k, Synced(row, h))
              /\ UNCHANGED status
        /\ items' = [items EXCEPT ![s] = NoItems]
        /\ found' = [found EXCEPT ![s] = {}]
        /\ LastLog(s, "SUCCESS")
        /\ UNCHANGED <<hcmVars, tally, isReconciling, webhooks, hcmChanges>>

\* The findOne throws, or the save does: the row was inserted meanwhile, or has
\* no employee.  The call ends without a log.
StoreFails(s) ==
    LET k == RefreshKey[s]
    IN  /\ \/ Step(s, "find", "done") /\ DbMayFail
           \/ /\ Step(s, "store", "done")
              /\ \/ found[s] = {} /\ (HasBalance(k) \/ k \notin KnownEmployee)
                 \/ DbMayFail
        /\ items' = [items EXCEPT ![s] = NoItems]
        /\ found' = [found EXCEPT ![s] = {}]
        /\ UNCHANGED <<storeVars, hcmVars, tally, log, isReconciling, webhooks,
                       hcmChanges>>

----------------------------------------------------------------------------
(***************************************************************************)
(* HCM changes by itself, and its webhooks.                                *)
(***************************************************************************)

HcmChange ==
    /\ hcmChanges < MaxHcmChanges
    /\ hcmChanges' = hcmChanges + 1
    /\ UNCHANGED <<storeVars, at, items, found, tally, log, isReconciling>>

\* anniversary-bonus: HCM sends a webhook with the new balance.
Bonus(k, d) ==
    /\ HcmChange
    /\ GrantBonus(k, d)
    /\ \E signed \in Signatures :
          webhooks' = webhooks \cup {[key |-> k, row |-> hcm'[k], signed |-> signed]}

\* set-balance and reset: no webhook.
Adjust(k, h) ==
    /\ HcmChange
    /\ SetBalance(k, h)
    /\ UNCHANGED webhooks

Reset ==
    /\ HcmResets
    /\ HcmChange
    /\ ResetToSeed
    /\ UNCHANGED webhooks

\* verifyHmacSignature: without a configured secret every webhook passes.
Verified(m) == HmacSecret => m.signed

\* A webhook is delivered, once: HCM does not repeat one that failed, and one
\* that never arrives stays on its way.
Deliver(m) ==
    /\ m \in webhooks
    /\ webhooks' = webhooks \ {m}
    /\ UNCHANGED <<hcmVars, at, items, found, tally, isReconciling, hcmChanges>>

\* handleBalanceUpdate and applyWebhookUpdate, which logs what it did at last.
ReceiveWebhook(m) ==
    /\ Deliver(m)
    /\ Verified(m)
    /\ \/ /\ Insert(m.key, m.row) \/ Update(m.key, m.row)
          /\ LastLog("webhook", "SUCCESS")
       \/ /\ UpdateAndFlag(m.key, m.row)
          /\ LastLog("webhook", "PARTIAL")
       \/ /\ UpsertFails(m.key, m.row)
          /\ UNCHANGED log

\* UnauthorizedException: the signature is missing or wrong.
RefuseWebhook(m) ==
    /\ Deliver(m)
    /\ ~Verified(m)
    /\ UNCHANGED <<storeVars, log>>

----------------------------------------------------------------------------
\* The service restarts: the syncs are gone, and the flag with them.
SyncCrash ==
    /\ at' = [s \in Syncs |-> IF s \in Cycles \/ at[s] = "idle"
                              THEN "idle" ELSE "done"]
    /\ items' = [s \in Syncs |-> NoItems]
    /\ found' = [s \in Syncs |-> {}]
    /\ tally' = [s \in Syncs |-> {}]
    /\ isReconciling' = FALSE
    /\ UNCHANGED <<log, webhooks, hcmChanges>>

CycleStep(s) ==
    \/ Tick(s)
    \/ Fetch(s)
    \/ FetchFails(s)

BatchStep(s) ==
    \/ ApplyItem(s)
    \/ FinishBatch(s)
    \/ FinishFails(s)

RefreshStep(s) ==
    \/ RefreshAnswered(s)
    \/ RefreshFails(s)
    \/ FindRow(s)
    \/ StoreRow(s)
    \/ StoreFails(s)

SyncStep ==
    \/ \E s \in Cycles : CycleStep(s)
    \/ \E s \in Batches : PostBatch(s)
    \/ \E s \in Cycles \cup Batches : BatchStep(s)
    \/ \E s \in Refreshes : StartRefresh(s) \/ RefreshStep(s)
    \/ \E k \in Keys, d \in BonusDays : Bonus(k, d)
    \/ \E k \in Keys, h \in HcmSettings : Adjust(k, h)
    \/ Reset
    \/ \E m \in webhooks : ReceiveWebhook(m) \/ RefuseWebhook(m)

Init ==
    /\ balance = InitBalance
    /\ fresh   = [k \in Keys |-> {}]
    /\ status  = [r \in Requests |-> IF r \in Pending THEN "PENDING" ELSE "none"]
    /\ crashes = 0
    /\ HcmInit
    /\ SyncInit

Next == SyncStep \/ (StoreCrash /\ SyncCrash /\ UNCHANGED hcmVars)

vars == <<storeVars, hcmVars, syncVars>>

(***************************************************************************)
(* A sync that has started goes on, the cron job keeps firing, and a cycle *)
(* that asks HCM again and again is answered again and again: HCM is not   *)
(* down for ever.                                                          *)
(***************************************************************************)
SyncFairness ==
    /\ \A s \in Cycles : WF_vars(CycleStep(s) \/ BatchStep(s)) /\ SF_vars(Fetch(s))
    /\ \A s \in Batches : WF_vars(BatchStep(s))
    /\ \A s \in Refreshes : WF_vars(RefreshStep(s))

Spec == Init /\ [][Next]_vars /\ SyncFairness

----------------------------------------------------------------------------
(***************************************************************************)
(* Properties.                                                             *)
(***************************************************************************)

\* Every variable keeps its type.
SyncTypeOK ==
    /\ StoreTypeOK
    /\ HcmTypeOK
    /\ at \in [Syncs -> At]
    /\ DOMAIN items = Syncs
    /\ \A s \in Syncs : /\ DOMAIN items[s] \subseteq Keys
                        /\ items[s] \in [DOMAIN items[s] -> HcmBalance]
    /\ found \in [Syncs -> SUBSET Balance]
    /\ tally \in [Syncs -> SUBSET {"conflict", "failed"}]
    /\ log \in [Loggers -> {"none", "SUCCESS", "PARTIAL", "FAILURE"}]
    /\ isReconciling \in BOOLEAN
    /\ webhooks \subseteq [key : Keys, row : HcmBalance, signed : BOOLEAN]
    /\ hcmChanges \in 0 .. MaxHcmChanges

\* At most one reconciliation cycle runs, and the flag is set exactly while
\* one does: no way out of a cycle (done, HCM down, a log that cannot be
\* saved, a restart) leaves it set or clears it under a running cycle.
FlagMeansOneCycle ==
    /\ isReconciling <=> \E s \in Cycles : at[s] # "idle"
    /\ \A s, u \in Cycles : at[s] # "idle" /\ at[u] # "idle" => s = u

\* A reconciliation that starts ends, so the next one can start.
CycleEnds == isReconciling ~> ~isReconciling

\* Fewer days are left on the balance of k than are reserved on it.
ShortOfDays(k) ==
    HasBalance(k) /\ balance[k].reserved > balance[k].total - balance[k].used

\* The real-time sync, which looks for no conflict, saves its row.
RefreshStores == \E s \in Refreshes : at[s] = "store" /\ at'[s] = "done"

\* When a batch item or a webhook leaves a balance short of what is reserved
\* on it, no request on it stays PENDING.
ConflictsAreFlagged ==
    [][\A k \in DOMAIN balance :
          balance'[k] # balance[k] /\ ShortOfDays(k)' /\ ~RefreshStores =>
              \A r \in Requests : BalanceKey[r] = k => status'[r] # "PENDING"]_vars

\* The row of k has HCM's totals.
InStep(k) ==
    /\ HasBalance(k)
    /\ balance[k].total = hcm[k].total
    /\ balance[k].used = hcm[k].used

\* Once HCM's balances stop changing, every balance of a known employee has
\* HCM's totals in the end, whatever webhook was lost, whatever sync stored an
\* old snapshot late.
EventuallyInStep == <>[](\A k \in DOMAIN hcm \cap KnownEmployee : InStep(k))
=============================================================================
