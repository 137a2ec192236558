--------------------------- MODULE HcmSync_proofs ---------------------------
(***************************************************************************)
(* Theorems about HcmSync, for any keys, balances, syncs, webhooks and     *)
(* changes inside HCM, with and without failing statements, restarts and   *)
(* the optimistic lock.  The lemmas are about SyncStep and SyncCrash, so   *)
(* that they also serve where other calls run beside the syncs.            *)
(***************************************************************************)
EXTENDS HcmSync, LeaveDomain_proofs

USE DomainAssumption, StoreAssumption, HcmAssumption, SyncAssumption

----------------------------------------------------------------------------
(***************************************************************************)
(* Type correctness.                                                       *)
(***************************************************************************)

\* HCM's totals in a row make a row.
LEMMA SyncedRow ==
    ASSUME NEW b \in Balance, NEW h \in HcmBalance
    PROVE  Synced(b, h) \in Balance
BY DEF Synced, Balance, HcmBalance

\* Overwriting a row keeps the type of the tables.
LEMMA OverwriteKeepsType ==
    ASSUME StoreTypeOK, NEW k \in Keys, NEW row \in Balance, Overwrite(k, row),
           UNCHANGED status \/ FlagPending(k)
    PROVE  StoreTypeOK'
<1>1. DOMAIN balance' \subseteq Keys /\ balance' \in [DOMAIN balance' -> Balance]
  BY DEF StoreTypeOK, Overwrite
<1>2. status' \in [Requests -> Status]
  BY DEF StoreTypeOK, FlagPending, Status, RowStatus
<1>3. QED
  BY <1>1, <1>2 DEF StoreTypeOK, Overwrite

\* However HCM's data are applied, or fail to be, the tables keep their type.
LEMMA UpsertKeepsType ==
    ASSUME StoreTypeOK, NEW k \in Keys, NEW h \in HcmBalance,
           \/ Insert(k, h)
           \/ Update(k, h)
           \/ UpdateAndFlag(k, h)
           \/ UpsertFails(k, h)
    PROVE  StoreTypeOK'
<1>1. CASE Insert(k, h)
  <2>1. [total |-> h.total, used |-> h.used, reserved |-> 0] \in Balance
    BY DEF Balance, HcmBalance
  <2>2. QED
    BY <1>1, <2>1, OverwriteKeepsType DEF Insert
<1>2. CASE Update(k, h) \/ UpdateAndFlag(k, h)
  <2>1. balance[k] \in Balance
    BY <1>2 DEF Update, UpdateAndFlag, HasBalance, StoreTypeOK
  <2>2. Synced(balance[k], h) \in Balance
    BY <2>1, SyncedRow
  <2>3. QED
    BY <1>2, <2>2, OverwriteKeepsType DEF Update, UpdateAndFlag
<1>3. CASE UpsertFails(k, h)
  BY <1>3 DEF UpsertFails, StoreTypeOK, storeVars
<1>4. QED
  BY <1>1, <1>2, <1>3

\* A step from one place to another keeps the type of at.
LEMMA StepKeepsType ==
    ASSUME at \in [Syncs -> At], NEW s \in Syncs, NEW from, NEW to \in At,
           Step(s, from, to)
    PROVE  at' \in [Syncs -> At]
BY DEF Step

\* A log keeps the type of the logs.
LEMMA LogKeepsType ==
    ASSUME log \in [Loggers -> {"none", "SUCCESS", "PARTIAL", "FAILURE"}],
           NEW l \in Loggers,
           NEW outcome \in {"none", "SUCCESS", "PARTIAL", "FAILURE"},
           Log(l, outcome) \/ LastLog(l, outcome) \/ UNCHANGED log
    PROVE  log' \in [Loggers -> {"none", "SUCCESS", "PARTIAL", "FAILURE"}]
BY DEF Log, LastLog

\* What syncs have yet to apply is HCM's data.
ItemsTypeOK ==
    /\ DOMAIN items = Syncs
    /\ \A s \in Syncs : /\ DOMAIN items[s] \subseteq Keys
                        /\ items[s] \in [DOMAIN items[s] -> HcmBalance]

LEMMA ItemsKeepType ==
    ASSUME ItemsTypeOK, NEW s \in Syncs, NEW f, DOMAIN f \subseteq Keys,
           f \in [DOMAIN f -> HcmBalance], items' = [items EXCEPT ![s] = f]
    PROVE  ItemsTypeOK'
BY DEF ItemsTypeOK

LEMMA NoItemsTypeOK ==
    /\ DOMAIN NoItems \subseteq Keys
    /\ NoItems \in [DOMAIN NoItems -> HcmBalance]
BY DEF NoItems

\* A cycle keeps the types.
LEMMA CycleKeepsType ==
    ASSUME SyncTypeOK, NEW s \in Cycles, CycleStep(s)
    PROVE  SyncTypeOK'
<1> s \in Syncs /\ s \in Loggers
  BY DEF Syncs, Loggers
<1> USE DEF SyncTypeOK
<1>1. CASE Tick(s)
  BY <1>1, StepKeepsType DEF Tick, TickAnyway, At, StoreTypeOK, HcmTypeOK,
     storeVars, hcmVars
<1>2. CASE Fetch(s)
  <2>1. ItemsTypeOK'
    BY <1>2, ItemsKeepType DEF Fetch, HcmTypeOK, ItemsTypeOK
  <2>2. QED
    BY <1>2, <2>1, StepKeepsType DEF Fetch, At, StoreTypeOK, HcmTypeOK,
       storeVars, hcmVars, ItemsTypeOK
<1>3. CASE FetchFails(s)
  BY <1>3, StepKeepsType, LogKeepsType DEF FetchFails, At, StoreTypeOK,
     HcmTypeOK, storeVars, hcmVars
<1>4. QED
  BY <1>1, <1>2, <1>3 DEF CycleStep

\* The items of a batch, and its end, keep the types.
LEMMA BatchKeepsType ==
    ASSUME SyncTypeOK, NEW s \in Cycles \cup Batches, BatchStep(s)
    PROVE  SyncTypeOK'
<1> s \in Syncs /\ s \in Loggers
  BY DEF Syncs, Loggers
<1> USE DEF SyncTypeOK
<1>1. CASE ApplyItem(s)
  <2>1. PICK k \in DOMAIN items[s], flags \in SUBSET {"conflict", "failed"} :
           /\ \/ Insert(k, items[s][k]) \/ Update(k, items[s][k])
              \/ UpdateAndFlag(k, items[s][k]) \/ UpsertFails(k, items[s][k])
           /\ ItemDone(s, k, flags)
    BY <1>1 DEF ApplyItem
  <2>2. k \in Keys /\ items[s][k] \in HcmBalance
    OBVIOUS
  <2>3. StoreTypeOK'
    BY <2>1, <2>2, UpsertKeepsType
  <2>4. ItemsTypeOK'
    <3>1. /\ DOMAIN Without(items[s], k) \subseteq Keys
          /\ Without(items[s], k) \in [DOMAIN Without(items[s], k) -> HcmBalance]
      BY DEF Without
    <3>2. QED
      BY <2>1, <3>1, ItemsKeepType DEF ItemDone, ItemsTypeOK
  <2>5. QED
    BY <2>1, <2>3, <2>4 DEF ItemDone, HcmTypeOK, hcmVars, ItemsTypeOK
<1>2. CASE FinishBatch(s) \/ FinishFails(s)
  <2>1. at' \in [Syncs -> At]
    BY <1>2, StepKeepsType DEF FinishBatch, FinishFails, At
  <2>2. log' \in [Loggers -> {"none", "SUCCESS", "PARTIAL", "FAILURE"}]
    BY <1>2, LogKeepsType DEF FinishBatch, FinishFails
  <2>3. QED
    BY <1>2, <2>1, <2>2 DEF FinishBatch, FinishFails, StoreTypeOK, HcmTypeOK,
       storeVars, hcmVars
<1>3. QED
  BY <1>1, <1>2 DEF BatchStep

\* A posted batch keeps the types.
LEMMA PostKeepsType ==
    ASSUME SyncTypeOK, NEW s \in Batches, PostBatch(s)
    PROVE  SyncTypeOK'
<1> s \in Syncs
  BY DEF Syncs
<1> USE DEF SyncTypeOK
<1>1. ItemsTypeOK'
  BY ItemsKeepType DEF PostBatch, HcmTypeOK, ItemsTypeOK
<1>2. QED
  BY <1>1, StepKeepsType DEF PostBatch, At, StoreTypeOK, HcmTypeOK,
     storeVars, hcmVars, ItemsTypeOK

\* A refresh that HCM answered has the row it asked for.
RefreshHasItem ==
    \A s \in Refreshes :
        at[s] \in {"find", "store"} => RefreshKey[s] \in DOMAIN items[s]

\* A real-time refresh keeps the types.
LEMMA RefreshKeepsType ==
    ASSUME SyncTypeOK, RefreshHasItem, NEW s \in Refreshes,
            StartRefresh(s) \/ RefreshStep(s)
    PROVE  SyncTypeOK'
<1> DEFINE k == RefreshKey[s]
<1> s \in Syncs /\ s \in Loggers /\ k \in Keys
  BY DEF Syncs, Loggers
<1> USE DEF SyncTypeOK
<1>1. CASE StartRefresh(s)
  BY <1>1, StepKeepsType DEF StartRefresh, At, StoreTypeOK, HcmTypeOK,
     storeVars, hcmVars
<1>2. CASE RefreshAnswered(s)
  <2>1. ItemsTypeOK'
    <3>1. k \in DOMAIN hcm /\ items' = [items EXCEPT ![s] = [j \in {k} |-> hcm[j]]]
      BY <1>2 DEF RefreshAnswered
    <3>2. QED
      BY <3>1, ItemsKeepType DEF HcmTypeOK, ItemsTypeOK
  <2>2. QED
    BY <1>2, <2>1, StepKeepsType DEF RefreshAnswered, At, StoreTypeOK,
       HcmTypeOK, storeVars, hcmVars, ItemsTypeOK
<1>3. CASE RefreshFails(s)
  BY <1>3, StepKeepsType, LogKeepsType DEF RefreshFails, At, StoreTypeOK,
     HcmTypeOK, storeVars, hcmVars
<1>4. CASE FindRow(s)
  <2>1. found' \in [Syncs -> SUBSET Balance]
    BY <1>4 DEF FindRow, StoreTypeOK
  <2>2. StoreTypeOK'
    BY <1>4 DEF FindRow, storeVars, StoreTypeOK
  <2>3. QED
    BY <1>4, <2>1, <2>2, StepKeepsType DEF FindRow, At, HcmTypeOK, hcmVars
<1>5. CASE StoreRow(s) \/ StoreFails(s)
  <2>1. ItemsTypeOK'
    BY <1>5, ItemsKeepType, NoItemsTypeOK DEF StoreRow, StoreFails, ItemsTypeOK
  <2>2. found' \in [Syncs -> SUBSET Balance]
    BY <1>5 DEF StoreRow, StoreFails
  <2>3. at' \in [Syncs -> At]
    BY <1>5, StepKeepsType DEF StoreRow, StoreFails, At
  <2>4. log' \in [Loggers -> {"none", "SUCCESS", "PARTIAL", "FAILURE"}]
    BY <1>5, LogKeepsType DEF StoreRow, StoreFails
  <2>5. StoreTypeOK'
    <3>1. CASE StoreFails(s)
      BY <3>1 DEF StoreFails, StoreTypeOK, storeVars
    <3>2. CASE StoreRow(s)
      <4> DEFINE h == items[s][k]
      <4>1. h \in HcmBalance
        BY <3>2 DEF StoreRow, Step, RefreshHasItem
      <4>2. CASE Insert(k, h)
        BY <4>1, <4>2, UpsertKeepsType
      <4>3. CASE /\ \E row \in found[s] : Overwrite(k, Synced(row, h))
                 /\ UNCHANGED status
        BY <4>1, <4>3, SyncedRow, OverwriteKeepsType
      <4>4. QED
        BY <3>2, <4>2, <4>3 DEF StoreRow
    <3>3. QED
      BY <1>5, <3>1, <3>2
  <2>6. QED
    BY <1>5, <2>1, <2>2, <2>3, <2>4, <2>5
       DEF StoreRow, StoreFails, HcmTypeOK, hcmVars, ItemsTypeOK
<1>6. QED
  BY <1>1, <1>2, <1>3, <1>4, <1>5 DEF RefreshStep

\* HCM's own changes and its webhooks keep the types.
LEMMA HcmChangeKeepsType ==
    ASSUME SyncTypeOK,
           \/ \E k \in Keys, d \in BonusDays : Bonus(k, d)
           \/ \E k \in Keys, h \in HcmSettings : Adjust(k, h)
           \/ Reset
    PROVE  SyncTypeOK'
<1> USE DEF SyncTypeOK
<1>1. /\ hcmChanges' \in 0 .. MaxHcmChanges
      /\ UNCHANGED <<storeVars, at, items, found, tally, log, isReconciling>>
  BY DEF Bonus, Adjust, Reset, HcmChange
<1>2. HcmTypeOK' /\ webhooks' \subseteq [key : Keys, row : HcmBalance, signed : BOOLEAN]
  <2>1. ASSUME NEW k \in Keys, NEW d \in BonusDays, Bonus(k, d)
        PROVE  /\ HcmTypeOK'
               /\ webhooks' \subseteq [key : Keys, row : HcmBalance, signed : BOOLEAN]
    <3>1. CASE k \in DOMAIN hcm
      <4>1. PICK m \in Rounded(hcm[k].total + d) :
               hcm' = [hcm EXCEPT ![k].total = m]
        BY <2>1, <3>1 DEF Bonus, GrantBonus
      <4>2. hcm[k] \in HcmBalance
        BY <3>1 DEF HcmTypeOK
      <4>3. m \in Nat
        BY <4>2, RoundedIsNatural DEF HcmBalance
      <4>4. [hcm[k] EXCEPT !.total = m] \in HcmBalance
        BY <4>2, <4>3 DEF HcmBalance
      <4>5. /\ DOMAIN hcm' = DOMAIN hcm
            /\ hcm' \in [DOMAIN hcm -> HcmBalance]
            /\ hcm'[k] \in HcmBalance
        BY <3>1, <4>1, <4>4 DEF HcmTypeOK
      <4>6. QED
        BY <2>1, <4>5 DEF Bonus, GrantBonus, HcmTypeOK
    <3>2. CASE k \notin DOMAIN hcm
      <4>1. [total |-> d, used |-> 0] \in HcmBalance
        BY DEF HcmBalance
      <4>2. /\ DOMAIN hcm' = DOMAIN hcm \cup {k}
            /\ hcm' \in [DOMAIN hcm \cup {k} -> HcmBalance]
            /\ hcm'[k] \in HcmBalance
        BY <2>1, <3>2, <4>1 DEF Bonus, GrantBonus, HcmTypeOK
      <4>3. QED
        BY <2>1, <4>2 DEF Bonus, GrantBonus, HcmTypeOK
    <3>3. QED
      BY <3>1, <3>2
  <2>2. ASSUME NEW k \in Keys, NEW h \in HcmSettings, Adjust(k, h)
        PROVE  HcmTypeOK' /\ UNCHANGED webhooks
    BY <2>2 DEF Adjust, SetBalance, HcmTypeOK
  <2>3. ASSUME Reset
        PROVE  HcmTypeOK' /\ UNCHANGED webhooks
    BY <2>3 DEF Reset, ResetToSeed, HcmTypeOK
  <2>4. QED
    BY <2>1, <2>2, <2>3
<1>3. QED
  BY <1>1, <1>2 DEF StoreTypeOK, storeVars

\* A webhook that is received or refused keeps the types.
LEMMA WebhookKeepsType ==
    ASSUME SyncTypeOK, NEW m \in webhooks, ReceiveWebhook(m) \/ RefuseWebhook(m)
    PROVE  SyncTypeOK'
<1> USE DEF SyncTypeOK
<1>1. m.key \in Keys /\ m.row \in HcmBalance
  OBVIOUS
<1>2. StoreTypeOK'
  <2>1. CASE ReceiveWebhook(m)
    BY <1>1, <2>1, UpsertKeepsType DEF ReceiveWebhook
  <2>2. CASE RefuseWebhook(m)
    BY <2>2 DEF RefuseWebhook, StoreTypeOK, storeVars
  <2>3. QED
    BY <2>1, <2>2
<1>3. log' \in [Loggers -> {"none", "SUCCESS", "PARTIAL", "FAILURE"}]
  BY LogKeepsType DEF ReceiveWebhook, RefuseWebhook, Loggers
<1>4. /\ webhooks' \subseteq webhooks
      /\ UNCHANGED <<hcmVars, at, items, found, tally, isReconciling, hcmChanges>>
  BY DEF ReceiveWebhook, RefuseWebhook, Deliver
<1>5. QED
  BY <1>2, <1>3, <1>4 DEF HcmTypeOK, hcmVars

\* What every sync and HCM do by themselves keeps the types.
LEMMA SyncStepKeepsType ==
    ASSUME SyncTypeOK, RefreshHasItem, SyncStep
    PROVE  SyncTypeOK'
BY CycleKeepsType, BatchKeepsType, RefreshKeepsType, HcmChangeKeepsType,
   WebhookKeepsType, PostKeepsType DEF SyncStep

\* The steps of the sync s.
Moves(s) ==
    \/ s \in Cycles /\ CycleStep(s)
    \/ s \in Batches /\ PostBatch(s)
    \/ s \in Cycles \cup Batches /\ BatchStep(s)
    \/ s \in Refreshes /\ (StartRefresh(s) \/ RefreshStep(s))

\* A step is one sync's, or it leaves all syncs where they are.
LEMMA OneSyncMoves ==
    ASSUME SyncTypeOK, SyncStep
    PROVE  \/ \E s \in Syncs :
                 /\ Moves(s)
                 /\ \A u \in Syncs \ {s} : /\ at'[u] = at[u]
                                           /\ items'[u] = items[u]
                                           /\ found'[u] = found[u]
           \/ UNCHANGED <<at, items, found, isReconciling>>
<1>1. ASSUME NEW s \in Syncs, Moves(s), NEW u \in Syncs \ {s}
      PROVE  at'[u] = at[u] /\ items'[u] = items[u] /\ found'[u] = found[u]
  <2>1. \/ at' = at
        \/ \E to : at' = [at EXCEPT ![s] = to]
    BY <1>1 DEF Moves, CycleStep, BatchStep, RefreshStep, Tick, TickAnyway, Fetch,
       FetchFails, PostBatch, ApplyItem, ItemDone, FinishBatch, FinishFails,
       StartRefresh, RefreshAnswered, RefreshFails, FindRow, StoreRow,
       StoreFails, Step
  <2>2. \/ items' = items
        \/ \E f : items' = [items EXCEPT ![s] = f]
    BY <1>1 DEF Moves, CycleStep, BatchStep, RefreshStep, Tick, TickAnyway, Fetch,
       FetchFails, PostBatch, ApplyItem, ItemDone, FinishBatch, FinishFails,
       StartRefresh, RefreshAnswered, RefreshFails, FindRow, StoreRow,
       StoreFails
  <2>3. \/ found' = found
        \/ \E f : found' = [found EXCEPT ![s] = f]
    BY <1>1 DEF Moves, CycleStep, BatchStep, RefreshStep, Tick, TickAnyway, Fetch,
       FetchFails, PostBatch, ApplyItem, ItemDone, FinishBatch, FinishFails,
       StartRefresh, RefreshAnswered, RefreshFails, FindRow, StoreRow,
       StoreFails
  <2>4. QED
    BY <2>1, <2>2, <2>3 DEF SyncTypeOK
<1>2. CASE \E s \in Syncs : Moves(s)
  BY <1>1, <1>2
<1>3. CASE \/ \E k \in Keys, d \in BonusDays : Bonus(k, d)
           \/ \E k \in Keys, h \in HcmSettings : Adjust(k, h)
           \/ Reset
           \/ \E m \in webhooks : ReceiveWebhook(m) \/ RefuseWebhook(m)
  BY <1>3 DEF Bonus, Adjust, Reset, HcmChange, ReceiveWebhook, RefuseWebhook,
     Deliver
<1>4. QED
  BY <1>2, <1>3 DEF SyncStep, Moves, Syncs

\* A refresh keeps its item until it is stored.
LEMMA RefreshKeepsItem ==
    ASSUME SyncTypeOK, RefreshHasItem, SyncStep
    PROVE  RefreshHasItem'
<1>1. CASE UNCHANGED <<at, items, found, isReconciling>>
  BY <1>1 DEF RefreshHasItem
<1>2. ASSUME NEW s \in Syncs, Moves(s),
             \A u \in Syncs \ {s} : at'[u] = at[u] /\ items'[u] = items[u]
      PROVE  RefreshHasItem'
  <2>1. CASE s \notin Refreshes
    BY <1>2, <2>1 DEF RefreshHasItem, Syncs
  <2>2. CASE s \in Refreshes
    <3>1. at'[s] \in {"find", "store"} => RefreshKey[s] \in DOMAIN items'[s]
      BY <1>2, <2>2 DEF Moves, RefreshStep, StartRefresh, RefreshAnswered,
         RefreshFails, FindRow, StoreRow, StoreFails, Step, SyncTypeOK,
         RefreshHasItem
    <3>2. QED
      BY <1>2, <2>2, <3>1 DEF RefreshHasItem, Syncs
  <2>3. QED
    BY <2>1, <2>2
<1>3. QED
  BY <1>1, <1>2, OneSyncMoves

\* A restart keeps the types.
LEMMA CrashKeepsType ==
    ASSUME SyncTypeOK, StoreTypeOK', HcmTypeOK', SyncCrash
    PROVE  SyncTypeOK' /\ RefreshHasItem'
BY NoItemsTypeOK DEF SyncTypeOK, SyncCrash, At, RefreshHasItem, Syncs

\* The syncs have their types at first.
LEMMA InitSyncTypeOK ==
    ASSUME StoreTypeOK, HcmTypeOK, SyncInit
    PROVE  SyncTypeOK /\ RefreshHasItem
<1>1. /\ at \in [Syncs -> At]
      /\ log \in [Loggers -> {"none", "SUCCESS", "PARTIAL", "FAILURE"}]
  BY DEF SyncInit, At
<1>. /\ found \in [Syncs -> SUBSET Balance]
     /\ tally \in [Syncs -> SUBSET {"conflict", "failed"}]
  BY DEF SyncInit
<1>. /\ isReconciling \in BOOLEAN
     /\ webhooks \subseteq [key : Keys, row : HcmBalance, signed : BOOLEAN]
  BY DEF SyncInit
<1>. hcmChanges \in 0 .. MaxHcmChanges
  BY SyncAssumption DEF SyncInit
<1>2. /\ DOMAIN items = Syncs
      /\ \A s \in Syncs : items[s] = NoItems
  BY DEF SyncInit
<1>3. RefreshHasItem
  BY DEF SyncInit, RefreshHasItem, Syncs
<1>4. QED
  BY <1>1, <1>2, <1>3, NoItemsTypeOK DEF SyncTypeOK

\* The invariant behind the type invariant: it is inductive.
THEOREM SyncTypeInductive == Spec => [](SyncTypeOK /\ RefreshHasItem)
<1>1. Init => SyncTypeOK /\ RefreshHasItem
  <2> SUFFICES ASSUME Init PROVE SyncTypeOK /\ RefreshHasItem
    OBVIOUS
  <2>1. StoreTypeOK /\ HcmTypeOK
    BY DEF Init, HcmInit, StoreTypeOK, HcmTypeOK, Status, RowStatus
  <2>2. QED
    BY <2>1, InitSyncTypeOK DEF Init
<1>2. SyncTypeOK /\ RefreshHasItem /\ [Next]_vars => (SyncTypeOK /\ RefreshHasItem)'
  <2> SUFFICES ASSUME SyncTypeOK, RefreshHasItem, [Next]_vars
               PROVE  SyncTypeOK' /\ RefreshHasItem'
    OBVIOUS
  <2>1. CASE SyncStep
    BY <2>1, SyncStepKeepsType, RefreshKeepsItem
  <2>2. CASE StoreCrash /\ SyncCrash /\ UNCHANGED hcmVars
    <3>1. StoreTypeOK' /\ HcmTypeOK'
      BY <2>2 DEF SyncTypeOK, StoreCrash, StoreTypeOK, HcmTypeOK, hcmVars
    <3>2. QED
      BY <2>2, <3>1, CrashKeepsType
  <2>3. CASE UNCHANGED vars
    BY <2>3 DEF SyncTypeOK, RefreshHasItem, StoreTypeOK, HcmTypeOK, vars,
       storeVars, hcmVars, syncVars
  <2>4. QED
    BY <2>1, <2>2, <2>3 DEF Next
<1>3. QED
  BY <1>1, <1>2, PTL DEF Spec

\* Every variable keeps its type, whatever syncs, webhooks and changes in HCM
\* interleave, fail or are cut off: in particular no sync takes a balance
\* column below zero, and no refresh stores a row HCM did not answer with.
THEOREM SyncTypeCorrect == Spec => []SyncTypeOK
BY SyncTypeInductive, PTL

----------------------------------------------------------------------------
(***************************************************************************)
(* The flag of the reconciliation.                                         *)
(***************************************************************************)

\* Every way into and out of a cycle keeps the flag in step with it.
LEMMA StepKeepsFlag ==
    ASSUME SyncTypeOK, FlagMeansOneCycle, SyncStep
    PROVE  FlagMeansOneCycle'
<1>1. CASE UNCHANGED <<at, items, found, isReconciling>>
  BY <1>1 DEF FlagMeansOneCycle
<1>2. ASSUME NEW s \in Syncs, Moves(s),
             \A u \in Syncs \ {s} : at'[u] = at[u]
      PROVE  FlagMeansOneCycle'
  <2>1. CASE s \notin Cycles
    <3>1. isReconciling' = isReconciling
      BY <1>2, <2>1 DEF Moves, BatchStep, RefreshStep, PostBatch, ApplyItem,
         ItemDone, FinishBatch, FinishFails, StartRefresh, RefreshAnswered,
         RefreshFails, FindRow, StoreRow, StoreFails, SyncTypeOK
    <3>2. QED
      BY <1>2, <2>1, <3>1 DEF FlagMeansOneCycle, Syncs
  <2>2. CASE s \in Cycles
    <3>1. s \notin Batches /\ s \notin Refreshes
      BY <2>2
    <3>2. CASE Tick(s)
      <4>1. /\ \A u \in Cycles : at[u] = "idle"
            /\ isReconciling' = TRUE
            /\ at'[s] = "fetch"
        BY <3>2 DEF Tick, TickAnyway, Step, FlagMeansOneCycle, SyncTypeOK
      <4>2. QED
        BY <1>2, <2>2, <4>1 DEF FlagMeansOneCycle, Syncs
    <3>3. CASE Fetch(s) \/ ApplyItem(s)
      <4>1. /\ at[s] # "idle" /\ at'[s] # "idle"
            /\ isReconciling' = isReconciling
        BY <3>3 DEF Fetch, ApplyItem, ItemDone, Step, SyncTypeOK
      <4>2. QED
        BY <1>2, <2>2, <4>1 DEF FlagMeansOneCycle, Syncs
    <3>4. CASE FetchFails(s) \/ FinishBatch(s) \/ FinishFails(s)
      <4>1. /\ at[s] # "idle" /\ at'[s] = "idle"
            /\ isReconciling' = FALSE
        BY <2>2, <3>4 DEF FetchFails, FinishBatch, FinishFails, Step, SyncTypeOK
      <4>2. QED
        BY <1>2, <2>2, <4>1 DEF FlagMeansOneCycle, Syncs
    <3>5. QED
      BY <1>2, <2>2, <3>1, <3>2, <3>3, <3>4 DEF Moves, CycleStep, BatchStep
  <2>3. QED
    BY <2>1, <2>2
<1>3. QED
  BY <1>1, <1>2, OneSyncMoves

\* isReconciling is set exactly while a cycle runs, and two cycles never run
\* at once, for any number of ticks: no end of a cycle, failed or cut off,
\* leaves reconciliation stopped for good.
THEOREM FlagIsOneCycle == Spec => []FlagMeansOneCycle
<1>1. Init => FlagMeansOneCycle
  BY DEF Init, SyncInit, FlagMeansOneCycle, Syncs
<1>2. SyncTypeOK /\ FlagMeansOneCycle /\ [Next]_vars => FlagMeansOneCycle'
  <2> SUFFICES ASSUME SyncTypeOK, FlagMeansOneCycle, [Next]_vars
               PROVE  FlagMeansOneCycle'
    OBVIOUS
  <2>1. CASE SyncStep
    BY <2>1, StepKeepsFlag
  <2>2. CASE SyncCrash
    BY <2>2 DEF SyncCrash, FlagMeansOneCycle, Syncs
  <2>3. CASE UNCHANGED vars
    BY <2>3 DEF FlagMeansOneCycle, vars, syncVars
  <2>4. QED
    BY <2>1, <2>2, <2>3 DEF Next
<1>3. QED
  BY <1>1, <1>2, SyncTypeCorrect, PTL DEF Spec

----------------------------------------------------------------------------
(***************************************************************************)
(* What a step may do to the tables.                                       *)
(***************************************************************************)

\* A step applies HCM's data in a transaction, or saves the row of a refresh,
\* or leaves both tables alone.
LEMMA StepChangesRows ==
    ASSUME SyncTypeOK, SyncStep
    PROVE  \/ UNCHANGED <<balance, status, crashes>>
           \/ \E s \in Refreshes : StoreRow(s)
           \/ \E k \in Keys, h \in HcmBalance :
                 Insert(k, h) \/ Update(k, h) \/ UpdateAndFlag(k, h)
<1>1. ASSUME NEW s \in Cycles, CycleStep(s)
      PROVE  UNCHANGED <<balance, status, crashes>>
  BY <1>1 DEF CycleStep, Tick, TickAnyway, Fetch, FetchFails, storeVars
<1>2. ASSUME NEW s \in Batches, PostBatch(s)
      PROVE  UNCHANGED <<balance, status, crashes>>
  BY <1>2 DEF PostBatch, storeVars
<1>3. ASSUME NEW s \in Cycles \cup Batches, BatchStep(s)
      PROVE  \/ UNCHANGED <<balance, status, crashes>>
             \/ \E k \in Keys, h \in HcmBalance :
                 Insert(k, h) \/ Update(k, h) \/ UpdateAndFlag(k, h)
  <2>1. CASE ApplyItem(s)
    <3>1. PICK k \in DOMAIN items[s] :
             \/ Insert(k, items[s][k]) \/ Update(k, items[s][k])
             \/ UpdateAndFlag(k, items[s][k])
             \/ UpsertFails(k, items[s][k])
      BY <2>1 DEF ApplyItem
    <3>2. k \in Keys /\ items[s][k] \in HcmBalance
      BY DEF SyncTypeOK, Syncs
    <3>3. QED
      BY <3>1, <3>2 DEF UpsertFails, storeVars
  <2>2. QED
    BY <1>3, <2>1 DEF BatchStep, FinishBatch, FinishFails, storeVars
<1>4. ASSUME NEW s \in Refreshes, StartRefresh(s) \/ RefreshStep(s)
      PROVE  UNCHANGED <<balance, status, crashes>> \/ StoreRow(s)
  BY <1>4 DEF RefreshStep, StartRefresh, RefreshAnswered, RefreshFails, FindRow,
     StoreFails, storeVars
<1>5. ASSUME \/ \E k \in Keys, d \in BonusDays : Bonus(k, d)
             \/ \E k \in Keys, h \in HcmSettings : Adjust(k, h)
             \/ Reset
      PROVE  UNCHANGED <<balance, status, crashes>>
  BY <1>5 DEF Bonus, Adjust, Reset, HcmChange, storeVars
<1>6. ASSUME NEW m \in webhooks, ReceiveWebhook(m) \/ RefuseWebhook(m)
      PROVE  \/ UNCHANGED <<balance, status, crashes>>
             \/ \E k \in Keys, h \in HcmBalance :
                 Insert(k, h) \/ Update(k, h) \/ UpdateAndFlag(k, h)
  BY <1>6 DEF ReceiveWebhook, RefuseWebhook, UpsertFails, storeVars, SyncTypeOK
<1>7. QED
  BY <1>1, <1>2, <1>3, <1>4, <1>5, <1>6 DEF SyncStep

\* A sync changes the status of requests only by flagging PENDING ones, and
\* restarts nothing.  HCM's filings are forgotten only when HCM is reset.
LEMMA StepFlags ==
    ASSUME SyncTypeOK, SyncStep
    PROVE  /\ status' = status \/ \E k : FlagPending(k)
           /\ crashes' = crashes
           /\ ~HcmResets => filed' = filed
<1>1. /\ status' = status \/ \E k : FlagPending(k)
      /\ crashes' = crashes
  BY StepChangesRows DEF StoreRow, Insert, Update, UpdateAndFlag, Overwrite
<1>2. ASSUME NEW s \in Syncs, Moves(s)
      PROVE  filed' = filed
  BY <1>2 DEF Moves, CycleStep, BatchStep, RefreshStep, Tick, TickAnyway, Fetch,
     FetchFails, PostBatch, ApplyItem, ItemDone, FinishBatch, FinishFails,
     StartRefresh, RefreshAnswered, RefreshFails, FindRow, StoreRow, StoreFails,
     hcmVars
<1>3. ASSUME \/ \E k \in Keys, d \in BonusDays : Bonus(k, d)
             \/ \E k \in Keys, h \in HcmSettings : Adjust(k, h)
             \/ Reset
             \/ \E m \in webhooks : ReceiveWebhook(m) \/ RefuseWebhook(m)
      PROVE  ~HcmResets => filed' = filed
  BY <1>3 DEF Bonus, GrantBonus, Adjust, SetBalance, Reset, ReceiveWebhook, RefuseWebhook, Deliver, hcmVars
<1>4. QED
  BY <1>1, <1>2, <1>3 DEF SyncStep, Moves, Syncs

\* No batch item and no webhook leaves a balance short of the days reserved on
\* it while a request on it is PENDING, for any days and any HCM data: the
\* check of upsertBalanceFromBatch may find a conflict too many, where the
\* days meet exactly, and never one too few.
THEOREM ConflictsAreAlwaysFlagged == Spec => ConflictsAreFlagged
<1>1. SyncTypeOK /\ [Next]_vars =>
         [\A k \in DOMAIN balance :
             balance'[k] # balance[k] /\ ShortOfDays(k)' /\ ~RefreshStores =>
                 \A r \in Requests : BalanceKey[r] = k => status'[r] # "PENDING"]_vars
  <2> SUFFICES ASSUME SyncTypeOK, Next, NEW k \in DOMAIN balance,
                      balance'[k] # balance[k], ShortOfDays(k)', ~RefreshStores,
                      NEW r \in Requests, BalanceKey[r] = k
               PROVE  status'[r] # "PENDING"
    OBVIOUS
  <2>1. SyncStep
    BY DEF Next, StoreCrash
  <2>2. ASSUME NEW s \in Refreshes, StoreRow(s)
        PROVE  FALSE
    BY <2>2 DEF StoreRow, Step, RefreshStores, SyncTypeOK, Syncs
  <2>3. ASSUME NEW j \in Keys, NEW h \in HcmBalance, Insert(j, h)
        PROVE  FALSE
    BY <2>3 DEF Insert, Overwrite, HasBalance
  <2>4. ASSUME NEW j \in Keys, NEW h \in HcmBalance, Update(j, h)
        PROVE  FALSE
    <3>1. /\ j = k
          /\ balance'[k] = Synced(balance[k], h)
          /\ FALSE \in Conflicts(k, h)
      BY <2>4 DEF Update, Overwrite
    <3>2. h.total - h.used >= balance[k].reserved
      BY <3>1 DEF Conflicts, MayFind
    <3>3. /\ balance'[k].total = h.total
          /\ balance'[k].used = h.used
          /\ balance'[k].reserved = balance[k].reserved
          /\ balance[k].reserved \in Nat
      BY <3>1 DEF Synced, SyncTypeOK, StoreTypeOK, Balance
    <3>4. QED
      BY <3>2, <3>3 DEF ShortOfDays, HcmBalance
  <2>5. ASSUME NEW j \in Keys, NEW h \in HcmBalance, UpdateAndFlag(j, h)
        PROVE  status'[r] # "PENDING"
    <3>1. j = k
      BY <2>5 DEF UpdateAndFlag, Overwrite
    <3>2. QED
      BY <2>5, <3>1 DEF UpdateAndFlag, FlagPending
  <2>6. QED
    BY <2>1, <2>2, <2>3, <2>4, <2>5, StepChangesRows
<1>2. QED
  BY <1>1, SyncTypeCorrect, PTL DEF Spec, ConflictsAreFlagged
=============================================================================
