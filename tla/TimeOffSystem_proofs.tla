------------------------ MODULE TimeOffSystem_proofs ------------------------
(***************************************************************************)
(* Theorems about the whole service, from the lemmas about its two parts.  *)
(* They are stated for CallSpec, and so hold of Spec, which adds the       *)
(* fairness of the syncs.                                                  *)
(*                                                                         *)
(* C and P are R and S with the lemmas about them: their definitions are   *)
(* the same, which the first lemmas show by expanding both.                *)
(***************************************************************************)
EXTENDS TimeOffSystem, TLAPS

C == INSTANCE HeldDays_proofs
P == INSTANCE HcmSync_proofs

USE DomainAssumption, StoreAssumption, HcmAssumption, SystemAssumption

\* What the modules of the parts assume of the constants.
LEMMA PartsAssumptions ==
    /\ C!DomainAssumption /\ C!StoreAssumption /\ C!HcmAssumption
    /\ P!DomainAssumption /\ P!StoreAssumption /\ P!HcmAssumption
    /\ C!RequestsAssumption
    /\ P!SyncAssumption
BY DEF C!DomainAssumption, C!StoreAssumption, C!HcmAssumption,
   C!HcmBalance, C!Balance, P!DomainAssumption, P!StoreAssumption,
   P!HcmAssumption, P!HcmBalance, P!Balance, HcmBalance, Balance,
   C!RequestsAssumption, R!RequestsAssumption, P!SyncAssumption,
   S!SyncAssumption, P!Syncs, S!Syncs, S!HcmBalance

\* The steps of R are those of C.
LEMMA CallSteps ==
    ASSUME R!CallStep
    PROVE  C!CallStep
BY Zenon DEF R!CallStep, C!CallStep, R!Submit, C!Submit, R!Reserve, C!Reserve, R!Review,
   C!Review, R!Settle, C!Settle, R!TurnAway, C!TurnAway, R!HcmAnswers,
   C!HcmAnswers, R!StatementFails, C!StatementFails, R!ReturnExisting,
   C!ReturnExisting, R!Validate, C!Validate, R!ReadBalance, C!ReadBalance,
   R!RefuseReservation, C!RefuseReservation, R!SaveReservation,
   C!SaveReservation, R!SaveUnchecked, C!SaveUnchecked, R!LockConflict,
   C!LockConflict, R!InsertRequest, C!InsertRequest, R!InsertUnindexed,
   C!InsertUnindexed, R!InsertRefused, C!InsertRefused, R!PostToHcm,
   C!PostToHcm, R!HcmReplies, C!HcmReplies, R!CallFails, C!CallFails,
   R!ConfirmReservation, C!ConfirmReservation, R!MarkApproved, C!MarkApproved,
   R!ReleaseReservation, C!ReleaseReservation, R!Close, C!Close, R!Approve,
   C!Approve, R!Reject, C!Reject, R!Cancel, C!Cancel, R!RefuseReview,
   C!RefuseReview, R!Reviewable, C!Reviewable, R!Goto, C!Goto, R!Sufficient,
   C!Sufficient, R!Req, C!Req, R!Calls, C!Calls, R!callVars, C!callVars,
   R!netVars, C!netVars, R!storeVars, C!storeVars, R!hcmVars, C!hcmVars,
   R!Available, C!Available, R!MayBeLess, C!MayBeLess, R!HasBalance,
   C!HasBalance, R!Read, C!Read, R!Save, C!Save, R!MaySave, C!MaySave,
   R!SetStatus, C!SetStatus, R!KeyTaken, C!KeyTaken, R!Reserved, C!Reserved,
   R!Confirmed, C!Confirmed, R!Released, C!Released, R!Counted, C!Counted,
   R!Rounded, C!Rounded, R!NotBelowZero, C!NotBelowZero, R!FileTimeOff,
   C!FileTimeOff, R!AlreadyFiled, C!AlreadyFiled, R!Covers, C!Covers,
   R!MayRefuse, C!MayRefuse, R!NoEntity, C!NoEntity

LEMMA CallCrash ==
    ASSUME R!Crash
    PROVE  C!Crash
BY Zenon DEF R!Crash, C!Crash, R!StoreCrash, C!StoreCrash, R!NoEntity, C!NoEntity,
   R!hcmVars, C!hcmVars, R!Calls, C!Calls

\* The steps of S are those of P.
LEMMA SyncSteps ==
    ASSUME S!SyncStep
    PROVE  P!SyncStep
BY Zenon DEF S!Rounded, P!Rounded, S!MayBeLess, P!MayBeLess, S!Synced, P!Synced,
   S!storeVars, P!storeVars, S!HasBalance, P!HasBalance, S!Read, P!Read,
   S!MaySave, P!MaySave, S!hcmVars, P!hcmVars, S!GrantBonus, P!GrantBonus,
   S!SetBalance, P!SetBalance, S!ResetToSeed, P!ResetToSeed, S!Syncs, P!Syncs,
   S!NoItems, P!NoItems, S!Step, P!Step, S!Log, P!Log, S!LastLog, P!LastLog,
   S!Without, P!Without, S!Overwrite, P!Overwrite, S!Insert, P!Insert,
   S!MayFind, P!MayFind, S!Conflicts, P!Conflicts, S!Update, P!Update,
   S!FlagPending, P!FlagPending, S!UpdateAndFlag, P!UpdateAndFlag,
   S!UpsertFails, P!UpsertFails, S!TickAnyway, P!TickAnyway, S!Tick, P!Tick,
   S!Fetch, P!Fetch, S!FetchFails, P!FetchFails, S!PostBatch, P!PostBatch,
   S!ItemDone, P!ItemDone, S!ApplyItem, P!ApplyItem, S!FinishBatch,
   P!FinishBatch, S!FinishFails, P!FinishFails, S!StartRefresh, P!StartRefresh,
   S!RefreshAnswered, P!RefreshAnswered, S!RefreshFails, P!RefreshFails,
   S!FindRow, P!FindRow, S!StoreRow, P!StoreRow, S!StoreFails, P!StoreFails,
   S!HcmChange, P!HcmChange, S!Bonus, P!Bonus, S!Adjust, P!Adjust, S!Reset,
   P!Reset, S!Verified, P!Verified, S!Deliver, P!Deliver, S!ReceiveWebhook,
   P!ReceiveWebhook, S!RefuseWebhook, P!RefuseWebhook, S!CycleStep,
   P!CycleStep, S!BatchStep, P!BatchStep, S!RefreshStep, P!RefreshStep,
   S!SyncStep, P!SyncStep

LEMMA SyncCrashes ==
    ASSUME S!SyncCrash
    PROVE  P!SyncCrash
BY Zenon DEF S!SyncCrash, P!SyncCrash, S!Syncs, P!Syncs, S!NoItems, P!NoItems

LEMMA Inits ==
    ASSUME Init
    PROVE  C!Init /\ P!SyncInit
BY Zenon DEF Init, R!Init, C!Init, R!StoreInit, C!StoreInit, R!HcmInit, C!HcmInit,
   R!NoEntity, C!NoEntity, R!Calls, C!Calls, S!SyncInit, P!SyncInit, S!Syncs,
   P!Syncs, S!Loggers, P!Loggers, S!NoItems, P!NoItems

\* The types of the tables and of HCM are the same in both parts.
LEMMA StoreTypes ==
    /\ C!StoreTypeOK <=> P!StoreTypeOK
    /\ C!HcmTypeOK <=> P!HcmTypeOK
    /\ C!StoreTypeOK' <=> P!StoreTypeOK'
    /\ C!HcmTypeOK' <=> P!HcmTypeOK'
BY Zenon DEF C!StoreTypeOK, P!StoreTypeOK, C!HcmTypeOK, P!HcmTypeOK, C!Balance,
   P!Balance, C!HcmBalance, P!HcmBalance, C!Status, P!Status, C!RowStatus,
   P!RowStatus, C!Settled, P!Settled

----------------------------------------------------------------------------
(***************************************************************************)
(* Type correctness of the composition.                                    *)
(***************************************************************************)

\* The types of both parts.
Types ==
    /\ C!TypeOK
    /\ P!SyncTypeOK
    /\ P!RefreshHasItem

\* A step of a call keeps the types of the syncs, and a sync those of the
\* calls: each knows of the other only the tables and HCM.
LEMMA StepKeepsTypes ==
    ASSUME Types, [Next]_vars
    PROVE  Types'
<1>1. CASE R!CallStep /\ UNCHANGED syncVars
  <2>1. C!TypeOK'
    BY <1>1, CallSteps, PartsAssumptions, C!CallStepKeepsType DEF Types
  <2>2. P!StoreTypeOK' /\ P!HcmTypeOK'
    BY <2>1, StoreTypes DEF C!TypeOK
  <2>3. QED
    BY <1>1, <2>1, <2>2 DEF Types, P!SyncTypeOK, P!RefreshHasItem, syncVars
<1>2. CASE S!SyncStep /\ UNCHANGED callVars
  <2>1. P!SyncTypeOK' /\ P!RefreshHasItem'
    BY <1>2, SyncSteps, PartsAssumptions, P!SyncStepKeepsType,
       P!RefreshKeepsItem DEF Types
  <2>2. C!StoreTypeOK' /\ C!HcmTypeOK'
    BY <2>1, StoreTypes DEF P!SyncTypeOK
  <2>3. QED
    BY <1>2, <2>1, <2>2 DEF Types, C!TypeOK, callVars
<1>3. CASE R!Crash /\ S!SyncCrash
  <2>1. C!TypeOK'
    BY <1>3, CallCrash, PartsAssumptions, C!CallStepKeepsType DEF Types
  <2>2. P!StoreTypeOK' /\ P!HcmTypeOK'
    BY <2>1, StoreTypes DEF C!TypeOK
  <2>3. QED
    BY <1>3, <2>1, <2>2, SyncCrashes, PartsAssumptions, P!CrashKeepsType
       DEF Types
<1>4. CASE UNCHANGED vars
  BY <1>4 DEF Types, C!TypeOK, C!StoreTypeOK, C!HcmTypeOK, P!SyncTypeOK,
     P!StoreTypeOK, P!HcmTypeOK, P!RefreshHasItem, vars, storeVars, hcmVars,
     callVars, syncVars
<1>5. QED
  BY <1>1, <1>2, <1>3, <1>4 DEF Next

\* Calls and syncs on one database and one HCM keep every type: what one part
\* relies on of the tables, the other keeps.
THEOREM SystemTypes == CallSpec => []Types
<1>1. Init => Types
  <2> SUFFICES ASSUME Init PROVE Types
    OBVIOUS
  <2>1. C!TypeOK
    BY Inits, PartsAssumptions, C!InitTypeOK
  <2>2. P!StoreTypeOK /\ P!HcmTypeOK
    BY <2>1, StoreTypes DEF C!TypeOK
  <2>3. QED
    BY <2>1, <2>2, Inits, PartsAssumptions, P!InitSyncTypeOK DEF Types
<1>2. Types /\ [Next]_vars => Types'
  BY StepKeepsTypes
<1>3. QED
  BY <1>1, <1>2, PTL DEF CallSpec

----------------------------------------------------------------------------
(***************************************************************************)
(* The life of a request beside the syncs.                                 *)
(***************************************************************************)

\* A sync stores and removes no request, approves none, and leaves the calls
\* and HCM's filings alone.
LEMMA SyncKeepsRequests ==
    ASSUME Types, S!SyncStep
    PROVE  /\ \E k : P!FlagPending(k) \/ status' = status
           /\ ~HcmResets => filed' = filed
BY SyncSteps, PartsAssumptions, P!StepFlags DEF Types

\* The invariant of the request calls survives the syncs.
LEMMA SyncKeepsIInv ==
    ASSUME C!IInv, Types, ~HcmResets, S!SyncStep, UNCHANGED callVars
    PROVE  C!IInv'
<1>1. C!TypeOK'
  BY StepKeepsTypes DEF Next, Types
<1>2. filed' = filed
  BY SyncKeepsRequests
<1>3. \A r \in Requests : /\ C!Stored(r)' <=> C!Stored(r)
                          /\ status'[r] = "APPROVED" => status[r] = "APPROVED"
  BY SyncKeepsRequests DEF C!Stored, P!FlagPending
<1>4. C!UniqueKeys'
  BY <1>3 DEF C!IInv, C!UniqueKeys
<1>5. C!CallsAreStored' /\ C!FiledAreStored' /\ C!ApprovalsAreFiled'
  BY <1>2, <1>3, PartsAssumptions, C!CallsHaveRequests
     DEF C!IInv, C!TypeOK, C!HcmTypeOK, C!CallsAreStored, C!FiledAreStored,
         C!ApprovalsAreFiled, C!Req, callVars
<1>6. C!ApprovedIsFiled' /\ C!AnswersAreStored'
  BY <1>2, <1>3 DEF C!IInv, C!TypeOK, C!ApprovedIsFiled, C!AnswersAreStored,
     callVars
<1>7. QED
  BY <1>1, <1>4, <1>5, <1>6 DEF C!IInv

\* Unless HCM is reset, which forgets what it filed, the invariant of the
\* request calls holds beside the syncs.
THEOREM SystemInductive ==
    ASSUME ~HcmResets
    PROVE  CallSpec => []C!IInv
<1>1. Init => C!IInv
  BY Inits, PartsAssumptions, C!InitIInv
<1>2. C!IInv /\ Types /\ [Next]_vars => C!IInv'
  <2> SUFFICES ASSUME C!IInv, Types, [Next]_vars
               PROVE  C!IInv'
    OBVIOUS
  <2>1. CASE R!CallStep
    BY <2>1, CallSteps, PartsAssumptions, C!CallStepKeepsIInv
  <2>2. CASE S!SyncStep /\ UNCHANGED callVars
    BY <2>2, SyncKeepsIInv
  <2>3. CASE R!Crash
    BY <2>3, CallCrash, PartsAssumptions, C!CallStepKeepsIInv
  <2>4. CASE UNCHANGED vars
    BY <2>4, StepKeepsTypes
       DEF Types, C!IInv, C!UniqueKeys, C!CallsAreStored, C!FiledAreStored,
           C!ApprovalsAreFiled, C!ApprovedIsFiled, C!AnswersAreStored, C!Stored,
           C!Req, vars, storeVars, hcmVars, callVars
  <2>5. QED
    BY <2>1, <2>2, <2>3, <2>4 DEF Next
<1>3. QED
  BY <1>1, <1>2, SystemTypes, PTL DEF CallSpec

\* LeaveFiling, as each part of the system names it.
LEMMA FilingSteps ==
    ASSUME C!Filing!Next
    PROVE  R!Filing!Next
BY Zenon DEF C!Filing!Next, R!Filing!Next, C!Filing!Store, R!Filing!Store,
   C!Filing!File, R!Filing!File, C!Filing!Approve, R!Filing!Approve,
   C!Filing!Close, R!Filing!Close, C!Filing!Flag, R!Filing!Flag,
   C!Filing!SetTo, R!Filing!SetTo

\* Flagging is a step of LeaveFiling.
LEMMA FlagFiles ==
    ASSUME NEW k, P!FlagPending(k), filed' = filed
    PROVE  R!Filing!Next
<1> DEFINE S0 == {r \in Requests : BalanceKey[r] = k /\ status[r] = "PENDING"}
<1>1. R!Filing!Flag(S0)
  BY DEF P!FlagPending, R!Filing!Flag
<1>2. S0 \in SUBSET Requests
  OBVIOUS
<1>3. QED
  BY <1>1, <1>2 DEF R!Filing!Next

\* While syncs flag requests and overwrite balances, the status of every
\* request and HCM's filings still move only as LeaveFiling says: APPROVED
\* means filed, for any calls, reviews, syncs, failures and restarts.
THEOREM SystemImplementsFiling ==
    ASSUME ~HcmResets
    PROVE  CallSpec => ImplementsFiling
<1>1. Init => R!Filing!Init
  BY DEF Init, R!Init, R!StoreInit, R!HcmInit, R!Filing!Init
<1>2. C!IInv /\ Types /\ [Next]_vars => [R!Filing!Next]_<<status, filed>>
  <2> SUFFICES ASSUME C!IInv, Types, [Next]_vars
               PROVE  R!Filing!Next \/ UNCHANGED <<status, filed>>
    OBVIOUS
  <2>1. CASE R!CallStep
    BY <2>1, CallSteps, PartsAssumptions, C!CallStepFiles, FilingSteps
  <2>2. CASE S!SyncStep
    BY <2>2, SyncKeepsRequests, FlagFiles
  <2>3. CASE R!Crash
    BY <2>3 DEF R!Crash, R!StoreCrash, R!hcmVars
  <2>4. CASE UNCHANGED vars
    BY <2>4 DEF vars, storeVars, hcmVars
  <2>5. QED
    BY <2>1, <2>2, <2>3, <2>4 DEF Next
<1>3. QED
  BY <1>1, <1>2, SystemInductive, SystemTypes, PTL
     DEF CallSpec, ImplementsFiling, R!ImplementsFiling, R!Filing!Spec

----------------------------------------------------------------------------
(***************************************************************************)
(* The flag of the reconciliation, beside the calls.                       *)
(***************************************************************************)

\* The flag is set exactly while a cycle runs, and two never do, also when the
\* service restarts in the middle of calls and syncs.
THEOREM SystemFlagIsOneCycle == CallSpec => []S!FlagMeansOneCycle
<1>1. Init => S!FlagMeansOneCycle
  BY Inits DEF P!SyncInit, S!FlagMeansOneCycle, P!Syncs
<1>2. Types /\ S!FlagMeansOneCycle /\ [Next]_vars => S!FlagMeansOneCycle'
  <2> SUFFICES ASSUME Types, S!FlagMeansOneCycle, [Next]_vars
               PROVE  S!FlagMeansOneCycle'
    OBVIOUS
  <2>1. CASE S!SyncStep
    <3>1. P!FlagMeansOneCycle
      BY DEF P!FlagMeansOneCycle, S!FlagMeansOneCycle
    <3>2. P!FlagMeansOneCycle'
      BY <2>1, <3>1, SyncSteps, PartsAssumptions, P!StepKeepsFlag DEF Types
    <3>3. QED
      BY <3>2 DEF P!FlagMeansOneCycle, S!FlagMeansOneCycle
  <2>2. CASE S!SyncCrash
    BY <2>2, SyncCrashes DEF P!SyncCrash, S!FlagMeansOneCycle, P!Syncs
  <2>3. CASE UNCHANGED syncVars
    BY <2>3 DEF S!FlagMeansOneCycle, syncVars
  <2>4. QED
    BY <2>1, <2>2, <2>3 DEF Next, vars
<1>3. QED
  BY <1>1, <1>2, SystemTypes, PTL DEF CallSpec

----------------------------------------------------------------------------
(***************************************************************************)
(* What the optimistic lock buys reserveDays, and the days held, beside    *)
(* the syncs.                                                              *)
(***************************************************************************)

\* The reader s does not hold the current version of row k after the step, or
\* it did before, and the step leaves the row alone.
LeftAlone(s, k) ==
    \/ s \notin fresh'[k]
    \/ /\ s \in fresh[k]
       /\ k \in DOMAIN balance => k \in DOMAIN balance' /\ balance'[k] = balance[k]

\* A sync reads no version, and a row it overwrites is stale for every reader.
LEMMA SyncLeavesAlone ==
    ASSUME P!SyncTypeOK, P!SyncStep, NEW s, NEW k \in Keys
    PROVE  LeftAlone(s, k)
<1>1. ASSUME NEW j, NEW row, P!Overwrite(j, row)
      PROVE  LeftAlone(s, k)
  BY <1>1 DEF P!Overwrite, LeftAlone, P!SyncTypeOK, P!StoreTypeOK
<1>2. ASSUME UNCHANGED <<balance, fresh>>
      PROVE  LeftAlone(s, k)
  BY <1>2 DEF LeftAlone
<1>3. ASSUME NEW j, NEW h,
             \/ P!Insert(j, h) \/ P!Update(j, h) \/ P!UpdateAndFlag(j, h)
             \/ P!UpsertFails(j, h)
      PROVE  LeftAlone(s, k)
  BY <1>1, <1>2, <1>3 DEF P!Insert, P!Update, P!UpdateAndFlag, P!UpsertFails,
     P!storeVars
<1>4. ASSUME NEW u \in P!Syncs, P!CycleStep(u) \/ P!PostBatch(u)
      PROVE  UNCHANGED <<balance, fresh>>
  BY <1>4 DEF P!CycleStep, P!Tick, P!TickAnyway, P!Fetch, P!FetchFails,
     P!PostBatch, P!storeVars
<1>5. ASSUME NEW u \in P!Syncs, P!BatchStep(u)
      PROVE  LeftAlone(s, k)
  BY <1>2, <1>3, <1>5 DEF P!BatchStep, P!ApplyItem, P!FinishBatch,
     P!FinishFails, P!storeVars
<1>6. ASSUME NEW u \in Refreshes, P!StartRefresh(u) \/ P!RefreshStep(u)
      PROVE  LeftAlone(s, k)
  <2>1. CASE P!StoreRow(u)
    BY <1>1, <1>3, <2>1 DEF P!StoreRow
  <2>2. CASE ~P!StoreRow(u)
    BY <1>2, <1>6, <2>2 DEF P!RefreshStep, P!StartRefresh, P!RefreshAnswered,
       P!RefreshFails, P!FindRow, P!StoreFails, P!storeVars
  <2>3. QED
    BY <2>1, <2>2
<1>7. ASSUME \/ \E j \in Keys, d \in BonusDays : P!Bonus(j, d)
             \/ \E j \in Keys, h \in HcmSettings : P!Adjust(j, h)
             \/ P!Reset
      PROVE  UNCHANGED <<balance, fresh>>
  BY <1>7 DEF P!Bonus, P!Adjust, P!Reset, P!HcmChange, P!storeVars
<1>8. ASSUME NEW m \in webhooks, P!ReceiveWebhook(m) \/ P!RefuseWebhook(m)
      PROVE  LeftAlone(s, k)
  BY <1>2, <1>3, <1>8 DEF P!ReceiveWebhook, P!RefuseWebhook, P!storeVars
<1>9. QED
  BY <1>2, <1>4, <1>5, <1>6, <1>7, <1>8 DEF P!SyncStep, P!Syncs

\* A sync that overwrites a row makes every call that read it stale.
LEMMA SyncKeepsEntities ==
    ASSUME Types, C!CurrentEntities, S!SyncStep, UNCHANGED callVars
    PROVE  C!CurrentEntities'
<1> SUFFICES ASSUME NEW r \in Requests,
                    pc'[r] = "save", r \in fresh'[BalanceKey[r]]
             PROVE  /\ BalanceKey[r] \in DOMAIN balance'
                    /\ entity'[r] = balance'[BalanceKey[r]]
                    /\ C!Available(balance'[BalanceKey[r]]) >= Days[r]
  BY DEF C!CurrentEntities, C!HasBalance, C!Available
<1> DEFINE k == BalanceKey[r]
<1>1. k \in Keys
  OBVIOUS
<1>2. LeftAlone(r, k)
  BY <1>1, SyncSteps, SyncLeavesAlone DEF Types
<1>3. r \in fresh[k] /\ pc[r] = "save"
  BY <1>2 DEF LeftAlone, callVars
<1>4. /\ k \in DOMAIN balance
      /\ entity[r] = balance[k]
      /\ C!Available(balance[k]) >= Days[r]
  BY <1>3 DEF C!CurrentEntities, C!HasBalance
<1>5. QED
  BY <1>2, <1>3, <1>4 DEF LeftAlone, callVars

\* The steps of the system, as the calls see them: their own, or a sync's.
LEMMA StepIsCallsOrSyncs ==
    ASSUME [Next]_vars
    PROVE  [C!Next]_C!vars \/ (S!SyncStep /\ UNCHANGED callVars)
<1>1. CASE R!CallStep \/ R!Crash
  BY <1>1, CallSteps, CallCrash DEF C!Next
<1>2. CASE UNCHANGED vars
  BY <1>2 DEF vars, callVars, storeVars, hcmVars, C!vars, C!callVars,
     C!netVars, C!storeVars, C!hcmVars
<1>3. QED
  BY <1>1, <1>2 DEF Next

LEMMA StepKeepsEntities ==
    ASSUME Types, C!CurrentEntities, [Next]_vars
    PROVE  C!CurrentEntities'
BY StepIsCallsOrSyncs, SyncKeepsEntities, PartsAssumptions,
   C!EntitiesStayCurrent DEF Types

\* With the optimistic lock, the findOne and the save of reserveDays act as one
\* step also when syncs overwrite the row between them.
THEOREM SystemReservesAtomically ==
    ASSUME OptimisticLock
    PROVE  CallSpec => ReservesAtomically
<1>1. Init => C!CurrentEntities
  BY Inits DEF C!Init, C!CurrentEntities, C!Calls
<1>2. Types /\ C!CurrentEntities /\ [Next]_vars => C!CurrentEntities'
  BY StepKeepsEntities
<1>3. Types /\ C!CurrentEntities /\ [Next]_vars =>
         [\A r \in Requests :
             pc[r] = "save" /\ pc'[r] = "insert" =>
                 LET k == BalanceKey[r]
                 IN  /\ balance'[k] \in R!Reserved(balance[k], Days[r])
                     /\ 2 * R!Available(balance'[k]) + Unit >= 0]_R!vars
  <2> SUFFICES ASSUME Types, C!CurrentEntities, Next,
                      NEW r \in Requests, pc[r] = "save", pc'[r] = "insert"
               PROVE  LET k == BalanceKey[r]
                      IN  /\ balance'[k] \in R!Reserved(balance[k], Days[r])
                          /\ 2 * R!Available(balance'[k]) + Unit >= 0
    BY DEF vars, callVars
  <2>1. CASE R!CallStep
    <3>1. C!Next
      BY <2>1, CallSteps DEF C!Next
    <3>2. LET k == BalanceKey[r]
          IN  /\ balance'[k] \in C!Reserved(balance[k], Days[r])
              /\ 2 * C!Available(balance'[k]) + Unit >= 0
      BY <3>1, PartsAssumptions, C!CurrentSaveReserves DEF Types
    <3>3. QED
      BY Zenon, <3>2 DEF R!Reserved, C!Reserved, R!Available, C!Available, R!Rounded,
         C!Rounded
  <2>2. CASE UNCHANGED callVars
    BY <2>2 DEF callVars
  <2>3. CASE R!Crash
    BY <2>3 DEF R!Crash, R!Calls
  <2>4. QED
    BY <2>1, <2>2, <2>3 DEF Next
<1>4. QED
  BY <1>1, <1>2, <1>3, SystemTypes, PTL DEF CallSpec, ReservesAtomically,
     R!ReservesAtomically

----------------------------------------------------------------------------
(***************************************************************************)
(* The days held, beside the syncs that work in transactions.              *)
(*                                                                         *)
(* A real-time sync (Refreshes) writes back the reserved days it read      *)
(* before its call to HCM, with or without the lock: there is nothing to   *)
(* prove where one may run, and TLC shows the days it loses.               *)
(***************************************************************************)

\* Every other sync keeps every row, and its reserved days.
LEMMA SyncKeepsReserved ==
    ASSUME Refreshes = {}, Types, S!SyncStep, NEW k \in DOMAIN balance
    PROVE  k \in DOMAIN balance' /\ balance'[k].reserved = balance[k].reserved
<1>1. ASSUME NEW j, NEW h, P!Insert(j, h)
      PROVE  k \in DOMAIN balance' /\ balance'[k].reserved = balance[k].reserved
  BY <1>1 DEF P!Insert, P!Overwrite, P!HasBalance
<1>2. ASSUME NEW j, NEW h, P!Update(j, h) \/ P!UpdateAndFlag(j, h)
      PROVE  k \in DOMAIN balance' /\ balance'[k].reserved = balance[k].reserved
  <2>1. P!HasBalance(j) /\ P!Overwrite(j, P!Synced(balance[j], h))
    BY <1>2 DEF P!Update, P!UpdateAndFlag
  <2>2. balance[j] \in P!Balance
    BY <2>1 DEF P!HasBalance, Types, P!SyncTypeOK, P!StoreTypeOK
  <2>3. P!Synced(balance[j], h).reserved = balance[j].reserved
    BY <2>2 DEF P!Synced, P!Balance
  <2>4. QED
    BY <2>1, <2>3 DEF P!Overwrite
<1>3. QED
  BY <1>1, <1>2, SyncSteps, PartsAssumptions, P!StepChangesRows DEF Types

\* What makes the reserved days those held, beside the syncs.
SystemHeldInv ==
    /\ Types
    /\ C!RowsInv
    /\ C!RowsLeaveNone
    /\ ~DbMayFail => C!RowsHold

\* A sync settles and stores no request, and flags only unsettled ones: the
\* calls that hold days, and those that were cut short, stay the same.
LEMMA SyncKeepsHolders ==
    ASSUME Types, S!SyncStep, UNCHANGED callVars, NEW k
    PROVE  /\ C!Unfreed(k)' = C!Unfreed(k)
           /\ C!Others(k)' = C!Others(k)
           /\ C!Holding(k)' = C!Holding(k)
           /\ C!LetGo(k)' = C!LetGo(k)
           /\ C!Unreviewed(k)' <=> C!Unreviewed(k)
<1>1. pc' = pc
  BY DEF callVars
<1>2. crashes' = crashes
  BY SyncSteps, PartsAssumptions, P!StepFlags DEF Types
<1>3. \A r \in Requests : /\ status'[r] \in C!Settled <=> status[r] \in C!Settled
                          /\ status'[r] = "none" <=> status[r] = "none"
  BY SyncKeepsRequests DEF P!FlagPending, C!Settled
<1>4. \A r \in Requests : C!Freed(r)' <=> C!Freed(r)
  BY <1>1, <1>3 DEF C!Freed
<1>5. \A r \in Requests : C!CutShort(r)' <=> C!CutShort(r)
  BY <1>2, <1>3 DEF C!CutShort
<1>6. C!Unfreed(k)' = C!Unfreed(k)
  BY <1>1, <1>4, <1>5 DEF C!Unfreed
<1>7. C!Holding(k)' = C!Holding(k) /\ C!LetGo(k)' = C!LetGo(k)
  BY <1>1 DEF C!Holding, C!LetGo
<1>8. C!Unreviewed(k)' <=> C!Unreviewed(k)
  BY <1>1 DEF C!Unreviewed
<1>9. QED
  BY <1>6, <1>7, <1>8 DEF C!Others

\* A sync keeps the invariant: it changes no reserved days, and no row is lost.
LEMMA SyncKeepsHeld ==
    ASSUME Refreshes = {}, SystemHeldInv, Types', S!SyncStep, UNCHANGED callVars
    PROVE  SystemHeldInv'
<1> USE DEF SystemHeldInv
<1>1. \A k \in DOMAIN balance :
         k \in DOMAIN balance' /\ balance'[k].reserved = balance[k].reserved
  BY SyncKeepsReserved
<1>2. pc' = pc /\ posts' = posts
  BY DEF callVars
<1>3. \A r \in Requests : C!Stored(r)' <=> C!Stored(r)
  BY SyncKeepsRequests DEF P!FlagPending, C!Stored
<1>4. C!RowsInv'
  <2>1. C!RowsKnown'
    BY <1>1, <1>2, <1>3 DEF C!RowsInv, C!RowsKnown, C!HasBalance
  <2>2. C!RequestsKnown'
    BY <1>2, <1>3, PartsAssumptions, C!CallsHaveRequests
       DEF C!RowsInv, C!RequestsKnown, C!CallsAreStored, C!NewAreUnstored, C!Req
  <2>3. QED
    BY <1>1, <2>1, <2>2, SyncKeepsEntities DEF C!RowsInv
<1>5. \A k \in DOMAIN InitBalance : balance'[k].reserved = balance[k].reserved
  BY <1>1 DEF C!RowsInv
<1>6. C!RowsLeaveNone'
  <2> SUFFICES ASSUME NEW k \in DOMAIN InitBalance
               PROVE  /\ C!Inexact(balance'[k].reserved) = 0
                      /\ C!NoneLeft(k, balance'[k].reserved, C!Unfreed(k)',
                                    C!Others(k)')
    BY DEF C!RowsLeaveNone
  <2>1. QED
    BY Zenon, <1>5, SyncKeepsHolders DEF C!RowsLeaveNone
<1>7. ~DbMayFail => C!RowsHold'
  <2> SUFFICES ASSUME ~DbMayFail, NEW k \in DOMAIN InitBalance, C!Unreviewed(k)'
               PROVE  C!NoneLost(k, balance'[k].reserved, C!Holding(k)',
                                 C!LetGo(k)')
    BY DEF C!RowsHold
  <2>1. QED
    BY Zenon, <1>5, SyncKeepsHolders DEF C!RowsHold
<1>8. QED
  BY <1>4, <1>6, <1>7

\* The modules of the parts count as this one does.
LEMMA SystemFinite == IsFiniteSet(Requests) <=> C!IsFiniteSet(Requests)
BY Zenon DEF C!IsFiniteSet, IsFiniteSet

\* So does a call, by the lemmas about it.
LEMMA CallKeepsHeld ==
    ASSUME OptimisticLock, IsFiniteSet(Requests),
           SystemHeldInv, Types', [C!Next]_C!vars
    PROVE  SystemHeldInv'
<1>1. C!IsFiniteSet(Requests)
  BY SystemFinite
<1>2. C!HeldInv /\ C!TypeOK'
  BY DEF C!HeldInv, SystemHeldInv, Types
<1>3. C!HeldInv'
  BY <1>1, <1>2, PartsAssumptions, C!StepKeepsHeldInv
<1>4. QED
  BY <1>3 DEF C!HeldInv, SystemHeldInv

\* The reserved days are those held, in the terms of both instances.
LEMMA HeldIsHeld == C!ReservedIsHeld <=> R!ReservedIsHeld
<1>1. \A T : C!Cardinality(T) = R!Cardinality(T)
  BY Zenon DEF C!Cardinality, R!Cardinality
<1>2. \A T : C!DaysOf(T) = R!DaysOf(T) /\ C!Slack(T) = R!Slack(T)
  BY Zenon, <1>1 DEF C!DaysOf, R!DaysOf, C!StepsOf, R!StepsOf, C!Slack, R!Slack
<1>3. \A k : C!Holding(k) = R!Holding(k) /\ C!LetGo(k) = R!LetGo(k)
  BY Zenon DEF C!Holding, R!Holding, C!LetGo, R!LetGo
<1>4. \A k : C!Abandoned(k) = R!Abandoned(k)
  BY Zenon DEF C!Abandoned, R!Abandoned, C!CutShort, R!CutShort, C!Settled,
     R!Settled
<1>5. \A k : C!Unreviewed(k) <=> R!Unreviewed(k)
  BY Zenon DEF C!Unreviewed, R!Unreviewed
<1>6. QED
  BY Zenon, <1>2, <1>3, <1>4, <1>5 DEF C!ReservedIsHeld, R!ReservedIsHeld

\* With the optimistic lock, and without a real-time sync, the reserved days of
\* every balance are those of the submit calls that hold some or were cut
\* short, whatever cycles, batches, webhooks, reviews, failures and restarts
\* write to it meanwhile.
THEOREM SystemReservedIsHeld ==
    ASSUME OptimisticLock, Refreshes = {}, IsFiniteSet(Requests)
    PROVE  CallSpec => []ReservedIsHeld
<1>1. Init => C!RowsInv /\ C!RowsLeaveNone /\ C!RowsHold
  BY Inits, PartsAssumptions, C!RowsAtFirst
<1>2. SystemHeldInv /\ Types' /\ [Next]_vars => SystemHeldInv'
  BY StepIsCallsOrSyncs, SyncKeepsHeld, CallKeepsHeld
<1>3. SystemHeldInv => ReservedIsHeld
  BY HeldIsHeld, SystemFinite, PartsAssumptions, C!RowsAreHeld
     DEF ReservedIsHeld, SystemHeldInv, Types, C!HeldInv
<1>4. QED
  BY <1>1, <1>2, <1>3, SystemTypes, PTL DEF CallSpec, SystemHeldInv
=============================================================================
