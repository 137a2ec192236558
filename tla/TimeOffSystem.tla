--------------------------- MODULE TimeOffSystem ---------------------------
(***************************************************************************)
(* The whole service: the calls of TimeOffRequests and the syncs of        *)
(* HcmSync on one database and one HCM, in one process that restarts as a  *)
(* whole.                                                                  *)
(***************************************************************************)
EXTENDS LeaveStore, MockHcm

CONSTANTS
    Reviews, Kind, Target, MaxRetries,              \* of TimeOffRequests
    Cycles, Batches, Postings,                      \* of HcmSync
    Refreshes, RefreshKey, KnownEmployee, RevalidationQuery, Pending,
    HmacSecret, Signatures, HcmResets,
    BonusDays, HcmSettings, MaxHcmChanges

VARIABLES
    pc, entity, attempt, returned, posts, replies,  \* of TimeOffRequests
    at, items, found, tally, log,                   \* of HcmSync
    isReconciling, webhooks, hcmChanges

R == INSTANCE TimeOffRequests
S == INSTANCE HcmSync

ASSUME SystemAssumption ==
    /\ R!RequestsAssumption
    /\ S!SyncAssumption

callVars == <<pc, entity, attempt, returned, posts, replies>>
syncVars == <<at, items, found, tally, log, isReconciling, webhooks, hcmChanges>>
vars     == <<storeVars, hcmVars, callVars, syncVars>>

Init == R!Init /\ S!SyncInit

\* A call or a sync goes on, or the service restarts.
Next ==
    \/ R!CallStep /\ UNCHANGED syncVars
    \/ S!SyncStep /\ UNCHANGED callVars
    \/ R!Crash /\ S!SyncCrash

Spec == Init /\ [][Next]_vars /\ R!Fairness /\ S!SyncFairness

\* The syncs, and HCM, may stop at any time.
CallSpec == Init /\ [][Next]_vars /\ R!Fairness

----------------------------------------------------------------------------
(***************************************************************************)
(* Properties.                                                             *)
(***************************************************************************)

\* The life of a request stays the one LeaveFiling allows when syncs flag
\* requests and overwrite balances while the call to HCM is out: APPROVED
\* still means filed, and only PENDING requests are flagged (the design flags
\* approved ones as well, in places; no code does).
ImplementsFiling == R!ImplementsFiling

\* The save of reserveDays acts on the row as it then is, also when a sync
\* has put HCM's totals into it between the findOne and the save.
ReservesAtomically == R!ReservesAtomically

\* Whatever syncs write HCM's totals into a balance, its reserved days stay
\* those of the submit calls that hold days of it.  Cycles, batches and webhooks
\* read and write a row in one transaction and keep this; the real-time sync
\* does not.
ReservedIsHeld == R!ReservedIsHeld

\* Once HCM has answered its last call, the local totals become HCM's and
\* stay so: a filing that a sync had already brought in and that
\* confirmReservation then counted again is corrected by the next cycle.
EventuallyInStep == S!EventuallyInStep

\* A stored request is settled although syncs flag it while its call to HCM is
\* out, and reviews settle it at the same time: only a restart leaves it open.
EveryRequestSettles == R!EveryRequestSettles

\* A reconciliation that starts ends, so the next cycle is not skipped for
\* ever.
CycleEnds == S!CycleEnds
=============================================================================
