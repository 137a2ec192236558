# A verification of the time-off service

TLA+ models of the ReadyOn time-off service in this repository (a NestJS
application under `src/`, paths below are relative to it unless they start with
`docs/` or `mock-hcm/`), checked with TLC on small instances, and theorems about
them checked with TLAPS for every instance.

## The system

| part | state | operations | talks to |
|---|---|---|---|
| `TimeOffRequestsService` | `time_off_requests` rows: status, unique idempotency key | submit, approve, reject, cancel, `callHcmAsync`, `markApproved`, `markRejected` | BalancesService, HCM (HTTP) |
| `BalancesService`, reservations | `balances` rows: total, used, reserved, version | `reserveDays` (retry loop), `confirmReservation`, `releaseReservation` | database |
| `BalancesService`, syncs | the same rows; `sync_logs` | `processBatchSync`, `syncRealtimeFromHcm`, `applyWebhookUpdate`, `upsertBalance`, `upsertBalanceFromBatch` | database, HCM |
| `HcmSyncService` | `isReconciling`, in memory | `scheduledReconciliation` (cron) | BalancesService, HCM |
| `WebhooksController` | none | `handleBalanceUpdate`, `verifyHmacSignature` | BalancesService |
| HCM (`mock-hcm/src/index.ts`) | balances, filed requests, idempotency keys | file a request, read one or all balances, bonus (with webhook), set a balance, reset | the webhook |
| guards, controllers, DTOs | none | turn callers away, dispatch, bound the inputs | the services |
| health, filters, interceptors, configuration, seed | none that matters here | formatting, reads | - |

What makes it correct, and hard:

* **Reservations.** Days are held when a request is submitted, and taken or freed
  when HCM answers. `reserveDays` reads a row, awaits, and writes all of it back.
  Nothing may be lost, given back twice, or promised twice.
* **The call to HCM.** It runs after the client was answered, beside reviews of
  the same request, and a second time from `approve`. Answers get lost or come
  late, statements fail after HCM has deducted, the service restarts.
* **Idempotency.** A client repeats its request while the first copy is being
  processed. So does the service towards HCM.
* **Syncs.** Snapshots of HCM are applied after the fact, item by item, against
  rows the requests are changing; webhooks are lost or late.
* **Arithmetic.** Days are doubles, rounded to four places after every sum but
  compared without rounding. Errors must not add up, and the comparisons must not
  go wrong where the amounts meet.
* **The reconciliation flag.** It must be cleared on every way out of a cycle and
  never under a running one.

`PROJECT.json` lists the hazards with the lines where they bite and the
properties that watch them.

## Modules

| module | what it is |
|---|---|
| `LeaveDomain` | keys, payloads, statuses, the arithmetic on a balance row |
| `LeaveStore` | the database: the two tables, who holds a current entity, restarts |
| `MockHcm` | HCM as the mock server implements it |
| `TimeOffRequests` | the calls of `TimeOffRequestsService` and the reservations they make (core) |
| `HcmSync` | the cycles, batches, refreshes and webhooks |
| `TimeOffSystem` | both, on one database and one HCM, restarting together |
| `LeaveFiling` | abstract: how a request's status and HCM's filings may move |
| `LeaveLedger` | abstract: reservations as atomic steps on a ledger, in which a call gives days back at most once |
| `LeaveDomain_proofs` | lemmas: rounding, the operations on a row, sums of days |
| `TimeOffRequests_proofs` | theorems: types, the life of a request, the lock on one save |
| `FiledDays_proofs` | theorems: the days HCM deducts and the days counted as used |
| `HeldDays_proofs` | theorems: the days held, no overbooking, the ledger |
| `HcmSync_proofs`, `TimeOffSystem_proofs` | theorems about the syncs, and about both together |
| `MCTimeOffRequests`, `MCHcmSync`, `MCTimeOffSystem` | instances for TLC |

### How state and actions correspond to the code

A call (a submit, a review, a sync) is a process, and a step is what it does from
one `await` to the next. `pc[t]` or `at[s]` says which await it is at; `entity`,
`found` and `items` are the local variables it carries across one. The callback
of `dataSource.transaction` is one step.

* `balance`, `status`: the tables. `save` writes the whole entity, so `Save` and
  `StoreRow` write the row that was read, changed in a few columns. `fresh[k]`
  stands for the version column: the readers whose entity for `k` is current.
* `posts`, `replies`: HTTP requests on their way to HCM and answers on their way
  back. A post outlives the call that sent it; it may also never arrive.
* `returned[r]`: what the client of call `r` was answered.
* `filed`: the mock's `requests` and `processedIdempotencyKeys`, written together.
* `items[s]`: what is left of a snapshot, or of a posted list; `tally[s]`: how its items
  fared. What `POST /balances/sync/batch` posts is HCM's table or any list of
  `Postings`. A list names a key once: one that repeats a key acts like two batches.
* `FindRow` and `StoreRow` are the `findOne` and the `save` of `upsertBalance`, which
  the real-time sync uses. Nothing there looks at a version, whatever the lock.
* The branch of `callHcmAsync` for a 2xx answer that is not APPROVED does what the
  catch does for a 400, and both are one step. They differ when `markRejected` throws:
  in the branch the catch would run it again, in the catch it ends the call, which is
  what `StatementFails` does. The mock sends no such answer.
* `RefuseReview` and `TurnAway`: the ways a call ends before it changes anything,
  in `findOrThrow` and the status checks, and in `JwtAuthGuard` and `RolesGuard`.
* `webhooks`: what HCM has sent and nobody has received. One may stay there for ever
  (lost), be refused for its signature, or fail in the database; HCM never repeats it.

One row and one call are the same thing (`Requests`): a call creates at most one
row.

### Amounts of days

Days are counted in steps, `Unit` of which make the 0.0001 day the code rounds to.
`Rounded` is `parseFloat(x.toFixed(4))`: the nearest multiple of `Unit`, and either
one for a value halfway, because the double that stands for it is a little above or
below. The operations on a row are therefore sets of rows, and an action takes any
member. With `Unit = 1` all amounts are multiples of 0.0001 and every sum is exact;
with more, the properties about days hold up to the rounding the model makes
explicit: one for each operation on a request's days that are not a multiple of
`Unit` (`Slack`, `Near`), and one on account of an amount that was not when the
program started (`Inexact`): the first sum rounds that as well. The rows at the start
have reserved days of multiples of `Unit` only (`StoreAssumption`), as the column starts
at 0 and is rounded on every write; totals and used days may be anything.

`DaysOf(S)`, the days of all requests in a set, is the number of their steps: the size
of the disjoint union of `{r} \X 1 .. Days[r]`. That is their sum, and finite-set
theorems speak of it where a fold would need induction.

A difference that is compared without rounding (`reserveDays`, the conflict check,
the mock's validation) is exact except where its two sides meet: there the double may
come out just below (`MayBeLess`). `ExactFloats` says that the amounts are fractions
that a double holds exactly (halves, whole days), where that cannot happen.

### Parameters that are facts about the build

* `OptimisticLock`. `reserveDays` catches `OptimisticLockVersionMismatch`, but
  TypeORM's `save` never raises it: it increments a version column and compares it
  only in a find that asks for a lock. FALSE is the program as built; TRUE is the
  `save` the retry loop is written for, and is about the `save` of `reserveDays` alone:
  it is an assumption that no line of the code discharges. Runs and theorems about what
  the reservations promise make it, and `unlocked_reserve` shows what FALSE costs.
* `RevalidationQuery`. The conflict branch runs a raw UPDATE with snake-case
  columns on a camel-case table: FALSE, as built, throws and rolls the item back.
  TRUE is the same statement with the table's names.
* `DbMayFail`. Whether a statement may throw.
* `HmacSecret`, `Signatures`. Whether a webhook secret is configured, and whether the
  webhooks HCM sends carry the right signature. The mock signs none.
* `HcmResets`. Whether the mock's test route may put HCM back to its first balances,
  which also forgets what it filed.
* `Readers` are the calls whose entities' versions are compared: all of them with the
  lock, none (to keep the state small) without.

The awaits of two calls interleave here as soon as both are between `findOne` and
`save`. With better-sqlite3, which is synchronous, two HTTP requests of one
process seldom are; two calls started together in one process, two instances, or
the PostgreSQL driver of stage 2 in `docs/TRD.md` are. The waits for HCM interleave
in every deployment.

Not taken from the code: a dropped connection, a restart and a change inside HCM
happen whenever they like, within the bounds below. The feature modules import
`HttpModule` without the base URL and timeout that `app.module.ts` registers, so as
built a call to HCM fails at once, and as meant it times out after ten seconds. The
models need only that every exchange ends.

## Runs

Runs that pass:

| run | instance | what it shows |
|---|---|---|
| `requests_safety` | as built; `r1` and `r2`, of two employees with a balance each, share a key; HCM covers `r1` twice and `r2` not at all; approve, reject and cancel of `r1`; statements may fail; one restart (112 thousand states) | types (no column below zero), `ApprovedIsFiled`, `SameKeySameRequest`, `HcmDeductsOnce`, `ImplementsFiling` |
| `requests_reserve` | lock; four steps to 0.0001; three calls asking for a multiple, a halfway amount and a finer one, of a balance that covers two and has some used days, no multiple either; the first and the third share a key; HCM has fewer days; a reject of the first; one restart (528 thousand states) | `ReservesAtomically`, `ReservedIsHeld`, `NoOverbooking`, `UsedIsFiled`, `HcmDeductsOnce`, `ImplementsLedger` |
| `sync_safety` | two cycles, a batch that posts HCM's table or a list HCM never had, a refresh, a bonus, a lowered balance or a reset, webhooks signed and unsigned with a secret configured, inexact differences, failing statements, one restart (1.43 million states) | types, `FlagMeansOneCycle`, `ConflictsAreFlagged` |
| `system` | lock; a request, a manager's reject, a cycle, a refresh, a lowered balance (208 thousand states) | `EveryRequestSettles`, `ImplementsFiling`, `ReservesAtomically` |
| `system_live` | without the lock; a request, a cycle, a refresh, a bonus, a lowered balance or a reset, one restart (146 thousand states) | `CycleEnds`, `EventuallyInStep` |

Runs that end in a violation, each a disagreement between the code and its own
documents (`findings` in `PROJECT.json` quotes the lines):

| run | what happens |
|---|---|
| `outage_rejects` | HCM never answers the post, the days are released and the request is REJECTED; the design keeps it PENDING. In the trace HCM has filed nothing; the same steps are taken when it has and only its answer was lost |
| `approve_counts_twice` | submit's call and approve's call are both answered APPROVED, and both confirm the reservation |
| `unlocked_reserve` | two calls read the same row; the second save takes the first reservation back |
| `duplicate_submit` | two calls of one key both reserve; the second insert is refused, its call ends, and its days stay reserved (with the lock on) |
| `conflict_never_applied` | HCM lowers a balance below what is reserved; the conflict branch throws on every cycle |
| `boundary_refused` | 1.2 days in total and 0.1 used show as 1.1 available, and a request for 1.1 is refused: 1.2 - 0.1 is 1.0999999999999999 |
| `refresh_takes_back` | a real-time refresh finds the row, a submit call reserves two days, and the refresh saves the row it found: nothing is reserved, and the call goes on (with the lock on, which only `reserveDays` is written for) |

Smaller disagreements seen on the way, without a run: the cron runs every 5
minutes, its comment and `docs/TRD.md` say 15; the design says a batch is one
transaction, the code has one per item; a request rejected by a manager while its
call is out may still become APPROVED; the real-time sync detects no conflict; the
webhook's signature is said to cover the raw body and is computed over the parsed one
written out again; HCM's employee ids are stored (`hcmEmployeeId`) and never looked up,
and the seed lets the database choose the local ids, so every item of a batch of the
mock's balances fails on the foreign key; a batch with an item that failed is logged
SUCCESS (the status looks at conflicts only), where `docs/TRD.md:374` has PARTIAL.

The documents disagree about APPROVED requests. `docs/TRD.md:156-160` and `:373` ("HCM
balance drops post-approval ... Flag NEEDS_REVALIDATION") and the state machine in
`time-off-request.entity.ts:23` (`* -> NEEDS_REVALIDATION`) reopen them when a sync finds
a conflict; `docs/TRD.md:310`, `:317`, `:352` and `:538` flag PENDING ones only, as the raw
UPDATE does (`status = 'PENDING'`). The models follow the code: `LeaveFiling` has no step from
APPROVED to NEEDS_REVALIDATION. That `ImplementsFiling` holds says that the code never takes
that arrow of the documents, not that it should not.

### Bounds, and why they are enough

Three submit calls are what it takes for a lock to be lost twice and retried; two
suffice for a repeated key. One review is enough to meet the submit call of its request
at each of its steps. A posted list is one more snapshot, which need not have been HCM's:
one list, of one key, with totals HCM never has, shows the difference. Where days are the question, all calls share one balance:
calls on different balances share nothing but HCM's key cache and the unique index, and
`requests_safety` has two balances for those. `Unit = 4` is the smallest with amounts
that are whole, halfway and neither. One restart separates a state before
from a state after, and a second adds no new kind of state, because a restart keeps
only what is persistent (the theorems are for any number). `MaxCrashes` and `MaxHcmChanges` are the only counters; both
bound the environment, not the service. The days are chosen so that HCM covers some
requests and not others, and so that HCM's data can leave fewer days than are
reserved while its total does not (the two conflict conditions differ).
`MaxRetries` is the code's 3. The cycles of `sync_safety` are symmetric.
`CHECK_DEADLOCK FALSE` is used for the request runs only: there every call may end.

### Fairness, and why the code justifies it

Weak fairness of each call's own steps: the event loop runs every call whose await
is over, a statement returns, and an HTTP exchange is answered, refused or timed
out. No fairness for clients, reviewers, HCM's serving of a post, restarts or
failures. A cycle keeps firing, because cron does. Strong fairness of `Fetch` is an
assumption about the environment: a cycle that asks HCM again and again gets an
answer again and again, that is, HCM is not down for ever. `EveryRequestSettles` needs
only the fairness of the calls (`CallSpec`): the syncs and HCM may stop at any time. It
excepts restarts, after which nothing in the code looks at the request again (a gap the
design names); its run has none, and no failing statements, which end a call for good.

## Proofs

All theorems are about any calls, reviews, syncs, webhooks, balances, days and keys, with
or without failing statements and restarts, and with or without the lock, unless they say
otherwise. The assumptions are the named ones on the constants (`DomainAssumption`,
`StoreAssumption`, `HcmAssumption`, `RequestsAssumption`, `SyncAssumption`,
`SystemAssumption`), which TLC evaluates on its instances. Theorems that count days also
need `IsFiniteSet(Requests)`: an infinite set of requests has no sum.

`LeaveDomain_proofs`: rounding is off by at most half of 0.0001 (`RoundedIsNear`) and
takes no natural number below zero; `RowArithmetic`, the operations on a row give rows;
`ReservedIsAvailable`. `RoundedSumIsNear`: adding to an amount and rounding is off by no
more than half of 0.0001, and by nothing when the terms are multiples. `SumsWithOneMore`
and `SumsOverMore`: what one request more adds to `DaysOf` and `Slack`, and that both
grow with the set; from the cardinality of disjoint unions.

`TimeOffRequests_proofs`:

* `TypeCorrect`: `TypeOK`. It rests on `RowArithmetic`.
* `ApprovedRequestsAreFiled` and `OneRequestPerKey`: `ApprovedIsFiled` and
  `SameKeySameRequest`. Neither is inductive. HCM answers a post APPROVED when it
  files the request *or when a filing has the same key*; the second is an approval
  of the same request only because posts are made for stored requests
  (`CallsAreStored`), only stored requests are filed (`FiledAreStored`), and the
  unique index keeps their keys apart (`UniqueKeys`). `ApprovalsAreFiled` carries the
  fact from HCM's answer to `markApproved`, `AnswersAreStored` ties what clients are
  told to the table. `IInv` is their conjunction; `Inductive` proves it. Most steps
  only move one call on, and `CallMovesOn` treats them together.
* `ServiceImplementsFiling`: every step of `TimeOffRequests` is a step of
  `LeaveFiling` or leaves status and filings alone.
* `LockMakesReserveAtomic`: with `OptimisticLock`, `ReservesAtomically`. The invariant
  `CurrentEntities` says that a reader that is still current has the row as it is,
  with its days available; every save of the row makes the other readers stale.
* `ExactDaysAreNotRefused`: with exact doubles and multiples of 0.0001, without failing
  statements and restarts, `RefusedOnlyWhenShort`: what `boundary_refused` shows comes from
  the unrounded comparison alone.

`FiledDays_proofs`, which need no lock:

* `HcmDeductsEachOnce`: `HcmDeductsOnce`, with reviews, failures and restarts. A step that
  files adds one request to `filed`, rounds once, and the bound grows by that rounding.
* `UsedDaysAreFiledOnce`: `UsedIsFiled`, when no review is an approve (rejects, cancels,
  failures and restarts are allowed). The invariant `UsedOnce` bounds the used days of
  each row by the filed requests whose own call is past `confirmReservation` (or gone), and
  those of each entity about to be saved as well, for without the lock it may be stale:
  a call confirms only what is filed (`IInv`), and only once. An approve
  makes a second call for the same request, and both confirm: `approve_counts_twice`.

`HeldDays_proofs`, with `OptimisticLock`, for any reviews, repeated keys, failing statements
and restarts. `StepKinds` sorts the steps: a call's days are held, taken or freed in a row
as it is, or the rows stay. Two invariants bound the reserved days, in terms of two sets of
calls each, and lemmas on sums say what one call's move does to them:

* From above, `RowsLeaveNone`. The days that nobody has given back yet (`Unfreed`) are those
  of calls that hold some, and of calls that ended early (`CutShort`: by a restart, a
  failing statement, or another call's insert under their key) whose request nobody has
  settled. A review or a second release can only lower the reserved days further.
* From below, `RowsHold`, for balances that no review has touched (`Unreviewed`) and
  statements that do not fail. There every hold is still in the row.

From these:

* `ReservedDaysAreHeld`: `ReservedIsHeld`, which has both halves and these conditions in it.
* `LockPreventsOverbooking`: `NoOverbooking`, of rows not overbooked at first, where
  statements do not fail; the property is about balances that no review has touched.
* `ServiceImplementsLedger`: `ImplementsLedger`. A claim of the ledger is a call that has yet
  to give days back. That clipping takes no more than rounding lost, which the ledger
  demands where there are no reviews and no failing statements, is `RowsHold`.

The lock is the one hypothesis all three share, and the program as built has none
(`unlocked_reserve`). The conditions inside the properties are where the code breaks the
unconditional ones: a second call of one key and a restart leave days reserved
(`duplicate_submit`, and `docs/TRD.md:557`); an approve counts days twice
(`approve_counts_twice`); a reject or cancel frees days that the request's own call takes or
frees again (`docs/TRD.md:556`), and so does a call whose update fails after
`confirmReservation`.

`HcmSync_proofs`:

* `SyncTypeCorrect`: `SyncTypeOK`, with `RefreshHasItem` (a refresh that is to store
  HCM's answer has it) to make it inductive.
* `FlagIsOneCycle`: `FlagMeansOneCycle`, which is inductive given the types;
  `OneSyncMoves` says that a step moves at most one sync.
* `ConflictsAreAlwaysFlagged`: `ConflictsAreFlagged`, from `StepChangesRows`, the ways
  a step may change the tables. The inexact comparison can only err towards a
  conflict.

`TimeOffSystem_proofs`, for `CallSpec` and so for `Spec`, from the lemmas of the two parts
(their steps are the same definitions under two names, which the first lemmas show):

* `SystemTypes`: what each part assumes of the tables and HCM, the other keeps.
* `SystemInductive`: `IInv` beside the syncs, which store no request, approve none and
  file none. It needs that HCM is not reset, for a reset forgets filings.
* `SystemImplementsFiling`: `ImplementsFiling`, unless HCM is reset.
* `SystemFlagIsOneCycle`: the flag of the reconciliation beside the calls.
* `SystemReservesAtomically`: with `OptimisticLock`, `ReservesAtomically`: an overwriting sync
  makes every call that read the row stale.
* `SystemReservedIsHeld`: with `OptimisticLock` and without real-time syncs
  (`Refreshes = {}`), `ReservedIsHeld` beside cycles, batches and webhooks:
  `SyncKeepsReserved` says that they leave reserved days alone, `SyncKeepsHolders` that
  flagging changes no holder. With a real-time sync it is false (`refresh_takes_back`).
  `NoOverbooking` does not hold beside syncs and is not meant to: HCM may lower a balance
  below what is reserved, which is what the conflict branch is for.

Only model-checked: the liveness properties (`EveryRequestSettles`, `CycleEnds`,
`EventuallyInStep`), which need fairness and ENABLED. Every invariant, action property and
refinement of the passing runs is also a theorem, under the hypotheses its entry names.

## Not modelled

Tokens and who holds which role (a guard may refuse any call), the hash of a webhook's
signature, routing and DTO validation beyond the bounds they put on inputs, logging and
formatting, the descriptive columns, reads that change nothing (lists, health checks),
the seed beyond the balances it leaves. SQLite's shared connection, on which TypeORM's
nested transactions of two calls could mix, is not modelled: transactions are atomic.

## Plan

1. Done: the request calls, the syncs with their webhooks, their composition, the
   rounding, two abstract specifications and their refinements, the theorems above.
2. Next: an abstract specification of reconciliation (the local totals are always some
   past totals of HCM, and filings confirmed since), and its refinement by `HcmSync`.
3. Proofs: what an approve, which counts days a second time, leaves of `UsedIsFiled` (at
   most one filing more for each approve), and what reviews leave of `NoOverbooking`
   (as much as the days of the requests reviewed).
