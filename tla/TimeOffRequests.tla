-------------------------- MODULE TimeOffRequests --------------------------
(***************************************************************************)
(* TimeOffRequestsService and the reservations it asks of BalancesService: *)
(* the calls that submit, approve, reject and cancel time-off requests,    *)
(* interleaved at their awaits, and the calls they make to HCM.            *)
(*                                                                         *)
(* A call is a process.  Between two awaits it runs alone, so a step is    *)
(* what a call does from one await to the next: one database access or one *)
(* HTTP exchange.  The callback of dataSource.transaction is one step.     *)
(*                                                                         *)
(* pc of a submit call: idle, reserve (findOne in reserveDays), save (save *)
(* in reserveDays), insert, post (to HCM), call (waiting for HCM), then    *)
(* confirm and approve, or release and close, then done.  An approve call  *)
(* starts at post, a reject or cancel call at release.                     *)
(***************************************************************************)
EXTENDS LeaveStore, MockHcm

CONSTANTS
    Reviews,    \* the approve, reject and cancel calls
    Kind,       \* Kind[o]: which of the three call o is
    Target,     \* Target[o]: the request it is about
    MaxRetries  \* of reserveDays: 3

ASSUME RequestsAssumption ==
    /\ Reviews \cap Requests = {}
    /\ OptimisticLock => Requests \subseteq Readers
    /\ Kind \in [Reviews -> {"approve", "reject", "cancel"}]
    /\ Target \in [Reviews -> Requests]
    /\ MaxRetries \in Nat \ {0}

Calls == Requests \cup Reviews

\* The request a call is about.
Req(t) == IF t \in Requests THEN t ELSE Target[t]

VARIABLES
    pc,         \* pc[t]: what call t does next
    entity,     \* entity[r]: the balance row reserveDays read for r
    attempt,    \* attempt[r]: how often reserveDays retried for r
    returned,   \* returned[r]: the request answered to r's client, as a set
    posts,      \* calls whose POST /hcm/time-off has not reached HCM
    replies     \* HCM's answers on their way back

callVars == <<pc, entity, attempt, returned>>
netVars  == <<posts, replies>>
vars     == <<storeVars, hcmVars, callVars, netVars>>

PC == {"idle", "reserve", "save", "insert", "post", "call", "confirm",
       "approve", "release", "close", "done"}

NoEntity == [total |-> 0, used |-> 0, reserved |-> 0]

Init ==
    /\ StoreInit
    /\ HcmInit
    /\ pc       = [t \in Calls |-> "idle"]
    /\ entity   = [r \in Requests |-> NoEntity]
    /\ attempt  = [r \in Requests |-> 0]
    /\ returned = [r \in Requests |-> {}]
    /\ posts    = {}
    /\ replies  = {}

Goto(t, from, to) ==
    /\ pc[t] = from
    /\ pc' = [pc EXCEPT ![t] = to]

----------------------------------------------------------------------------
(***************************************************************************)
(* submit: the idempotency check, reserveDays and the insert.              *)
(***************************************************************************)

\* The key belongs to a request already stored: that request is the answer.
ReturnExisting(r) ==
    /\ Goto(r, "idle", "done")
    /\ \E q \in Requests :
          /\ status[q] # "none"
          /\ IdempotencyKey[q] = IdempotencyKey[r]
          /\ returned' = [returned EXCEPT ![r] = {q}]
    /\ UNCHANGED <<storeVars, hcmVars, entity, attempt, netVars>>

\* The key is new.  Dates out of order end the call, others go on.
Validate(r) ==
    /\ ~KeyTaken(r)
    /\ Goto(r, "idle", "reserve") \/ Goto(r, "idle", "done")
    /\ UNCHANGED <<storeVars, hcmVars, entity, attempt, returned, netVars>>

Sufficient(r) == Available(balance[BalanceKey[r]]) >= Days[r]

\* findOne and the check of the days available.
ReadBalance(r) ==
    /\ Goto(r, "reserve", "save")
    /\ HasBalance(BalanceKey[r])
    /\ Sufficient(r)
    /\ Read(r, BalanceKey[r])
    /\ entity' = [entity EXCEPT ![r] = balance[BalanceKey[r]]]
    /\ UNCHANGED <<hcmVars, attempt, returned, netVars>>

\* NotFoundException, or ConflictException for too few days.  The difference
\* of the columns is not rounded before it is compared.
RefuseReservation(r) ==
    /\ Goto(r, "reserve", "done")
    /\ LET k == BalanceKey[r]
       IN  HasBalance(k) => MayBeLess(Available(balance[k]), Days[r])
    /\ UNCHANGED <<storeVars, hcmVars, entity, attempt, returned, netVars>>

\* A save that writes the entity whether or not it is stale.
SaveUnchecked(r) ==
    /\ Goto(r, "save", "insert")
    /\ \E row \in Reserved(entity[r], Days[r]) : Save(BalanceKey[r], row)
    /\ entity' = [entity EXCEPT ![r] = NoEntity]
    /\ UNCHANGED <<hcmVars, attempt, returned, netVars>>

\* save of the entity with the days held.
SaveReservation(r) ==
    /\ MaySave(r, BalanceKey[r])
    /\ SaveUnchecked(r)

\* The lock refuses the save: back to findOne, or out of retries.
LockConflict(r) ==
    /\ ~MaySave(r, BalanceKey[r])
    /\ \/ /\ attempt[r] < MaxRetries - 1
          /\ Goto(r, "save", "reserve")
          /\ attempt' = [attempt EXCEPT ![r] = @ + 1]
       \/ /\ attempt[r] >= MaxRetries - 1
          /\ Goto(r, "save", "done")
          /\ UNCHANGED attempt
    /\ entity' = [entity EXCEPT ![r] = NoEntity]
    /\ UNCHANGED <<storeVars, hcmVars, returned, netVars>>

\* An insert on a table without the unique index.
InsertUnindexed(r) ==
    /\ Goto(r, "insert", "post")
    /\ SetStatus(r, "PENDING")
    /\ returned' = [returned EXCEPT ![r] = {r}]
    /\ UNCHANGED <<hcmVars, entity, attempt, netVars>>

\* The row is stored as PENDING and answered to the client; callHcmAsync goes
\* on by itself.
InsertRequest(r) ==
    /\ ~KeyTaken(r)
    /\ InsertUnindexed(r)

\* The unique index refuses the row: the client gets a 500.
InsertRefused(r) ==
    /\ KeyTaken(r)
    /\ Goto(r, "insert", "done")
    /\ UNCHANGED <<storeVars, hcmVars, entity, attempt, returned, netVars>>

----------------------------------------------------------------------------
(***************************************************************************)
(* callHcmAsync, of a submit or an approve call.                           *)
(***************************************************************************)

PostToHcm(t) ==
    /\ Goto(t, "post", "call")
    /\ posts' = posts \cup {t}
    /\ UNCHANGED <<storeVars, hcmVars, entity, attempt, returned, replies>>

\* A post reaches HCM, possibly after its call gave up or the service
\* restarted: then nobody reads the answer.  A post may also never arrive.
HcmAnswers(t) ==
    /\ t \in posts
    /\ posts' = posts \ {t}
    /\ \E approved \in BOOLEAN :
          /\ FileTimeOff(Req(t), approved)
          /\ replies' = IF pc[t] = "call"
                        THEN replies \cup {[to |-> t, ok |-> approved]}
                        ELSE replies
    /\ UNCHANGED <<storeVars, callVars>>

\* A caller that takes any answer for an approval.
AnyReplyConfirms(t) ==
    /\ \E m \in replies :
          /\ m.to = t
          /\ Goto(t, "call", "confirm")
          /\ replies' = replies \ {m}
    /\ UNCHANGED <<storeVars, hcmVars, entity, attempt, returned, posts>>

\* The answer arrives: APPROVED, or a 400 that the catch handles.
HcmReplies(t) ==
    /\ \E m \in replies :
          /\ m.to = t
          /\ Goto(t, "call", IF m.ok THEN "confirm" ELSE "release")
          /\ replies' = replies \ {m}
    /\ UNCHANGED <<storeVars, hcmVars, entity, attempt, returned, posts>>

\* The catch of callHcmAsync without its markRejected.
CallFailsQuietly(t) ==
    /\ Goto(t, "call", "done")
    /\ replies' = {m \in replies : m.to # t}
    /\ UNCHANGED <<storeVars, hcmVars, entity, attempt, returned, posts>>

\* No answer (connection refused, timeout, answer lost): the catch handles it
\* as a refusal.  The post may still be on its way.
CallFails(t) ==
    /\ Goto(t, "call", "release")
    /\ replies' = {m \in replies : m.to # t}
    /\ UNCHANGED <<storeVars, hcmVars, entity, attempt, returned, posts>>

\* confirmReservation.
ConfirmReservation(t) ==
    /\ Goto(t, "confirm", "approve")
    /\ LET k == BalanceKey[Req(t)]
       IN  \E row \in Confirmed(balance[k], Days[Req(t)]) : Save(k, row)
    /\ UNCHANGED <<hcmVars, entity, attempt, returned, netVars>>

\* The update that ends markApproved.
MarkApproved(t) ==
    /\ Goto(t, "approve", "done")
    /\ SetStatus(Req(t), "APPROVED")
    /\ UNCHANGED <<hcmVars, entity, attempt, returned, netVars>>

\* releaseReservation, of markRejected or cancel.
ReleaseReservation(t) ==
    /\ Goto(t, "release", "close")
    /\ LET k == BalanceKey[Req(t)]
       IN  \E row \in Released(balance[k], Days[Req(t)]) : Save(k, row)
    /\ UNCHANGED <<hcmVars, entity, attempt, returned, netVars>>

\* The update that ends markRejected or cancel.
Close(t) ==
    /\ Goto(t, "close", "done")
    /\ SetStatus(Req(t), IF t \in Reviews /\ Kind[t] = "cancel"
                         THEN "CANCELLED" ELSE "REJECTED")
    /\ UNCHANGED <<hcmVars, entity, attempt, returned, netVars>>

----------------------------------------------------------------------------
(***************************************************************************)
(* The reviews: approve, reject and cancel.  Each looks at the status its  *)
(* findOrThrow read, once, and never again.                                *)
(***************************************************************************)

\* The statuses in which a review of the given kind is accepted.
Reviewable(kind) ==
    IF kind = "reject" THEN {"PENDING", "NEEDS_REVALIDATION"} ELSE {"PENDING"}

\* approve: a second callHcmAsync for the request.
Approve(o) ==
    /\ Kind[o] = "approve"
    /\ status[Target[o]] \in Reviewable("approve")
    /\ Goto(o, "idle", "post")
    /\ UNCHANGED <<storeVars, hcmVars, entity, attempt, returned, netVars>>

\* reject: markRejected.
Reject(o) ==
    /\ Kind[o] = "reject"
    /\ status[Target[o]] \in Reviewable("reject")
    /\ Goto(o, "idle", "release")
    /\ UNCHANGED <<storeVars, hcmVars, entity, attempt, returned, netVars>>

\* cancel, by the employee the request belongs to.
Cancel(o) ==
    /\ Kind[o] = "cancel"
    /\ status[Target[o]] \in Reviewable("cancel")
    /\ Goto(o, "idle", "release")
    /\ UNCHANGED <<storeVars, hcmVars, entity, attempt, returned, netVars>>

\* findOrThrow finds no such request, or one in another status, or the
\* request is not the caller's to cancel.
RefuseReview(o) ==
    /\ Goto(o, "idle", "done")
    /\ Kind[o] # "cancel" =>
          status[Target[o]] \notin Reviewable(Kind[o])
    /\ UNCHANGED <<storeVars, hcmVars, entity, attempt, returned, netVars>>

\* JwtAuthGuard or RolesGuard turns the caller away before the handler runs.
TurnAway(t) ==
    /\ Goto(t, "idle", "done")
    /\ UNCHANGED <<storeVars, hcmVars, entity, attempt, returned, netVars>>

----------------------------------------------------------------------------
(***************************************************************************)
(* Failures.                                                               *)
(***************************************************************************)

\* A statement throws.  The catch of callHcmAsync covers markApproved, so a
\* failure there goes on to markRejected; any other ends the call.
StatementFails(t) ==
    /\ DbMayFail
    /\ \/ \E from \in {"confirm", "approve"} : Goto(t, from, "release")
       \/ \E from \in {"reserve", "save", "insert", "release", "close"} :
             Goto(t, from, "done")
    /\ UNCHANGED <<storeVars, hcmVars, entity, attempt, returned, netVars>>

\* The service restarts: the calls in progress are gone, nothing resumes them.
Crash ==
    /\ StoreCrash
    /\ pc'      = [t \in Calls |-> IF pc[t] = "idle" THEN "idle" ELSE "done"]
    /\ entity'  = [r \in Requests |-> NoEntity]
    /\ attempt' = [r \in Requests |-> 0]
    /\ replies' = {}
    /\ UNCHANGED <<hcmVars, returned, posts>>

----------------------------------------------------------------------------
Submit(r) ==
    \/ ReturnExisting(r)
    \/ Validate(r)

Review(o) ==
    \/ Approve(o)
    \/ Reject(o)
    \/ Cancel(o)
    \/ RefuseReview(o)

Reserve(r) ==
    \/ ReadBalance(r)
    \/ RefuseReservation(r)
    \/ SaveReservation(r)
    \/ LockConflict(r)
    \/ InsertRequest(r)
    \/ InsertRefused(r)

Settle(t) ==
    \/ PostToHcm(t)
    \/ HcmReplies(t)
    \/ CallFails(t)
    \/ ConfirmReservation(t)
    \/ MarkApproved(t)
    \/ ReleaseReservation(t)
    \/ Close(t)

CallStep ==
    \/ \E r \in Requests : Submit(r) \/ Reserve(r)
    \/ \E o \in Reviews : Review(o)
    \/ \E t \in Calls :
          TurnAway(t) \/ Settle(t) \/ HcmAnswers(t) \/ StatementFails(t)

Next == CallStep \/ Crash

(***************************************************************************)
(* The event loop runs every call whose await is over, and every await     *)
(* ends: a statement returns, and an HTTP exchange is answered, refused or *)
(* timed out.  Nothing makes clients call, HCM answer, or failures happen. *)
(***************************************************************************)
Fairness ==
    /\ \A r \in Requests : WF_vars(Reserve(r) \/ Settle(r))
    /\ \A o \in Reviews : WF_vars(Settle(o))

Spec == Init /\ [][Next]_vars /\ Fairness

----------------------------------------------------------------------------
(***************************************************************************)
(* Properties.                                                             *)
(***************************************************************************)

\* Every variable keeps its type.
TypeOK ==
    /\ StoreTypeOK
    /\ HcmTypeOK
    /\ pc \in [Calls -> PC]
    /\ entity \in [Requests -> Balance]
    /\ attempt \in [Requests -> 0 .. MaxRetries - 1]
    /\ returned \in [Requests -> SUBSET Requests]
    /\ posts \subseteq Calls
    /\ replies \subseteq [to : Calls, ok : BOOLEAN]

\* A request shows APPROVED only when HCM approved and deducted that very
\* request, whatever calls, failures and restarts met on the way: no refusal,
\* lost answer or duplicate key ends in markApproved.
ApprovedIsFiled == \A r \in Requests : status[r] = "APPROVED" => r \in filed

\* Two submit calls with one idempotency key are never answered with two
\* different requests, even when both miss the lookup of submit and race to
\* the insert.
SameKeySameRequest ==
    \A a, b \in Requests :
        IdempotencyKey[a] = IdempotencyKey[b] =>
            \A p \in returned[a], q \in returned[b] : p = q

\* HCM deducts the days of each filed request exactly once, although submit
\* and approve both post it and a post may arrive after its call gave up.  Its
\* one rounding, and the rounding of what HCM had used at first, are all that
\* the sum may be off by.
HcmDeductsOnce ==
    \A k \in DOMAIN InitHcm :
        LET F == {r \in filed : BalanceKey[r] = k}
        IN  Near(hcm[k].used, InitHcm[k].used + DaysOf(F),
                 Slack(F) + Inexact(InitHcm[k].used))

\* The save of reserveDays adds its days to the row as it then is, and does
\* not promise more than half of 0.0001 day that the row does not have: the
\* read and the write two awaits apart act as one.
ReservesAtomically ==
    [][\A r \in Requests :
          pc[r] = "save" /\ pc'[r] = "insert" =>
              LET k == BalanceKey[r]
              IN  /\ balance'[k] \in Reserved(balance[k], Days[r])
                  /\ 2 * Available(balance'[k]) + Unit >= 0]_vars

\* The submit calls whose days are held on the balance of k, and those that
\* may have taken or freed them.
Holding(k) ==
    {r \in Requests : /\ BalanceKey[r] = k
                      /\ pc[r] \in {"insert", "post", "call", "confirm",
                                    "release"}}

LetGo(k) ==
    {r \in Requests : BalanceKey[r] = k /\ pc[r] \in {"approve", "close", "done"}}

\* The call of r may have ended between its reservation and its settlement: the
\* service restarted, statements fail, or another call stored its key first.
CutShort(r) ==
    \/ crashes > 0
    \/ DbMayFail
    \/ \E q \in Requests \ {r} : /\ status[q] # "none"
                                 /\ IdempotencyKey[q] = IdempotencyKey[r]

\* The requests whose days such a call may have left held on the balance of k,
\* and which nobody has settled since.
Abandoned(k) ==
    {r \in Requests : /\ BalanceKey[r] = k
                      /\ pc[r] = "done"
                      /\ status[r] \notin Settled
                      /\ CutShort(r)}

\* No review of a request on the balance of k has been made yet.
Unreviewed(k) ==
    \A o \in Reviews : BalanceKey[Target[o]] = k => pc[o] = "idle"

\* reservedDays is, at every step, what it was at first and the days of the
\* submit calls between reserveDays and confirmReservation or
\* releaseReservation.  Nothing more stays behind, reviews, failures and
\* restarts or not, than what calls that were cut short left: it goes when
\* somebody settles the request.  Nothing is lost or given back twice, until a
\* review acts on the balance or a statement fails.  A hold is rounded once
\* when it is made and once when it ends, and the sum is off by no more.
ReservedIsHeld ==
    \A k \in DOMAIN InitBalance :
        LET n     == balance[k].reserved - InitBalance[k].reserved
            slack == Slack(Holding(k)) + 2 * Slack(LetGo(k))
        IN  /\ 2 * (n - DaysOf(Holding(k) \cup Abandoned(k))) <= slack
            /\ ~DbMayFail /\ Unreviewed(k) =>
                   2 * (DaysOf(Holding(k)) - n) <= slack

\* The reserved days are those of the calls that hold some, and nothing else.
OnlyHeldDaysReserved ==
    \A k \in DOMAIN InitBalance :
        Near(balance[k].reserved,
             InitBalance[k].reserved + DaysOf(Holding(k)),
             Slack(Holding(k)) + 2 * Slack(LetGo(k)))

\* The used days, the days held and those reserved at first exceed the total
\* by no more than was lost in rounding: the balance is not overbooked,
\* whatever submit calls interleave and wherever a restart cuts them off.  A
\* review frees or takes days that the submit call of the same request still
\* counts on, so this is about balances that none has touched.
NoOverbooking ==
    \A k \in DOMAIN InitBalance :
        Unreviewed(k) =>
            2 * (balance[k].used + InitBalance[k].reserved + DaysOf(Holding(k))
                    - balance[k].total)
                <= Slack(Holding(k)) + 3 * Slack(LetGo(k))
                     + Inexact(InitBalance[k].used)

\* usedDays counts only days that were filed with HCM, each once, and each
\* rounded once.
UsedIsFiled ==
    \A k \in DOMAIN InitBalance :
        LET F == {r \in filed : BalanceKey[r] = k}
        IN  2 * (balance[k].used - InitBalance[k].used - DaysOf(F))
                <= Slack(F) + Inexact(InitBalance[k].used)

\* The calls that have yet to take or free the days of their request.
Claims ==
    {t \in Calls : pc[t] \in {"insert", "post", "call", "confirm", "release"}}

\* The abstract ledger, with the rows and these calls for its state.
Ledger == INSTANCE LeaveLedger WITH
              InitRow <- InitBalance,
              MayFail <- DbMayFail,
              row     <- balance,
              claims  <- Claims

\* Holding, taking and freeing days act on the row as single steps, and each
\* call gives days back at most once, unless a statement fails: reserveDays,
\* confirmReservation and releaseReservation are an atomic ledger, whatever
\* calls, reviews and restarts interleave.
ImplementsLedger == Ledger!Spec

\* The abstract life of a request, on the same two variables.
Filing == INSTANCE LeaveFiling

\* The status a request shows and what HCM has filed only move as LeaveFiling
\* lets them: stored once per key, filed after that and once per key,
\* approved only when filed, whatever callHcmAsync and the reviews do.
ImplementsFiling == Filing!Spec

\* A submitted request is REJECTED only when HCM refused it (no manager acts
\* and HCM's balances are not raised): HCM still lacks the days, and has not
\* deducted them.
RejectedOnlyByHcm ==
    \A r \in Requests : status[r] = "REJECTED" => ~Covers(r) /\ r \notin filed

\* The available days that toSummary shows a client.
Shown(b) == Rounded(Available(b))

\* reserveDays turns a request down for too few days only when the service
\* shows fewer days available than are asked for.
RefusedOnlyWhenShort ==
    [][\A r \in Requests :
          LET k == BalanceKey[r]
          IN  pc[r] = "reserve" /\ pc'[r] = "done" /\ HasBalance(k) =>
                  \E a \in Shown(balance[k]) : a < Days[r]]_vars

\* Every request that is stored is settled in the end, unless the service
\* restarts meanwhile: no answer of HCM, late, lost or refused, no review and
\* no sync leaves it PENDING or NEEDS_REVALIDATION.
EveryRequestSettles ==
    \A r \in Requests, n \in 0 .. MaxCrashes :
        pc[r] = "post" /\ crashes = n ~>
            status[r] \in Settled \/ crashes > n
=============================================================================
