---------------------- MODULE TimeOffRequests_proofs -----------------------
(***************************************************************************)
(* Theorems about TimeOffRequests, for any requests, reviews, keys, days   *)
(* and initial balances, with and without failing statements, restarts and *)
(* the optimistic lock.                                                    *)
(***************************************************************************)
EXTENDS TimeOffRequests, LeaveDomain_proofs

USE DomainAssumption, StoreAssumption, HcmAssumption, RequestsAssumption

----------------------------------------------------------------------------
(***************************************************************************)
(* Helpers.                                                                *)
(***************************************************************************)

\* The request of a call is a request, and its balance has a key.
LEMMA CallsHaveRequests ==
    ASSUME NEW t \in Calls
    PROVE  /\ Req(t) \in Requests
           /\ BalanceKey[Req(t)] \in Keys
           /\ Days[Req(t)] \in Nat
BY DEF Calls, Req

\* Saving a row keeps the type of the balances table.
LEMMA SaveKeepsType ==
    ASSUME StoreTypeOK, NEW k \in Keys, NEW row, Save(k, row),
           HasBalance(k) => row \in Balance
    PROVE  StoreTypeOK'
BY DEF StoreTypeOK, Save, HasBalance

\* Moving a call on keeps the type of pc.
LEMMA GotoKeepsType ==
    ASSUME pc \in [Calls -> PC], NEW t \in Calls, NEW from, NEW to \in PC,
           Goto(t, from, to)
    PROVE  pc' \in [Calls -> PC]
BY DEF Goto

\* An answer of HCM keeps the type of HCM's state.
LEMMA FilingKeepsType ==
    ASSUME HcmTypeOK, NEW r \in Requests, NEW approved, FileTimeOff(r, approved)
    PROVE  HcmTypeOK'
<1> DEFINE k == BalanceKey[r]
<1>1. CASE UNCHANGED hcmVars
  BY <1>1 DEF HcmTypeOK, hcmVars
<1>2. CASE /\ Covers(r)
           /\ \E m \in Rounded(hcm[k].used + Days[r]) :
                 hcm' = [hcm EXCEPT ![k].used = m]
           /\ filed' = filed \cup {r}
  <2>1. PICK m \in Rounded(hcm[k].used + Days[r]) :
           hcm' = [hcm EXCEPT ![k].used = m]
    BY <1>2
  <2>2. k \in DOMAIN hcm
    BY <1>2 DEF Covers
  <2>3. hcm[k] \in HcmBalance
    BY <2>2 DEF HcmTypeOK
  <2>4. m \in Nat
    BY <2>3, RoundedIsNatural DEF HcmBalance
  <2>5. [hcm[k] EXCEPT !.used = m] \in HcmBalance
    BY <2>3, <2>4 DEF HcmBalance
  <2>6. /\ DOMAIN hcm' = DOMAIN hcm
        /\ hcm' \in [DOMAIN hcm -> HcmBalance]
    BY <2>1, <2>5 DEF HcmTypeOK
  <2>7. QED
    BY <1>2, <2>6 DEF HcmTypeOK
<1>3. QED
  BY <1>1, <1>2 DEF FileTimeOff
----------------------------------------------------------------------------
(***************************************************************************)
(* Type correctness.                                                       *)
(***************************************************************************)

\* The calls of a client up to the insert keep the types.
LEMMA SubmitKeepsType ==
    ASSUME TypeOK, NEW r \in Requests, Submit(r) \/ Reserve(r)
    PROVE  TypeOK'
<1> DEFINE k == BalanceKey[r]
<1> r \in Calls /\ k \in Keys /\ Days[r] \in Nat
  BY DEF Calls
<1> USE DEF TypeOK
<1>1. CASE ReturnExisting(r)
  BY <1>1, GotoKeepsType DEF ReturnExisting, PC, StoreTypeOK, HcmTypeOK,
     storeVars, hcmVars, netVars
<1>2. CASE Validate(r)
  BY <1>2, GotoKeepsType DEF Validate, PC, StoreTypeOK, HcmTypeOK,
     storeVars, hcmVars, netVars
<1>3. CASE ReadBalance(r)
  <2>1. entity' \in [Requests -> Balance]
    BY <1>3 DEF ReadBalance, HasBalance, StoreTypeOK
  <2>2. StoreTypeOK'
    BY <1>3 DEF ReadBalance, Read, StoreTypeOK
  <2>3. QED
    BY <1>3, <2>1, <2>2, GotoKeepsType DEF ReadBalance, PC, HcmTypeOK,
       hcmVars, netVars
<1>4. CASE RefuseReservation(r)
  BY <1>4, GotoKeepsType DEF RefuseReservation, PC, StoreTypeOK, HcmTypeOK,
     storeVars, hcmVars, netVars
<1>5. CASE SaveReservation(r)
  <2>1. PICK row \in Reserved(entity[r], Days[r]) : Save(k, row)
    BY <1>5 DEF SaveReservation, SaveUnchecked
  <2>2. StoreTypeOK'
    BY <2>1, SaveKeepsType, RowArithmetic
  <2>3. NoEntity \in Balance
    BY DEF NoEntity, Balance
  <2>4. QED
    BY <1>5, <2>2, <2>3, GotoKeepsType DEF SaveReservation, SaveUnchecked, PC,
       HcmTypeOK, hcmVars, netVars
<1>6. CASE LockConflict(r)
  <2>1. attempt' \in [Requests -> 0 .. MaxRetries - 1]
    BY <1>6 DEF LockConflict
  <2>2. NoEntity \in Balance
    BY DEF NoEntity, Balance
  <2>3. pc' \in [Calls -> PC]
    BY <1>6, GotoKeepsType DEF LockConflict, PC
  <2>4. QED
    BY <1>6, <2>1, <2>2, <2>3 DEF LockConflict, StoreTypeOK, HcmTypeOK,
       storeVars, hcmVars, netVars
<1>7. CASE InsertRequest(r)
  <2>1. StoreTypeOK'
    BY <1>7 DEF InsertRequest, InsertUnindexed, SetStatus, StoreTypeOK,
       Status, RowStatus
  <2>2. QED
    BY <1>7, <2>1, GotoKeepsType DEF InsertRequest, InsertUnindexed, PC,
       HcmTypeOK, hcmVars, netVars
<1>8. CASE InsertRefused(r)
  BY <1>8, GotoKeepsType DEF InsertRefused, PC, StoreTypeOK, HcmTypeOK,
     storeVars, hcmVars, netVars
<1>9. QED
  BY <1>1, <1>2, <1>3, <1>4, <1>5, <1>6, <1>7, <1>8 DEF Submit, Reserve

\* The reviews keep the types.
LEMMA ReviewKeepsType ==
    ASSUME TypeOK, NEW o \in Reviews, Review(o)
    PROVE  TypeOK'
<1>1. o \in Calls
  BY DEF Calls
<1>2. pc' \in [Calls -> PC]
  BY <1>1, GotoKeepsType DEF Review, Approve, Reject, Cancel, RefuseReview, TypeOK, PC
<1>3. QED
  BY <1>2 DEF Review, Approve, Reject, Cancel, RefuseReview, TypeOK, StoreTypeOK, HcmTypeOK,
     storeVars, hcmVars, netVars

\* The call to HCM and what follows it keep the types.
LEMMA SettleKeepsType ==
    ASSUME TypeOK, NEW t \in Calls, Settle(t)
    PROVE  TypeOK'
<1> DEFINE k == BalanceKey[Req(t)]
<1> Req(t) \in Requests /\ k \in Keys /\ Days[Req(t)] \in Nat
  BY CallsHaveRequests
<1> USE DEF TypeOK
<1>1. CASE PostToHcm(t)
  BY <1>1, GotoKeepsType DEF PostToHcm, PC, StoreTypeOK, HcmTypeOK,
     storeVars, hcmVars
<1>2. CASE HcmReplies(t)
  <2>1. PICK m \in replies : /\ Goto(t, "call", IF m.ok THEN "confirm"
                                                      ELSE "release")
                             /\ replies' = replies \ {m}
    BY <1>2 DEF HcmReplies
  <2>2. pc' \in [Calls -> PC]
    BY <2>1, GotoKeepsType DEF PC
  <2>3. QED
    BY <1>2, <2>1, <2>2 DEF HcmReplies, StoreTypeOK, HcmTypeOK, storeVars,
       hcmVars
<1>3. CASE CallFails(t)
  BY <1>3, GotoKeepsType DEF CallFails, PC, StoreTypeOK, HcmTypeOK,
     storeVars, hcmVars
<1>4. CASE ConfirmReservation(t)
  <2>1. HasBalance(k) => Confirmed(balance[k], Days[Req(t)]) \subseteq Balance
    BY RowArithmetic DEF HasBalance, StoreTypeOK
  <2>2. PICK row \in Confirmed(balance[k], Days[Req(t)]) : Save(k, row)
    BY <1>4 DEF ConfirmReservation
  <2>3. StoreTypeOK'
    BY <2>1, <2>2, SaveKeepsType
  <2>4. QED
    BY <1>4, <2>3, GotoKeepsType DEF ConfirmReservation, PC, HcmTypeOK,
       hcmVars, netVars
<1>5. CASE ReleaseReservation(t)
  <2>1. HasBalance(k) => Released(balance[k], Days[Req(t)]) \subseteq Balance
    BY RowArithmetic DEF HasBalance, StoreTypeOK
  <2>2. PICK row \in Released(balance[k], Days[Req(t)]) : Save(k, row)
    BY <1>5 DEF ReleaseReservation
  <2>3. StoreTypeOK'
    BY <2>1, <2>2, SaveKeepsType
  <2>4. QED
    BY <1>5, <2>3, GotoKeepsType DEF ReleaseReservation, PC, HcmTypeOK,
       hcmVars, netVars
<1>6. CASE MarkApproved(t) \/ Close(t)
  <2>1. StoreTypeOK'
    BY <1>6 DEF MarkApproved, Close, SetStatus, StoreTypeOK, Status,
       RowStatus, Settled
  <2>2. pc' \in [Calls -> PC]
    BY <1>6, GotoKeepsType DEF MarkApproved, Close, PC
  <2>3. QED
    BY <1>6, <2>1, <2>2 DEF MarkApproved, Close, HcmTypeOK, hcmVars, netVars
<1>7. QED
  BY <1>1, <1>2, <1>3, <1>4, <1>5, <1>6 DEF Settle

\* HCM's answers keep the types.
LEMMA AnswerKeepsType ==
    ASSUME TypeOK, NEW t \in Calls, HcmAnswers(t)
    PROVE  TypeOK'
<1>1. PICK approved \in BOOLEAN :
         /\ FileTimeOff(Req(t), approved)
         /\ replies' \subseteq replies \cup {[to |-> t, ok |-> approved]}
  BY DEF HcmAnswers
<1>2. HcmTypeOK'
  BY <1>1, FilingKeepsType, CallsHaveRequests DEF TypeOK
<1>3. replies' \subseteq [to : Calls, ok : BOOLEAN]
  BY <1>1 DEF TypeOK
<1>4. QED
  BY <1>2, <1>3 DEF TypeOK, HcmAnswers, StoreTypeOK, storeVars, callVars

\* Callers turned away, failing statements and restarts keep the types.
LEMMA FailureKeepsType ==
    ASSUME TypeOK, Crash \/ \E t \in Calls : TurnAway(t) \/ StatementFails(t)
    PROVE  TypeOK'
<1>1. CASE Crash
  <2>1. StoreTypeOK'
    BY <1>1 DEF TypeOK, Crash, StoreCrash, StoreTypeOK
  <2>2. pc' \in [Calls -> PC]
    BY <1>1 DEF Crash, PC
  <2>3. /\ entity' \in [Requests -> Balance]
        /\ attempt' \in [Requests -> 0 .. MaxRetries - 1]
    BY <1>1 DEF Crash, NoEntity, Balance
  <2>4. QED
    BY <1>1, <2>1, <2>2, <2>3 DEF TypeOK, Crash, HcmTypeOK, hcmVars
<1>2. CASE \E t \in Calls : TurnAway(t) \/ StatementFails(t)
  <2>1. pc' \in [Calls -> PC]
    BY <1>2, GotoKeepsType DEF TypeOK, TurnAway, StatementFails, PC
  <2>2. QED
    BY <1>2, <2>1 DEF TypeOK, TurnAway, StatementFails, StoreTypeOK, HcmTypeOK,
       storeVars, hcmVars, netVars
<1>3. QED
  BY <1>1, <1>2

\* The tables, HCM and the calls have their types at first.
LEMMA InitTypeOK ==
    ASSUME Init
    PROVE  TypeOK
BY DEF Init, StoreInit, HcmInit, TypeOK, StoreTypeOK, HcmTypeOK, PC,
   NoEntity, Balance, Status

\* Whatever a call does, and a restart, keep the types.
LEMMA CallStepKeepsType ==
    ASSUME TypeOK, CallStep \/ Crash
    PROVE  TypeOK'
BY SubmitKeepsType, ReviewKeepsType, SettleKeepsType, AnswerKeepsType,
   FailureKeepsType DEF CallStep

\* Every variable keeps its type, whatever calls interleave, fail or are cut
\* off by a restart: no balance column goes below zero, no call leaves the
\* steps of its handler, no retry counter passes MaxRetries.
THEOREM TypeCorrect == Spec => []TypeOK
<1>1. Init => TypeOK
  BY InitTypeOK
<1>2. TypeOK /\ [Next]_vars => TypeOK'
  <2> SUFFICES ASSUME TypeOK, [Next]_vars
               PROVE  TypeOK'
    OBVIOUS
  <2>1. CASE UNCHANGED vars
    BY <2>1 DEF TypeOK, StoreTypeOK, HcmTypeOK, vars, storeVars, hcmVars,
       callVars, netVars
  <2>2. CASE CallStep \/ Crash
    BY <2>2, CallStepKeepsType
  <2>3. QED
    BY <2>1, <2>2 DEF Next
<1>3. QED
  BY <1>1, <1>2, PTL DEF Spec
----------------------------------------------------------------------------
(***************************************************************************)
(* The inductive invariant behind the safety properties.  HCM answers a    *)
(* post with APPROVED either because it files the request or because a     *)
(* filing has the same key; in the second case the filing is that very     *)
(* request only because posts are made for stored requests, whose keys the *)
(* unique index keeps apart.                                               *)
(***************************************************************************)

Stored(r) == status[r] # "none"

\* The steps of a call that follow the insert.
AfterInsert == {"post", "call", "confirm", "approve", "release", "close"}

\* The unique index.
UniqueKeys ==
    \A q, r \in Requests :
        /\ Stored(q) /\ Stored(r)
        /\ IdempotencyKey[q] = IdempotencyKey[r]
        => q = r

\* A call past the insert, or whose post is on its way, is about a stored
\* request.
CallsAreStored ==
    \A t \in Calls : pc[t] \in AfterInsert \/ t \in posts => Stored(Req(t))

FiledAreStored == \A r \in filed : Stored(r)

\* An approval on its way, or being carried out, is of a filed request.
ApprovalsAreFiled ==
    /\ \A m \in replies : m.ok => Req(m.to) \in filed
    /\ \A t \in Calls : pc[t] \in {"confirm", "approve"} => Req(t) \in filed

\* A client is answered with a stored request of its own key.
AnswersAreStored ==
    \A a \in Requests : \A q \in returned[a] :
        Stored(q) /\ IdempotencyKey[q] = IdempotencyKey[a]

IInv ==
    /\ TypeOK
    /\ UniqueKeys
    /\ CallsAreStored
    /\ FiledAreStored
    /\ ApprovalsAreFiled
    /\ ApprovedIsFiled
    /\ AnswersAreStored

\* The reader of reserveDays whose entity is still current knows the row.
CurrentEntities ==
    \A r \in Requests :
        LET k == BalanceKey[r]
        IN  pc[r] = "save" /\ r \in fresh[k] =>
                /\ HasBalance(k)
                /\ entity[r] = balance[k]
                /\ Available(balance[k]) >= Days[r]

\* Most steps only move one call on: they store and file nothing, answer no
\* client, and at most lose answers or add the call's own post.
LEMMA CallMovesOn ==
    ASSUME IInv, TypeOK', NEW t \in Calls, NEW to,
           pc' = [pc EXCEPT ![t] = to],
           to \in AfterInsert => Stored(Req(t)),
           to \in {"confirm", "approve"} => Req(t) \in filed,
           UNCHANGED <<status, filed, returned>>,
           \A u \in posts' : u \in posts \/ (u = t /\ Stored(Req(t))),
           replies' \subseteq replies
    PROVE  IInv'
<1> USE DEF IInv
<1>1. \A u \in Calls : pc'[u] = IF u = t THEN to ELSE pc[u]
  BY DEF TypeOK
<1>2. UniqueKeys' /\ FiledAreStored' /\ ApprovedIsFiled'
  BY DEF UniqueKeys, FiledAreStored, ApprovedIsFiled, Stored
<1>3. CallsAreStored'
  BY <1>1 DEF CallsAreStored, Stored, Req
<1>4. ApprovalsAreFiled'
  BY <1>1 DEF ApprovalsAreFiled, Req
<1>5. AnswersAreStored'
  BY DEF AnswersAreStored, Stored
<1>6. QED
  BY <1>2, <1>3, <1>4, <1>5

\* The steps of a submit call.
LEMMA SubmitKeepsIInv ==
    ASSUME IInv, TypeOK', NEW r \in Requests, Submit(r) \/ Reserve(r)
    PROVE  IInv'
<1>0. r \in Calls /\ Req(r) = r
  BY DEF Calls, Req
<1>1. CASE ReturnExisting(r)
  <2>1. PICK q \in Requests : /\ Stored(q)
                              /\ IdempotencyKey[q] = IdempotencyKey[r]
                              /\ returned' = [returned EXCEPT ![r] = {q}]
    BY <1>1 DEF ReturnExisting, Stored
  <2>2. pc' = [pc EXCEPT ![r] = "done"] /\ UNCHANGED <<status, filed, posts, replies>>
    BY <1>1 DEF ReturnExisting, Goto, storeVars, hcmVars, netVars
  <2>3. AnswersAreStored'
    BY <2>1, <2>2 DEF IInv, TypeOK, AnswersAreStored, Stored
  <2>4. CallsAreStored' /\ ApprovalsAreFiled'
    BY <2>2 DEF IInv, TypeOK, CallsAreStored, ApprovalsAreFiled, Stored, Req,
       AfterInsert
  <2>5. QED
    BY <2>2, <2>3, <2>4 DEF IInv, UniqueKeys, FiledAreStored,
       ApprovedIsFiled, Stored
<1>2. CASE InsertRequest(r)
  <2>1. /\ pc' = [pc EXCEPT ![r] = "post"]
        /\ status' = [status EXCEPT ![r] = "PENDING"]
        /\ returned' = [returned EXCEPT ![r] = {r}]
        /\ UNCHANGED <<filed, posts, replies>>
    BY <1>2 DEF InsertRequest, InsertUnindexed, SetStatus, Goto, hcmVars, netVars
  <2>2. \A q \in Requests : Stored(q)' <=> Stored(q) \/ q = r
    BY <2>1 DEF Stored, IInv, TypeOK, StoreTypeOK
  <2>3. UniqueKeys'
    BY <1>2, <2>2 DEF InsertRequest, KeyTaken, IInv, UniqueKeys, Stored
  <2>4. CallsAreStored'
    BY <1>0, <2>1, <2>2, CallsHaveRequests DEF IInv, TypeOK, CallsAreStored, Req
  <2>5. FiledAreStored'
    BY <2>1, <2>2 DEF IInv, TypeOK, HcmTypeOK, FiledAreStored
  <2>6. ApprovalsAreFiled' /\ ApprovedIsFiled'
    BY <2>1 DEF IInv, TypeOK, StoreTypeOK, ApprovalsAreFiled,
       ApprovedIsFiled, Req
  <2>7. AnswersAreStored'
    BY <2>1, <2>2 DEF IInv, TypeOK, AnswersAreStored
  <2>8. QED
    BY <2>3, <2>4, <2>5, <2>6, <2>7 DEF IInv
<1>3. CASE \/ Validate(r) \/ ReadBalance(r) \/ RefuseReservation(r)
           \/ SaveReservation(r) \/ LockConflict(r) \/ InsertRefused(r)
  <2>1. PICK to \in {"reserve", "save", "insert", "done"} :
           pc' = [pc EXCEPT ![r] = to]
    BY <1>3 DEF Validate, ReadBalance, RefuseReservation, SaveReservation,
       SaveUnchecked, LockConflict, InsertRefused, Goto
  <2>2. UNCHANGED <<status, filed, returned, posts, replies>>
    BY <1>3 DEF Validate, ReadBalance, RefuseReservation, SaveReservation,
       SaveUnchecked, LockConflict, InsertRefused, Read, Save, storeVars,
       hcmVars, netVars
  <2>3. QED
    BY <1>0, <2>1, <2>2, CallMovesOn DEF AfterInsert
<1>4. QED
  BY <1>1, <1>2, <1>3 DEF Submit, Reserve

\* A review starts for a stored request.
LEMMA ReviewKeepsIInv ==
    ASSUME IInv, TypeOK', NEW o \in Reviews, Review(o)
    PROVE  IInv'
<1>1. o \in Calls /\ Req(o) = Target[o]
  BY DEF Calls, Req
<1>2. PICK to \in {"post", "release", "done"} :
         /\ pc' = [pc EXCEPT ![o] = to]
         /\ to # "done" => Stored(Req(o))
  BY <1>1 DEF Review, Approve, Reject, Cancel, RefuseReview, Reviewable, Goto,
     Stored
<1>3. UNCHANGED <<status, filed, returned, posts, replies>>
  BY DEF Review, Approve, Reject, Cancel, RefuseReview, storeVars, hcmVars, netVars
<1>4. QED
  BY <1>1, <1>2, <1>3, CallMovesOn DEF AfterInsert

\* A call past the insert goes on.
LEMMA SettleKeepsIInv ==
    ASSUME IInv, TypeOK', NEW t \in Calls, Settle(t)
    PROVE  IInv'
<1>0. Req(t) \in Requests
  BY CallsHaveRequests
<1>1. Stored(Req(t))
  BY DEF Settle, PostToHcm, HcmReplies, CallFails, ConfirmReservation,
     MarkApproved, ReleaseReservation, Close, Goto, IInv, CallsAreStored,
     AfterInsert
<1>2. CASE PostToHcm(t)
  <2>1. pc' = [pc EXCEPT ![t] = "call"]
    BY <1>2 DEF PostToHcm, Goto
  <2>2. /\ UNCHANGED <<status, filed, returned, replies>>
        /\ \A u \in posts' : u \in posts \/ u = t
    BY <1>2 DEF PostToHcm, storeVars, hcmVars
  <2>3. QED
    BY <1>1, <2>1, <2>2, CallMovesOn
<1>3. CASE HcmReplies(t)
  <2>1. PICK m \in replies :
           /\ m.to = t
           /\ pc' = [pc EXCEPT ![t] = IF m.ok THEN "confirm" ELSE "release"]
           /\ replies' = replies \ {m}
    BY <1>3 DEF HcmReplies, Goto
  <2>2. UNCHANGED <<status, filed, returned, posts>>
    BY <1>3 DEF HcmReplies, storeVars, hcmVars
  <2>3. m.ok => Req(t) \in filed
    BY <2>1 DEF IInv, ApprovalsAreFiled
  <2>4. QED
    BY <1>1, <2>1, <2>2, <2>3, CallMovesOn
<1>4. CASE CallFails(t)
  <2>1. pc' = [pc EXCEPT ![t] = "release"] /\ replies' \subseteq replies
    BY <1>4 DEF CallFails, Goto
  <2>2. UNCHANGED <<status, filed, returned, posts>>
    BY <1>4 DEF CallFails, storeVars, hcmVars
  <2>3. QED
    BY <1>1, <2>1, <2>2, CallMovesOn
<1>5. CASE ConfirmReservation(t) \/ ReleaseReservation(t)
  <2>1. PICK to \in {"approve", "close"} :
           /\ pc' = [pc EXCEPT ![t] = to]
           /\ to = "approve" => pc[t] = "confirm"
    BY <1>5 DEF ConfirmReservation, ReleaseReservation, Goto
  <2>2. UNCHANGED <<status, filed, returned, posts, replies>>
    BY <1>5 DEF ConfirmReservation, ReleaseReservation, Save, hcmVars, netVars
  <2>3. to \in {"confirm", "approve"} => Req(t) \in filed
    BY <2>1 DEF IInv, ApprovalsAreFiled
  <2>4. QED
    BY <1>1, <2>1, <2>2, <2>3, CallMovesOn
<1>6. CASE MarkApproved(t) \/ Close(t)
  <2>1. PICK s \in Settled : /\ status' = [status EXCEPT ![Req(t)] = s]
                             /\ s = "APPROVED" => pc[t] = "approve"
    BY <1>6 DEF MarkApproved, Close, SetStatus, Settled, Goto
  <2>2. /\ pc' = [pc EXCEPT ![t] = "done"]
        /\ UNCHANGED <<filed, returned, posts, replies>>
    BY <1>6 DEF MarkApproved, Close, Goto, hcmVars, netVars
  <2>3. \A q \in Requests : Stored(q)' <=> Stored(q)
    BY <1>0, <1>1, <2>1 DEF Stored, IInv, TypeOK, StoreTypeOK, Settled
  <2>4. UniqueKeys'
    BY <2>3 DEF IInv, UniqueKeys
  <2>5. CallsAreStored'
    BY <2>2, <2>3, CallsHaveRequests DEF IInv, TypeOK, CallsAreStored,
       AfterInsert, Req
  <2>6. FiledAreStored'
    BY <2>2, <2>3 DEF IInv, TypeOK, HcmTypeOK, FiledAreStored
  <2>7. ApprovedIsFiled'
    BY <2>1, <2>2 DEF IInv, TypeOK, StoreTypeOK, ApprovalsAreFiled,
       ApprovedIsFiled, Settled
  <2>8. ApprovalsAreFiled'
    BY <2>2 DEF IInv, TypeOK, ApprovalsAreFiled, Req
  <2>9. AnswersAreStored'
    BY <2>2, <2>3 DEF IInv, TypeOK, AnswersAreStored
  <2>10. QED
    BY <2>4, <2>5, <2>6, <2>7, <2>8, <2>9 DEF IInv
<1>7. QED
  BY <1>2, <1>3, <1>4, <1>5, <1>6 DEF Settle
\* An APPROVED answer is about a filed request: HCM has just filed it, or it
\* filed a request of the same key, and no other stored request has that key.
LEMMA ApprovalMeansFiled ==
    ASSUME IInv, NEW t \in Calls, HcmAnswers(t), FileTimeOff(Req(t), TRUE)
    PROVE  Req(t) \in filed'
<1>1. Req(t) \in Requests /\ Stored(Req(t))
  BY CallsHaveRequests DEF HcmAnswers, IInv, CallsAreStored
<1>2. CASE AlreadyFiled(Req(t))
  <2>1. PICK q \in filed : IdempotencyKey[q] = IdempotencyKey[Req(t)]
    BY <1>2 DEF AlreadyFiled
  <2>2. q \in Requests /\ Stored(q)
    BY DEF IInv, FiledAreStored, TypeOK, HcmTypeOK
  <2>3. q = Req(t)
    BY <1>1, <2>1, <2>2 DEF IInv, UniqueKeys
  <2>4. filed' = filed
    BY <1>2 DEF FileTimeOff, hcmVars
  <2>5. QED
    BY <2>3, <2>4
<1>3. CASE ~AlreadyFiled(Req(t))
  BY <1>3 DEF FileTimeOff
<1>4. QED
  BY <1>2, <1>3

LEMMA AnswerKeepsIInv ==
    ASSUME IInv, TypeOK', NEW t \in Calls, HcmAnswers(t)
    PROVE  IInv'
<1>1. Req(t) \in Requests /\ Stored(Req(t))
  BY CallsHaveRequests DEF HcmAnswers, IInv, CallsAreStored
<1>2. /\ UNCHANGED <<status, pc, returned>>
      /\ posts' \subseteq posts
  BY DEF HcmAnswers, storeVars, callVars
<1>3. filed \subseteq filed' /\ filed' \subseteq filed \cup {Req(t)}
  BY DEF HcmAnswers, FileTimeOff, hcmVars
<1>4. UniqueKeys' /\ CallsAreStored' /\ AnswersAreStored'
  BY <1>2 DEF IInv, UniqueKeys, CallsAreStored, AnswersAreStored, Stored, Req
<1>5. FiledAreStored'
  BY <1>1, <1>2, <1>3 DEF IInv, FiledAreStored, Stored
<1>6. ApprovedIsFiled'
  BY <1>2, <1>3 DEF IInv, ApprovedIsFiled
<1>7. ApprovalsAreFiled'
  <2>1. ASSUME NEW m \in replies', m.ok
        PROVE  Req(m.to) \in filed'
    <3>1. CASE m \in replies
      BY <1>3, <2>1, <3>1 DEF IInv, ApprovalsAreFiled
    <3>2. CASE m \notin replies
      <4>1. PICK approved \in BOOLEAN :
               /\ FileTimeOff(Req(t), approved)
               /\ m = [to |-> t, ok |-> approved]
        BY <3>2 DEF HcmAnswers
      <4>2. m.to = t /\ FileTimeOff(Req(t), TRUE)
        BY <2>1, <4>1
      <4>3. QED
        BY <4>2, ApprovalMeansFiled
    <3>3. QED
      BY <3>1, <3>2
  <2>2. QED
    BY <1>2, <1>3, <2>1 DEF IInv, ApprovalsAreFiled, Req
<1>8. QED
  BY <1>4, <1>5, <1>6, <1>7 DEF IInv

\* Callers turned away, failing statements and restarts.
LEMMA FailureKeepsIInv ==
    ASSUME IInv, TypeOK',
           Crash \/ \E t \in Calls : TurnAway(t) \/ StatementFails(t)
    PROVE  IInv'
<1>1. CASE Crash
  <2>1. /\ UNCHANGED <<status, filed, returned, posts>>
        /\ replies' = {}
        /\ \A t \in Calls : pc'[t] \in {"idle", "done"}
    BY <1>1 DEF Crash, StoreCrash, hcmVars
  <2>2. QED
    BY <2>1 DEF IInv, UniqueKeys, CallsAreStored, FiledAreStored,
       ApprovalsAreFiled, ApprovedIsFiled, AnswersAreStored, Stored, Req,
       AfterInsert
<1>2. CASE \E t \in Calls : TurnAway(t) \/ StatementFails(t)
  <2>1. PICK t \in Calls : TurnAway(t) \/ StatementFails(t)
    BY <1>2
  <2>2. PICK to \in {"release", "done"} :
           /\ pc' = [pc EXCEPT ![t] = to]
           /\ to = "release" => pc[t] \in {"confirm", "approve"}
    BY <2>1 DEF TurnAway, StatementFails, Goto
  <2>3. UNCHANGED <<status, filed, returned, posts, replies>>
    BY <2>1 DEF TurnAway, StatementFails, storeVars, hcmVars, netVars
  <2>4. to \in AfterInsert => Stored(Req(t))
    BY <2>2 DEF IInv, CallsAreStored, AfterInsert
  <2>5. QED
    BY <2>2, <2>3, <2>4, CallMovesOn
<1>3. QED
  BY <1>1, <1>2

\* The invariant holds at first.
LEMMA InitIInv ==
    ASSUME Init
    PROVE  IInv
BY InitTypeOK DEF Init, StoreInit, HcmInit, IInv, UniqueKeys, CallsAreStored,
   FiledAreStored, ApprovalsAreFiled, ApprovedIsFiled, AnswersAreStored,
   Stored, AfterInsert, Req, Calls

\* Whatever a call does, and a restart, keep the invariant.
LEMMA CallStepKeepsIInv ==
    ASSUME IInv, CallStep \/ Crash
    PROVE  IInv'
<1>1. TypeOK'
  BY CallStepKeepsType DEF IInv
<1>2. QED
  BY <1>1, SubmitKeepsIInv, ReviewKeepsIInv, SettleKeepsIInv, AnswerKeepsIInv,
     FailureKeepsIInv DEF CallStep

\* So does every step, and no step.
LEMMA StepKeepsIInv ==
    ASSUME IInv, [Next]_vars
    PROVE  IInv'
<1>1. CASE UNCHANGED vars
  BY <1>1 DEF IInv, UniqueKeys, CallsAreStored, FiledAreStored,
     ApprovalsAreFiled, ApprovedIsFiled, AnswersAreStored, Stored, Req,
     TypeOK, StoreTypeOK, HcmTypeOK, vars, storeVars, hcmVars, callVars,
     netVars
<1>2. CASE CallStep \/ Crash
  BY <1>2, CallStepKeepsIInv
<1>3. QED
  BY <1>1, <1>2 DEF Next

\* The invariant is inductive.
THEOREM Inductive == Spec => []IInv
<1>1. Init => IInv
  BY InitIInv
<1>2. IInv /\ [Next]_vars => IInv'
  BY StepKeepsIInv
<1>3. QED
  BY <1>1, <1>2, PTL DEF Spec

\* A request shows APPROVED only when HCM filed that very request: no lost,
\* refused or repeated answer, no failing statement and no restart makes an
\* approval out of anything else.
THEOREM ApprovedRequestsAreFiled == Spec => []ApprovedIsFiled
<1>1. IInv => ApprovedIsFiled
  BY DEF IInv
<1>2. QED
  BY <1>1, Inductive, PTL

\* However often a client sends its request, with one key, and however the
\* calls race, it is answered with one request.
THEOREM OneRequestPerKey == Spec => []SameKeySameRequest
<1>1. IInv => SameKeySameRequest
  <2> SUFFICES ASSUME IInv,
                      NEW a \in Requests, NEW b \in Requests,
                      IdempotencyKey[a] = IdempotencyKey[b],
                      NEW p \in returned[a], NEW q \in returned[b]
               PROVE  p = q
    BY DEF SameKeySameRequest
  <2>1. /\ p \in Requests /\ Stored(p) /\ IdempotencyKey[p] = IdempotencyKey[a]
        /\ q \in Requests /\ Stored(q) /\ IdempotencyKey[q] = IdempotencyKey[b]
    BY DEF IInv, TypeOK, AnswersAreStored
  <2>2. QED
    BY <2>1 DEF IInv, UniqueKeys
<1>2. QED
  BY <1>1, Inductive, PTL
----------------------------------------------------------------------------
(***************************************************************************)
(* The service implements LeaveFiling: every step stores, files, approves  *)
(* or closes one request as LeaveFiling lets it, or leaves both variables. *)
(***************************************************************************)

\* HCM files a stored request, under a key it has not filed, or nothing.
LEMMA AnswerFiles ==
    ASSUME IInv, NEW t \in Calls, HcmAnswers(t)
    PROVE  Filing!File(Req(t)) \/ UNCHANGED <<status, filed>>
<1>1. /\ status' = status
      /\ \E approved \in BOOLEAN : FileTimeOff(Req(t), approved)
  BY DEF HcmAnswers, storeVars
<1>2. Stored(Req(t))
  BY DEF HcmAnswers, IInv, CallsAreStored
<1>3. QED
  BY <1>1, <1>2 DEF FileTimeOff, AlreadyFiled, hcmVars, Filing!File, Stored

\* A step of a call is a step of LeaveFiling.
LEMMA CallStepFiles ==
    ASSUME IInv, CallStep
    PROVE  Filing!Next \/ UNCHANGED <<status, filed>>
<1>1. ASSUME NEW r \in Requests, Submit(r) \/ Reserve(r)
      PROVE  Filing!Store(r) \/ UNCHANGED <<status, filed>>
  <2>1. CASE InsertRequest(r)
    BY <2>1 DEF InsertRequest, InsertUnindexed, SetStatus, KeyTaken, hcmVars,
       Filing!Store, Filing!SetTo
  <2>2. CASE ~InsertRequest(r)
    BY <1>1, <2>2 DEF Submit, Reserve, ReturnExisting, Validate, ReadBalance,
       RefuseReservation, SaveReservation, SaveUnchecked, LockConflict,
       InsertRefused, Read, Save, storeVars, hcmVars
  <2>3. QED
    BY <2>1, <2>2
<1>2. ASSUME NEW o \in Reviews, Review(o)
      PROVE  UNCHANGED <<status, filed>>
  BY <1>2 DEF Review, Approve, Reject, Cancel, RefuseReview, storeVars, hcmVars
<1>3. ASSUME NEW t \in Calls, Settle(t)
      PROVE  \/ Filing!Approve(Req(t))
             \/ Filing!Close(Req(t))
             \/ UNCHANGED <<status, filed>>
  <2>1. CASE MarkApproved(t)
    BY <2>1 DEF MarkApproved, Goto, SetStatus, hcmVars, IInv,
       ApprovalsAreFiled, Filing!Approve, Filing!SetTo
  <2>2. CASE Close(t)
    <3>1. Stored(Req(t))
      BY <2>2 DEF Close, Goto, IInv, CallsAreStored, AfterInsert
    <3>2. QED
      BY <2>2, <3>1 DEF Close, SetStatus, hcmVars, Stored, Filing!Close,
         Filing!SetTo
  <2>3. CASE ~MarkApproved(t) /\ ~Close(t)
    BY <1>3, <2>3 DEF Settle, PostToHcm, HcmReplies, CallFails,
       ConfirmReservation, ReleaseReservation, Save, storeVars, hcmVars
  <2>4. QED
    BY <2>1, <2>2, <2>3
<1>4. ASSUME NEW t \in Calls, TurnAway(t) \/ StatementFails(t)
      PROVE  UNCHANGED <<status, filed>>
  BY <1>4 DEF TurnAway, StatementFails, storeVars, hcmVars
<1>5. QED
  BY <1>1, <1>2, <1>3, <1>4, AnswerFiles, CallsHaveRequests
     DEF CallStep, Filing!Next

\* The status of every request and HCM's filings move only as LeaveFiling
\* says, whatever calls interleave, fail or are cut off.
THEOREM ServiceImplementsFiling == Spec => ImplementsFiling
<1>1. Init => Filing!Init
  BY DEF Init, StoreInit, HcmInit, Filing!Init
<1>2. IInv /\ [Next]_vars => [Filing!Next]_<<status, filed>>
  <2> SUFFICES ASSUME IInv, [Next]_vars
               PROVE  Filing!Next \/ UNCHANGED <<status, filed>>
    OBVIOUS
  <2>1. CASE UNCHANGED vars
    BY <2>1 DEF vars, storeVars, hcmVars
  <2>2. CASE CallStep
    BY <2>2, CallStepFiles
  <2>3. CASE Crash
    BY <2>3 DEF Crash, StoreCrash, hcmVars
  <2>4. QED
    BY <2>1, <2>2, <2>3 DEF Next
<1>3. QED
  BY <1>1, <1>2, Inductive, PTL DEF Spec, ImplementsFiling, Filing!Spec

----------------------------------------------------------------------------
(***************************************************************************)
(* What the optimistic lock buys.                                          *)
(***************************************************************************)

\* Row k, and who holds its current version, are left alone, or nobody holds
\* it any more.
Undisturbed(k) ==
    \/ fresh'[k] = {}
    \/ /\ fresh'[k] = fresh[k]
       /\ k \in DOMAIN balance' <=> k \in DOMAIN balance
       /\ k \in DOMAIN balance => balance'[k] = balance[k]

\* A save makes every reader of its row stale, unless it changes nothing.
LEMMA SaveUndisturbed ==
    ASSUME TypeOK, NEW k \in Keys, NEW row, Save(k, row), NEW j \in Keys
    PROVE  Undisturbed(j)
BY DEF TypeOK, StoreTypeOK, Save, Undisturbed

\* Steps that read no balance for a reservation.
LEMMA OtherStepsKeepCurrent ==
    ASSUME TypeOK, CurrentEntities,
           \A k \in Keys : Undisturbed(k),
           \A r \in Requests :
              pc'[r] = "save" => pc[r] = "save" /\ entity'[r] = entity[r]
    PROVE  CurrentEntities'
<1> SUFFICES ASSUME NEW r \in Requests, pc'[r] = "save",
                    r \in fresh'[BalanceKey[r]]
             PROVE  LET k == BalanceKey[r]
                    IN  /\ k \in DOMAIN balance'
                        /\ entity'[r] = balance'[k]
                        /\ Available(balance'[k]) >= Days[r]
  BY DEF CurrentEntities, HasBalance
<1> DEFINE k == BalanceKey[r]
<1>1. k \in Keys
  OBVIOUS
<1>2. /\ fresh'[k] = fresh[k]
      /\ k \in DOMAIN balance' <=> k \in DOMAIN balance
      /\ k \in DOMAIN balance => balance'[k] = balance[k]
  BY <1>1 DEF Undisturbed
<1>3. QED
  BY <1>1, <1>2 DEF CurrentEntities, HasBalance

\* A reader that is still current knows the row as it is, and that its days
\* are available.
LEMMA EntitiesStayCurrent ==
    ASSUME TypeOK, CurrentEntities, [Next]_vars
    PROVE  CurrentEntities'
<1> Requests \subseteq Calls
  BY DEF Calls
<1> USE DEF TypeOK, PC
<1>1. CASE \E r \in Requests : ReadBalance(r)
  <2>1. PICK r \in Requests : ReadBalance(r)
    BY <1>1
  <2> DEFINE k == BalanceKey[r]
  <2>2. /\ pc' = [pc EXCEPT ![r] = "save"]
        /\ entity' = [entity EXCEPT ![r] = balance[k]]
        /\ fresh' = [fresh EXCEPT ![k] = @ \cup ({r} \cap Readers)]
        /\ balance' = balance
        /\ HasBalance(k)
        /\ Available(balance[k]) >= Days[r]
    BY <2>1 DEF ReadBalance, Read, Goto, Sufficient
  <2>3. ASSUME NEW q \in Requests, q # r, pc'[q] = "save",
               q \in fresh'[BalanceKey[q]]
        PROVE  pc[q] = "save" /\ q \in fresh[BalanceKey[q]] /\ entity'[q] = entity[q]
    BY <2>2, <2>3 DEF StoreTypeOK
  <2>4. QED
    BY <2>2, <2>3 DEF CurrentEntities, HasBalance
<1>2. CASE \E t \in Calls, to \in PC \ {"save"} :
              /\ \E row : Save(BalanceKey[Req(t)], row)
              /\ pc' = [pc EXCEPT ![t] = to]
              /\ \A r \in Requests \ {t} : entity'[r] = entity[r]
  BY <1>2, SaveUndisturbed, CallsHaveRequests, OtherStepsKeepCurrent
<1>3. CASE /\ UNCHANGED <<balance, fresh>>
           /\ \E t \in Calls, to \in PC \ {"save"} :
                 /\ pc' = [pc EXCEPT ![t] = to]
                 /\ \A r \in Requests \ {t} : entity'[r] = entity[r]
  <2>1. \A k \in Keys : Undisturbed(k)
    BY <1>3 DEF Undisturbed
  <2>2. QED
    BY <1>3, <2>1, OtherStepsKeepCurrent
<1>4. CASE UNCHANGED <<balance, fresh, pc, entity>>
  BY <1>4, OtherStepsKeepCurrent DEF Undisturbed
<1>5. CASE Crash
  BY <1>5 DEF Crash, StoreCrash, CurrentEntities
<1>6. ASSUME NEW r \in Requests, Submit(r) \/ Reserve(r)
      PROVE  CurrentEntities'
  <2>1. Req(r) = r
    BY DEF Req
  <2>2. CASE ReadBalance(r)
    BY <1>1, <2>2
  <2>3. CASE SaveReservation(r)
    BY <1>2, <2>1, <2>3 DEF SaveReservation, SaveUnchecked, Goto
  <2>4. CASE \/ ReturnExisting(r) \/ Validate(r) \/ RefuseReservation(r)
             \/ LockConflict(r) \/ InsertRequest(r) \/ InsertRefused(r)
    <3>1. /\ UNCHANGED <<balance, fresh>>
          /\ \A q \in Requests \ {r} : entity'[q] = entity[q]
      BY <2>4 DEF ReturnExisting, Validate, RefuseReservation, LockConflict,
         InsertRequest, InsertUnindexed, InsertRefused, SetStatus, storeVars
    <3>2. \E to \in PC \ {"save"} : pc' = [pc EXCEPT ![r] = to]
      BY <2>4 DEF ReturnExisting, Validate, RefuseReservation, LockConflict,
         InsertRequest, InsertUnindexed, InsertRefused, Goto
    <3>3. QED
      BY <1>3, <3>1, <3>2
  <2>5. QED
    BY <1>6, <2>2, <2>3, <2>4 DEF Submit, Reserve
<1>7. ASSUME NEW t \in Calls,
             \/ t \in Reviews /\ Review(t)
             \/ Settle(t)
             \/ TurnAway(t)
             \/ StatementFails(t)
      PROVE  CurrentEntities'
  <2>1. CASE ConfirmReservation(t) \/ ReleaseReservation(t)
    BY <1>2, <2>1 DEF ConfirmReservation, ReleaseReservation, Goto
  <2>2. CASE ~ConfirmReservation(t) /\ ~ReleaseReservation(t)
    <3>1. UNCHANGED <<balance, fresh, entity>>
      BY <1>7, <2>2 DEF Review, Approve, Reject, Cancel, RefuseReview, Settle, PostToHcm,
         HcmReplies, CallFails, MarkApproved, Close, SetStatus, TurnAway,
         StatementFails, storeVars
    <3>2. \E to \in PC \ {"save"} : pc' = [pc EXCEPT ![t] = to]
      BY <1>7, <2>2 DEF Review, Approve, Reject, Cancel, RefuseReview, Settle, PostToHcm,
         HcmReplies, CallFails, MarkApproved, Close, TurnAway,
         StatementFails, Goto
    <3>3. QED
      BY <1>3, <3>1, <3>2
  <2>3. QED
    BY <2>1, <2>2
<1>8. ASSUME NEW t \in Calls, HcmAnswers(t)
      PROVE  CurrentEntities'
  BY <1>4, <1>8 DEF HcmAnswers, storeVars, callVars
<1>9. CASE UNCHANGED vars
  BY <1>4, <1>9 DEF vars, storeVars, callVars
<1>10. QED
  BY <1>5, <1>6, <1>7, <1>8, <1>9 DEF Next, CallStep, Calls

\* A call whose save succeeds adds its days to the row as it then is, which
\* has them available.
LEMMA CurrentSaveReserves ==
    ASSUME OptimisticLock, TypeOK, CurrentEntities, Next,
           NEW r \in Requests, pc[r] = "save", pc'[r] = "insert"
    PROVE  LET k == BalanceKey[r]
           IN  /\ balance'[k] \in Reserved(balance[k], Days[r])
               /\ 2 * Available(balance'[k]) + Unit >= 0
<1> DEFINE k == BalanceKey[r]
<1>1. SaveReservation(r)
  <2>1. ASSUME NEW q \in Requests, Submit(q) \/ Reserve(q)
        PROVE  q = r /\ SaveReservation(q)
    BY <2>1 DEF TypeOK, Calls, Submit, Reserve, ReturnExisting, Validate,
       ReadBalance, RefuseReservation, SaveReservation, SaveUnchecked,
       LockConflict, InsertRequest, InsertUnindexed, InsertRefused, Goto
  <2>2. ASSUME NEW t \in Calls,
               \/ t \in Reviews /\ Review(t)
               \/ Settle(t)
               \/ TurnAway(t)
               \/ StatementFails(t)
        PROVE  FALSE
    BY <2>2 DEF TypeOK, Calls, Review, Approve, Reject, Cancel, RefuseReview,
       Settle, PostToHcm, HcmReplies, CallFails, ConfirmReservation, MarkApproved,
       ReleaseReservation, Close, TurnAway, StatementFails, Goto
  <2>3. ASSUME NEW t \in Calls, HcmAnswers(t)
        PROVE  FALSE
    BY <2>3 DEF HcmAnswers, callVars
  <2>4. CASE Crash
    BY <2>4 DEF Crash, Calls
  <2>5. QED
    BY <2>1, <2>2, <2>3, <2>4 DEF Next, CallStep, Calls
<1>2. /\ r \in fresh[k]
      /\ \E row \in Reserved(entity[r], Days[r]) :
            balance' = [balance EXCEPT ![k] = row]
  BY <1>1 DEF SaveReservation, SaveUnchecked, MaySave, Save
<1>3. /\ HasBalance(k)
      /\ entity[r] = balance[k]
      /\ Available(balance[k]) >= Days[r]
  BY <1>2 DEF CurrentEntities
<1>4. balance'[k] \in Reserved(balance[k], Days[r])
  BY <1>2, <1>3 DEF HasBalance, TypeOK, StoreTypeOK
<1>5. balance[k] \in Balance /\ Days[r] \in Nat
  BY <1>3 DEF HasBalance, TypeOK, StoreTypeOK
<1>6. ASSUME NEW row \in Reserved(balance[k], Days[r])
      PROVE  2 * Available(row) + Unit >= 0
  BY <1>3, <1>5, ReservedIsAvailable
<1>7. QED
  BY <1>4, <1>6

\* With the optimistic lock, findOne and save of reserveDays act as one step:
\* the days are added to the row as it then is, and only when they are
\* available.
THEOREM LockMakesReserveAtomic ==
    ASSUME OptimisticLock
    PROVE  Spec => ReservesAtomically
<1>1. Init => CurrentEntities
  BY DEF Init, CurrentEntities, Calls
<1>2. TypeOK /\ CurrentEntities /\ [Next]_vars => CurrentEntities'
  BY EntitiesStayCurrent
<1>3. TypeOK /\ CurrentEntities /\ [Next]_vars =>
         [\A r \in Requests :
             pc[r] = "save" /\ pc'[r] = "insert" =>
                 LET k == BalanceKey[r]
                 IN  /\ balance'[k] \in Reserved(balance[k], Days[r])
                     /\ 2 * Available(balance'[k]) + Unit >= 0]_vars
  BY CurrentSaveReserves
<1>4. QED
  BY <1>1, <1>2, <1>3, TypeCorrect, PTL DEF Spec, ReservesAtomically

----------------------------------------------------------------------------
(***************************************************************************)
(* What a request is refused for.                                          *)
(***************************************************************************)

\* Where doubles are exact and all days multiples of 0.0001, reserveDays turns
\* a request down only when fewer days are shown than it asks for: the
\* unrounded comparison alone is what can refuse more.  A failing statement
\* and a restart end the call as well, for other reasons.
THEOREM ExactDaysAreNotRefused ==
    ASSUME ExactFloats, Unit = 1, ~DbMayFail, MaxCrashes = 0
    PROVE  Spec => RefusedOnlyWhenShort
<1>1. TypeOK /\ [Next]_vars =>
         [\A r \in Requests :
             LET k == BalanceKey[r]
             IN  pc[r] = "reserve" /\ pc'[r] = "done" /\ HasBalance(k) =>
                     \E a \in Shown(balance[k]) : a < Days[r]]_vars
  <2> SUFFICES ASSUME TypeOK, Next, NEW r \in Requests,
                      pc[r] = "reserve", pc'[r] = "done", HasBalance(BalanceKey[r])
               PROVE  \E a \in Shown(balance[BalanceKey[r]]) : a < Days[r]
    OBVIOUS
  <2> DEFINE b == balance[BalanceKey[r]]
  <2>1. RefuseReservation(r)
    <3>1. ASSUME NEW q \in Requests, Submit(q) \/ Reserve(q)
          PROVE  q = r /\ RefuseReservation(q)
      BY <3>1 DEF TypeOK, Calls, Submit, Reserve, ReturnExisting, Validate,
         ReadBalance, RefuseReservation, SaveReservation, SaveUnchecked,
         LockConflict, InsertRequest, InsertUnindexed, InsertRefused, Goto
    <3>2. ASSUME NEW t \in Calls,
                 \/ t \in Reviews /\ Review(t)
                 \/ Settle(t)
                 \/ TurnAway(t)
                 \/ StatementFails(t)
          PROVE  FALSE
      BY <3>2 DEF TypeOK, Calls, Review, Approve, Reject, Cancel, RefuseReview,
         Settle, PostToHcm, HcmReplies, CallFails, ConfirmReservation, MarkApproved,
         ReleaseReservation, Close, TurnAway, StatementFails, Goto
    <3>3. ASSUME NEW t \in Calls, HcmAnswers(t)
          PROVE  FALSE
      BY <3>3 DEF HcmAnswers, callVars
    <3>4. CASE Crash
      BY <3>4 DEF Crash, StoreCrash, TypeOK, StoreTypeOK
    <3>5. QED
      BY <3>1, <3>2, <3>3, <3>4 DEF Next, CallStep, Calls
  <2>2. b \in Balance /\ Available(b) < Days[r]
    BY <2>1 DEF RefuseReservation, MayBeLess, HasBalance, TypeOK, StoreTypeOK
  <2>3. Available(b) \in Int
    BY <2>2 DEF Balance, Available
  <2>4. Available(b) \in Shown(b)
    BY <2>3 DEF Shown, Rounded
  <2>5. QED
    BY <2>2, <2>4
<1>2. QED
  BY <1>1, TypeCorrect, PTL DEF Spec, RefusedOnlyWhenShort
=============================================================================
