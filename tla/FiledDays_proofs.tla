-------------------------- MODULE FiledDays_proofs --------------------------
(***************************************************************************)
(* Theorems about the days that HCM deducts and TimeOffRequests counts as  *)
(* used, for any finite number of requests.                                *)
(*                                                                         *)
(* What rounding may lose is paid for once.  A column that is no multiple  *)
(* of 0.0001 day is rounded by the first operation on it and is a multiple *)
(* from then on, so the invariants add Inexact of a column to what has     *)
(* been lost: it is still to come.                                         *)
(***************************************************************************)
EXTENDS TimeOffRequests_proofs

USE DomainAssumption, StoreAssumption, HcmAssumption, RequestsAssumption

----------------------------------------------------------------------------
(***************************************************************************)
(* HCM deducts each filed request once.                                    *)
(***************************************************************************)

FiledOn(k) == {r \in filed : BalanceKey[r] = k}

\* HcmDeductsOnce, made inductive.
DeductedOnce ==
    /\ DOMAIN hcm = DOMAIN InitHcm
    /\ \A k \in DOMAIN InitHcm :
          Near(hcm[k].used, InitHcm[k].used + DaysOf(FiledOn(k)),
               Slack(FiledOn(k)) + Inexact(InitHcm[k].used)
                  - Inexact(hcm[k].used))

\* Adding d to a column, and to the sum it stands for, costs what rounding d
\* may lose, and what was still to come.
LEMMA NearWithOneMore ==
    ASSUME NEW a \in Nat, NEW b \in Int, NEW s \in Int, NEW d \in Nat,
           Near(a, b, s - Inexact(a)), NEW m \in Rounded(a + d)
    PROVE  m \in Int /\ Near(m, b + d, s + Inexact(d) - Inexact(m))
<1>1. m \in Int /\ Inexact(m) = 0 /\ Near(m, a + d, Inexact(a) + Inexact(d))
  BY RoundedSumIsNear
<1>2. Inexact(a) \in Int /\ Inexact(d) \in Int
  BY DEF Inexact
<1>3. QED
  BY <1>1, <1>2 DEF Near

\* A filing deducts the days of a request that was not filed before.
LEMMA FilingDeductsOnce ==
    ASSUME IsFiniteSet(Requests), HcmTypeOK, DeductedOnce, NEW r \in Requests,
           NEW approved, FileTimeOff(r, approved)
    PROVE  DeductedOnce'
<1> DEFINE j == BalanceKey[r]
<1>1. CASE UNCHANGED hcmVars
  BY <1>1 DEF DeductedOnce, FiledOn, hcmVars
<1>2. CASE ~AlreadyFiled(r) /\ Covers(r) /\ ~UNCHANGED hcmVars
  <2>1. PICK m \in Rounded(hcm[j].used + Days[r]) :
           hcm' = [hcm EXCEPT ![j].used = m]
    BY <1>2 DEF FileTimeOff
  <2>2. /\ filed' = filed \cup {r}
        /\ r \notin filed
        /\ j \in DOMAIN hcm
    BY <1>2 DEF FileTimeOff, AlreadyFiled, Covers
  <2>3. DOMAIN hcm' = DOMAIN InitHcm
    BY <2>1 DEF DeductedOnce, HcmTypeOK
  <2>4. ASSUME NEW k \in DOMAIN InitHcm
        PROVE  Near(hcm'[k].used, InitHcm[k].used + DaysOf(FiledOn(k)'),
                    Slack(FiledOn(k)') + Inexact(InitHcm[k].used)
                       - Inexact(hcm'[k].used))
    <3> DEFINE F == FiledOn(k)
               G == FiledOn(k)'
    <3>1. Near(hcm[k].used, InitHcm[k].used + DaysOf(F),
               Slack(F) + Inexact(InitHcm[k].used) - Inexact(hcm[k].used))
      BY DEF DeductedOnce
    <3>2. F \in SUBSET Requests /\ IsFiniteSet(F)
      BY FS_Subset DEF FiledOn, HcmTypeOK
    <3>3. CASE k # j
      <4>1. G = F /\ hcm'[k] = hcm[k]
        BY <2>1, <2>2, <2>3, <3>3 DEF FiledOn, HcmTypeOK
      <4>2. QED
        BY <3>1, <4>1
    <3>4. CASE k = j
      <4>1. G = F \cup {r} /\ r \notin F
        BY <2>2, <3>4 DEF FiledOn
      <4>2. hcm'[k].used = m /\ hcm[k].used \in Nat
        BY <2>1, <2>2, <3>4 DEF HcmTypeOK, HcmBalance
      <4>3. /\ DaysOf(G) = DaysOf(F) + Days[r]
            /\ Slack(G) = Slack(F) + Inexact(Days[r])
        BY <3>2, <4>1, SumsWithOneMore
      <4>4. DaysOf(F) \in Nat /\ Slack(F) \in Nat
        BY <3>2, SumsOverMore
      <4>5. InitHcm[k].used \in Nat /\ Days[r] \in Nat
        BY DEF HcmBalance
      <4> DEFINE b == InitHcm[k].used + DaysOf(F)
                 s == Slack(F) + Inexact(InitHcm[k].used)
      <4> HIDE DEF F, G
      <4>6. /\ b \in Int /\ s \in Int
            /\ Near(hcm[k].used, b, s - Inexact(hcm[k].used))
            /\ InitHcm[k].used + DaysOf(G) = b + Days[r]
            /\ Slack(G) + Inexact(InitHcm[k].used) = s + Inexact(Days[r])
        BY <3>1, <4>3, <4>4, <4>5 DEF Inexact
      <4> HIDE DEF b, s
      <4>7. m \in Int /\ Near(m, b + Days[r], s + Inexact(Days[r]) - Inexact(m))
        BY <2>1, <3>4, <4>2, <4>5, <4>6, NearWithOneMore
      <4>8. /\ DaysOf(G) \in Int /\ Slack(G) \in Int
            /\ Inexact(m) \in Int /\ Inexact(Days[r]) \in Int
            /\ Inexact(InitHcm[k].used) \in Int
        BY <4>3, <4>4, <4>5 DEF Inexact
      <4>9. Near(m, InitHcm[k].used + DaysOf(G),
                 Slack(G) + Inexact(InitHcm[k].used) - Inexact(m))
        BY <4>5, <4>6, <4>7, <4>8 DEF Near
      <4>10. QED
        BY <4>2, <4>9 DEF G
    <3>5. QED
      BY <3>3, <3>4
  <2>5. QED
    BY <2>3, <2>4 DEF DeductedOnce
<1>3. QED
  BY <1>1, <1>2 DEF FileTimeOff

\* HCM's used days are its first and the days of every request it filed, once,
\* but for rounding, whatever posts are repeated, lost or late, and whatever
\* calls fail or are cut off.
THEOREM HcmDeductsEachOnce ==
    ASSUME IsFiniteSet(Requests)
    PROVE  Spec => []HcmDeductsOnce
<1>1. Init => DeductedOnce
  <2> SUFFICES ASSUME Init PROVE DeductedOnce
    OBVIOUS
  <2>1. hcm = InitHcm /\ filed = {}
    BY DEF Init, HcmInit
  <2>2. ASSUME NEW k \in DOMAIN InitHcm
        PROVE  Near(hcm[k].used, InitHcm[k].used + DaysOf(FiledOn(k)),
                    Slack(FiledOn(k)) + Inexact(InitHcm[k].used)
                       - Inexact(hcm[k].used))
    <3>1. FiledOn(k) = {}
      BY <2>1 DEF FiledOn
    <3>2. InitHcm[k].used \in Nat
      BY DEF HcmBalance
    <3>3. QED
      BY <2>1, <3>1, <3>2, DaysOfNone, SlackOfNone DEF Near, Inexact
  <2>3. QED
    BY <2>1, <2>2 DEF DeductedOnce
<1>2. TypeOK /\ DeductedOnce /\ [Next]_vars => DeductedOnce'
  <2> SUFFICES ASSUME TypeOK, DeductedOnce, [Next]_vars
               PROVE  DeductedOnce'
    OBVIOUS
  <2>1. \/ UNCHANGED hcmVars
        \/ \E t \in Calls, approved \in BOOLEAN : FileTimeOff(Req(t), approved)
    BY DEF Next, CallStep, Submit, Reserve, Review, Settle, ReturnExisting,
       Validate, ReadBalance, RefuseReservation, SaveReservation,
       SaveUnchecked, LockConflict, InsertRequest, InsertUnindexed,
       InsertRefused, PostToHcm, HcmAnswers, HcmReplies, CallFails,
       ConfirmReservation, MarkApproved, ReleaseReservation, Close, Approve,
       Reject, Cancel, RefuseReview, TurnAway, StatementFails, Crash, vars
  <2>2. CASE UNCHANGED hcmVars
    BY <2>2 DEF DeductedOnce, FiledOn, hcmVars
  <2>3. QED
    BY <2>1, <2>2, FilingDeductsOnce, CallsHaveRequests DEF TypeOK
<1>3. TypeOK /\ DeductedOnce => HcmDeductsOnce
  <2> SUFFICES ASSUME TypeOK, DeductedOnce, NEW k \in DOMAIN InitHcm
               PROVE  Near(hcm[k].used, InitHcm[k].used + DaysOf(FiledOn(k)),
                           Slack(FiledOn(k)) + Inexact(InitHcm[k].used))
    BY DEF HcmDeductsOnce, FiledOn
  <2>1. FiledOn(k) \in SUBSET Requests /\ IsFiniteSet(FiledOn(k))
    BY FS_Subset DEF FiledOn, TypeOK, HcmTypeOK
  <2>2. DaysOf(FiledOn(k)) \in Nat /\ Slack(FiledOn(k)) \in Nat
    BY <2>1, SumsOverMore
  <2>3. hcm[k].used \in Nat /\ InitHcm[k].used \in Nat
    BY DEF DeductedOnce, TypeOK, HcmTypeOK, HcmBalance
  <2>4. Near(hcm[k].used, InitHcm[k].used + DaysOf(FiledOn(k)),
             Slack(FiledOn(k)) + Inexact(InitHcm[k].used)
                - Inexact(hcm[k].used))
    BY DEF DeductedOnce
  <2>5. QED
    BY <2>2, <2>3, <2>4 DEF Near, Inexact
<1>4. QED
  BY <1>1, <1>2, <1>3, TypeCorrect, PTL DEF Spec

----------------------------------------------------------------------------
(***************************************************************************)
(* usedDays counts filed days once.  A save of reserveDays writes back the *)
(* used days that were read with the entity, which without the lock may    *)
(* have been taken over since: so the bound is kept for the entities, too. *)
(***************************************************************************)

\* The filed requests whose own call is past confirmReservation, or gone.
MayBeCounted(k) ==
    {r \in FiledOn(k) : pc[r] \notin {"post", "call", "confirm"}}

\* n used days of k are no more than those of the requests in S.
UsedBound(k, n, S) ==
    2 * (n - InitBalance[k].used - DaysOf(S)) + Inexact(n)
        <= Slack(S) + Inexact(InitBalance[k].used)

\* No review calls HCM.
ReviewsPostNothing ==
    \A o \in Reviews : pc[o] \in {"idle", "release", "close", "done"}

UsedOnce ==
    /\ DOMAIN balance = DOMAIN InitBalance
    /\ \A k \in DOMAIN InitBalance :
          UsedBound(k, balance[k].used, MayBeCounted(k))
    /\ \A r \in Requests :
          LET k == BalanceKey[r]
          IN  pc[r] = "save" =>
                 /\ k \in DOMAIN InitBalance
                 /\ UsedBound(k, entity[r].used, MayBeCounted(k))

\* The steps that write a balance row.
LEMMA BalanceWriters ==
    ASSUME [Next]_vars
    PROVE  \/ UNCHANGED balance
           \/ \E r \in Requests : SaveReservation(r)
           \/ \E t \in Calls : ConfirmReservation(t) \/ ReleaseReservation(t)
BY DEF Next, CallStep, Submit, Reserve, Review, Settle, ReturnExisting,
   Validate, ReadBalance, RefuseReservation, Read, LockConflict, SetStatus,
   InsertRequest, InsertUnindexed, InsertRefused, PostToHcm, HcmAnswers,
   HcmReplies, CallFails, MarkApproved, Close, Approve, Reject, Cancel,
   RefuseReview, TurnAway, StatementFails, Crash, StoreCrash, vars, storeVars

\* The steps that read one, or leave an entity to be saved.
LEMMA EntityReaders ==
    ASSUME TypeOK, [Next]_vars, NEW r \in Requests, pc'[r] = "save"
    PROVE  \/ pc[r] = "save" /\ entity'[r] = entity[r]
           \/ /\ HasBalance(BalanceKey[r])
              /\ entity'[r] = balance[BalanceKey[r]]
<1>0. r \in Calls
  BY DEF Calls
<1>1. ASSUME NEW q \in Requests, Submit(q) \/ Reserve(q)
      PROVE  \/ pc[r] = "save" /\ entity'[r] = entity[r]
             \/ /\ HasBalance(BalanceKey[r])
                /\ entity'[r] = balance[BalanceKey[r]]
  BY <1>0, <1>1 DEF TypeOK, Submit, Reserve, ReturnExisting, Validate, ReadBalance,
     RefuseReservation, SaveReservation, SaveUnchecked, LockConflict,
     InsertRequest, InsertUnindexed, InsertRefused, Goto, Calls
<1>2. ASSUME NEW t \in Calls, \/ t \in Reviews /\ Review(t)
                              \/ Settle(t)
                              \/ TurnAway(t)
                              \/ HcmAnswers(t)
                              \/ StatementFails(t)
      PROVE  pc[r] = "save" /\ entity'[r] = entity[r]
  BY <1>0, <1>2 DEF TypeOK, Review, Approve, Reject, Cancel, RefuseReview, Settle,
     PostToHcm, HcmReplies, CallFails, ConfirmReservation, MarkApproved,
     ReleaseReservation, Close, TurnAway, HcmAnswers, StatementFails, Goto,
     callVars
<1>3. CASE Crash
  BY <1>0, <1>3 DEF Crash
<1>4. CASE UNCHANGED vars
  BY <1>4 DEF vars, callVars
<1>5. QED
  BY <1>1, <1>2, <1>3, <1>4 DEF Next, CallStep, Calls

\* A request that may be counted stays so: a call comes to post only from the
\* insert of a request that was not stored, and so not filed.
LEMMA CountedGrows ==
    ASSUME IInv, [Next]_vars, NEW k
    PROVE  MayBeCounted(k) \subseteq MayBeCounted(k)'
<1> SUFFICES ASSUME NEW r \in MayBeCounted(k)
             PROVE  r \in MayBeCounted(k)'
  OBVIOUS
<1>1. /\ r \in filed /\ r \in Requests /\ r \in Calls
      /\ pc[r] \notin {"post", "call", "confirm"}
      /\ Stored(r)
  BY DEF MayBeCounted, FiledOn, IInv, TypeOK, HcmTypeOK, FiledAreStored, Calls
<1>2. filed \subseteq filed'
  BY DEF Next, CallStep, Submit, Reserve, Review, Settle, ReturnExisting,
     Validate, ReadBalance, RefuseReservation, SaveReservation, SaveUnchecked,
     LockConflict, InsertRequest, InsertUnindexed, InsertRefused, PostToHcm,
     HcmAnswers, FileTimeOff, HcmReplies, CallFails, ConfirmReservation,
     MarkApproved, ReleaseReservation, Close, Approve, Reject, Cancel,
     RefuseReview, TurnAway, StatementFails, Crash, vars, hcmVars
<1>3. pc'[r] \notin {"post", "call", "confirm"}
  <2>1. ASSUME NEW q \in Requests, Submit(q) \/ Reserve(q)
        PROVE  pc'[r] \notin {"post", "call", "confirm"}
    <3>1. CASE InsertRequest(q)
      <4>1. q # r
        BY <1>1, <3>1 DEF InsertRequest, KeyTaken, Stored
      <4>2. QED
        BY <1>1, <3>1, <4>1 DEF InsertRequest, InsertUnindexed, Goto, IInv,
           TypeOK
    <3>2. CASE ~InsertRequest(q)
      BY <1>1, <2>1, <3>2 DEF Submit, Reserve, ReturnExisting, Validate,
         ReadBalance, RefuseReservation, SaveReservation, SaveUnchecked,
         LockConflict, InsertRefused, Goto, IInv, TypeOK
    <3>3. QED
      BY <3>1, <3>2
  <2>2. ASSUME NEW o \in Reviews, Review(o)
        PROVE  pc'[r] \notin {"post", "call", "confirm"}
    <3>1. o # r
      BY <1>1
    <3>2. QED
      BY <1>1, <2>2, <3>1 DEF Review, Approve, Reject, Cancel, RefuseReview,
         Goto, IInv, TypeOK
  <2>3. ASSUME NEW t \in Calls, \/ Settle(t)
                                \/ TurnAway(t)
                                \/ HcmAnswers(t)
                                \/ StatementFails(t)
        PROVE  pc'[r] \notin {"post", "call", "confirm"}
    BY <1>1, <2>3 DEF Settle, PostToHcm, HcmReplies, CallFails,
       ConfirmReservation, MarkApproved, ReleaseReservation, Close, TurnAway,
       HcmAnswers, StatementFails, Goto, IInv, TypeOK, callVars
  <2>4. CASE Crash
    BY <1>1, <2>4 DEF Crash
  <2>5. CASE UNCHANGED vars
    BY <1>1, <2>5 DEF vars, callVars
  <2>6. QED
    BY <2>1, <2>2, <2>3, <2>4, <2>5 DEF Next, CallStep
<1>4. QED
  BY <1>1, <1>2, <1>3 DEF MayBeCounted, FiledOn

\* A bound by some requests is a bound by more.
LEMMA BoundByMore ==
    ASSUME NEW T \in SUBSET Requests, IsFiniteSet(T), NEW S \in SUBSET T,
           NEW k \in DOMAIN InitBalance, NEW n \in Nat, UsedBound(k, n, S)
    PROVE  UsedBound(k, n, T)
<1>1. /\ DaysOf(S) \in Nat /\ DaysOf(T) \in Nat /\ DaysOf(S) <= DaysOf(T)
      /\ Slack(S) \in Nat /\ Slack(T) \in Nat /\ Slack(S) <= Slack(T)
  BY SumsOverMore
<1>2. InitBalance[k].used \in Nat
  BY DEF Balance
<1>3. QED
  BY <1>1, <1>2 DEF UsedBound, Inexact

\* Counting the days of a request that was not counted yet keeps the bound.
LEMMA BoundByOneMore ==
    ASSUME NEW S \in SUBSET Requests, IsFiniteSet(S), NEW r \in Requests \ S,
           NEW k \in DOMAIN InitBalance, NEW n \in Nat, UsedBound(k, n, S),
           NEW m \in Rounded(n + Days[r])
    PROVE  UsedBound(k, m, S \cup {r})
<1>1. /\ DaysOf(S \cup {r}) = DaysOf(S) + Days[r]
      /\ Slack(S \cup {r}) = Slack(S) + Inexact(Days[r])
      /\ DaysOf(S) \in Nat /\ Slack(S) \in Nat
  BY SumsWithOneMore, SumsOverMore
<1>2. InitBalance[k].used \in Nat /\ Days[r] \in Nat
  BY DEF Balance
<1>3. /\ m \in Int /\ Inexact(m) = 0
      /\ 2 * (m - (n + Days[r])) <= Inexact(n) + Inexact(Days[r])
  BY <1>2, RoundedSumIsNear DEF Near
<1>4. /\ Inexact(n) \in Int /\ Inexact(Days[r]) \in Int
      /\ Inexact(InitBalance[k].used) \in Int
  BY DEF Inexact
<1>5. QED
  BY <1>1, <1>2, <1>3, <1>4 DEF UsedBound

\* A review that is no approval posts nothing.
LEMMA ReviewsGoOnPostingNothing ==
    ASSUME \A o \in Reviews : Kind[o] # "approve",
           IInv, ReviewsPostNothing, [Next]_vars
    PROVE  ReviewsPostNothing'
<1> SUFFICES ASSUME NEW o \in Reviews
             PROVE  pc'[o] \in {"idle", "release", "close", "done"}
  BY DEF ReviewsPostNothing
<1>1. o \in Calls /\ o \notin Requests /\ Kind[o] # "approve"
  BY DEF Calls
<1>2. pc \in [Calls -> PC] /\ pc[o] \in {"idle", "release", "close", "done"}
  BY DEF IInv, TypeOK, ReviewsPostNothing
<1>3. ASSUME NEW q \in Requests, Submit(q) \/ Reserve(q)
      PROVE  pc'[o] = pc[o]
  BY <1>1, <1>2, <1>3 DEF Submit, Reserve, ReturnExisting, Validate,
     ReadBalance, RefuseReservation, SaveReservation, SaveUnchecked,
     LockConflict, InsertRequest, InsertUnindexed, InsertRefused, Goto
<1>4. ASSUME NEW t \in Calls, \/ t \in Reviews /\ Review(t)
                              \/ Settle(t)
                              \/ TurnAway(t)
                              \/ HcmAnswers(t)
                              \/ StatementFails(t)
      PROVE  pc'[o] \in {"idle", "release", "close", "done"}
  <2>1. CASE t # o
    <3>1. pc' = pc \/ \E to : pc' = [pc EXCEPT ![t] = to]
      BY <1>4 DEF Review, Approve, Reject, Cancel, RefuseReview,
         Settle, PostToHcm, HcmReplies, CallFails, ConfirmReservation,
         MarkApproved, ReleaseReservation, Close, TurnAway, HcmAnswers,
         StatementFails, Goto, callVars
    <3>2. QED
      BY <1>1, <1>2, <2>1, <3>1
  <2>2. CASE t = o /\ Settle(o)
    BY <1>1, <1>2, <2>2 DEF Settle, PostToHcm, HcmReplies, CallFails,
       ConfirmReservation, MarkApproved, ReleaseReservation, Close, Goto
  <2>3. CASE t = o /\ ~Settle(o)
    BY <1>1, <1>2, <1>4, <2>3 DEF Review, Approve, Reject, Cancel,
       RefuseReview, TurnAway, HcmAnswers, StatementFails, Goto, callVars
  <2>4. QED
    BY <1>4, <2>1, <2>2, <2>3
<1>5. CASE Crash
  BY <1>1, <1>2, <1>5 DEF Crash
<1>6. CASE UNCHANGED vars
  BY <1>2, <1>6 DEF vars, callVars
<1>7. QED
  BY <1>2, <1>3, <1>4, <1>5, <1>6 DEF Next, CallStep, Calls

\* The used days of a row, after a step, are bounded.
LEMMA RowsStayBounded ==
    ASSUME IsFiniteSet(Requests), IInv, ReviewsPostNothing, UsedOnce,
           [Next]_vars
    PROVE  /\ DOMAIN balance' = DOMAIN InitBalance
           /\ \A k \in DOMAIN InitBalance :
                 UsedBound(k, balance'[k].used, MayBeCounted(k)')
<1>0. IInv'
  BY StepKeepsIInv
<1>1. ASSUME NEW k
      PROVE  /\ MayBeCounted(k)' \in SUBSET Requests
             /\ IsFiniteSet(MayBeCounted(k)')
             /\ MayBeCounted(k) \in SUBSET MayBeCounted(k)'
  <2>1. MayBeCounted(k)' \in SUBSET Requests
    BY <1>0 DEF MayBeCounted, FiledOn, IInv, TypeOK, HcmTypeOK
  <2>2. QED
    BY <2>1, FS_Subset, CountedGrows
<1>2. ASSUME NEW k \in DOMAIN InitBalance, NEW n \in Nat,
             UsedBound(k, n, MayBeCounted(k))
      PROVE  UsedBound(k, n, MayBeCounted(k)')
  BY <1>1, <1>2, BoundByMore
<1>3. \A k \in DOMAIN InitBalance : /\ balance[k] \in Balance
                                    /\ balance[k].used \in Nat
                                    /\ UsedBound(k, balance[k].used, MayBeCounted(k))
  BY DEF UsedOnce, IInv, TypeOK, StoreTypeOK, Balance
<1>4. CASE UNCHANGED balance
  BY <1>2, <1>3, <1>4 DEF UsedOnce
<1>5. ASSUME NEW r \in Requests, SaveReservation(r)
      PROVE  /\ DOMAIN balance' = DOMAIN InitBalance
             /\ \A k \in DOMAIN InitBalance :
                   UsedBound(k, balance'[k].used, MayBeCounted(k)')
  <2> DEFINE j == BalanceKey[r]
  <2>1. /\ pc[r] = "save"
        /\ \E row \in Reserved(entity[r], Days[r]) :
              balance' = [balance EXCEPT ![j] = row]
    BY <1>5 DEF SaveReservation, SaveUnchecked, Goto, Save
  <2>2. PICK row : /\ row \in Reserved(entity[r], Days[r])
                   /\ balance' = [balance EXCEPT ![j] = row]
    BY <2>1
  <2>3. entity[r] \in Balance /\ row.used = entity[r].used
    BY <2>2 DEF Reserved, IInv, TypeOK, Balance
  <2>4. entity[r].used \in Nat /\ UsedBound(j, entity[r].used, MayBeCounted(j))
    BY <2>1, <2>3 DEF UsedOnce, Balance
  <2>5. DOMAIN balance' = DOMAIN InitBalance
    BY <2>2 DEF UsedOnce, IInv, TypeOK, StoreTypeOK
  <2>6. ASSUME NEW k \in DOMAIN InitBalance
        PROVE  UsedBound(k, balance'[k].used, MayBeCounted(k)')
    <3>1. CASE k = j
      <4>1. balance'[k].used = entity[r].used
        BY <2>2, <2>3, <3>1 DEF UsedOnce
      <4>2. QED
        BY <1>2, <2>4, <3>1, <4>1
    <3>2. CASE k # j
      BY <1>2, <1>3, <2>2, <3>2 DEF UsedOnce
    <3>3. QED
      BY <3>1, <3>2
  <2>7. QED
    BY <2>5, <2>6
<1>6. ASSUME NEW t \in Calls, ConfirmReservation(t)
      PROVE  /\ DOMAIN balance' = DOMAIN InitBalance
             /\ \A k \in DOMAIN InitBalance :
                   UsedBound(k, balance'[k].used, MayBeCounted(k)')
  <2> DEFINE j == BalanceKey[t]
  <2>1. t \in Requests /\ Req(t) = t /\ pc[t] = "confirm"
    BY <1>6 DEF ConfirmReservation, Goto, ReviewsPostNothing, Calls, Req
  <2>2. PICK row \in Confirmed(balance[j], Days[t]) :
           balance' = [balance EXCEPT ![j] = row]
    BY <1>6, <2>1 DEF ConfirmReservation, Save
  <2>3. DOMAIN balance' = DOMAIN InitBalance
    BY <2>2 DEF UsedOnce, IInv, TypeOK, StoreTypeOK
  <2>4. pc'[t] = "approve" /\ t \in filed /\ filed' = filed
    BY <1>6, <2>1 DEF ConfirmReservation, Goto, IInv, TypeOK,
       ApprovalsAreFiled, hcmVars
  <2>5. ASSUME NEW k \in DOMAIN InitBalance
        PROVE  UsedBound(k, balance'[k].used, MayBeCounted(k)')
    <3>1. CASE k # j
      BY <1>2, <1>3, <2>2, <3>1 DEF UsedOnce
    <3>2. CASE k = j
      <4> DEFINE S == MayBeCounted(k)
                 T == MayBeCounted(k)'
      <4>1. t \notin S /\ t \in T
        BY <2>1, <2>4, <3>2 DEF MayBeCounted, FiledOn
      <4>2. /\ S \in SUBSET T /\ T \in SUBSET Requests /\ IsFiniteSet(T)
            /\ S \in SUBSET Requests /\ IsFiniteSet(S)
        BY <1>1, FS_Subset
      <4>3. row.used \in Rounded(balance[k].used + Days[t])
        BY <1>3, <2>2, <3>2 DEF Confirmed, Counted, Released, Balance
      <4>4. row.used \in Nat
        BY <1>3, <2>1, <4>3, RoundedIsNatural
      <4>5. balance'[k] = row
        BY <2>2, <3>2 DEF UsedOnce
      <4>6. UsedBound(k, balance[k].used, S) /\ balance[k].used \in Nat
        BY <1>3
      <4> HIDE DEF S, T
      <4>7. UsedBound(k, row.used, S \cup {t})
        BY <2>1, <4>1, <4>2, <4>3, <4>6, BoundByOneMore
      <4>8. UsedBound(k, row.used, T)
        BY <4>1, <4>2, <4>4, <4>7, BoundByMore
      <4>9. QED
        BY <4>5, <4>8 DEF T
    <3>3. QED
      BY <3>1, <3>2
  <2>6. QED
    BY <2>3, <2>5
<1>7. ASSUME NEW t \in Calls, ReleaseReservation(t)
      PROVE  /\ DOMAIN balance' = DOMAIN InitBalance
             /\ \A k \in DOMAIN InitBalance :
                   UsedBound(k, balance'[k].used, MayBeCounted(k)')
  <2> DEFINE j == BalanceKey[Req(t)]
  <2>1. PICK row \in Released(balance[j], Days[Req(t)]) :
           balance' = [balance EXCEPT ![j] = row]
    BY <1>7 DEF ReleaseReservation, Save
  <2>2. DOMAIN balance' = DOMAIN InitBalance
    BY <2>1 DEF UsedOnce, IInv, TypeOK, StoreTypeOK
  <2>3. \A k \in DOMAIN InitBalance : balance'[k].used = balance[k].used
    BY <1>3, <2>1 DEF Released, Balance, UsedOnce
  <2>4. QED
    BY <1>2, <1>3, <2>2, <2>3
<1>8. QED
  BY <1>4, <1>5, <1>6, <1>7, BalanceWriters

\* usedDays counts only days filed with HCM, each request's once: by a late
\* or repeated answer, a failing statement, a stale save or a restart none is
\* counted again.  Reviews may reject and cancel; an approve review calls HCM
\* and confirms a second time.
THEOREM UsedDaysAreFiledOnce ==
    ASSUME IsFiniteSet(Requests),
           \A o \in Reviews : Kind[o] # "approve"
    PROVE  Spec => []UsedIsFiled
<1> DEFINE UInv == ReviewsPostNothing /\ UsedOnce
<1>1. Init => UInv
  <2> SUFFICES ASSUME Init PROVE UInv
    OBVIOUS
  <2>1. /\ balance = InitBalance /\ filed = {}
        /\ pc = [t \in Calls |-> "idle"]
    BY DEF Init, StoreInit, HcmInit
  <2>2. ASSUME NEW k \in DOMAIN InitBalance
        PROVE  UsedBound(k, balance[k].used, MayBeCounted(k))
    <3>1. MayBeCounted(k) = {}
      BY <2>1 DEF MayBeCounted, FiledOn
    <3>2. InitBalance[k].used \in Nat
      BY DEF Balance
    <3>3. QED
      BY <2>1, <3>1, <3>2, DaysOfNone, SlackOfNone DEF UsedBound, Inexact
  <2>3. ReviewsPostNothing
    BY <2>1 DEF ReviewsPostNothing, Calls
  <2>4. \A r \in Requests : pc[r] # "save"
    BY <2>1 DEF Calls
  <2>5. QED
    BY <2>1, <2>2, <2>3, <2>4 DEF UsedOnce
<1>2. IInv /\ UInv /\ [Next]_vars => UInv'
  <2> SUFFICES ASSUME IInv, UInv, [Next]_vars
               PROVE  UInv'
    OBVIOUS
  <2>1. ReviewsPostNothing'
    BY ReviewsGoOnPostingNothing
  <2>2. /\ DOMAIN balance' = DOMAIN InitBalance
        /\ \A k \in DOMAIN InitBalance :
              UsedBound(k, balance'[k].used, MayBeCounted(k)')
    BY RowsStayBounded
  <2>3. ASSUME NEW r \in Requests, pc'[r] = "save"
        PROVE  /\ BalanceKey[r] \in DOMAIN InitBalance
               /\ UsedBound(BalanceKey[r], entity'[r].used,
                            MayBeCounted(BalanceKey[r])')
    <3> DEFINE k == BalanceKey[r]
    <3>1. /\ k \in DOMAIN InitBalance
          /\ entity'[r] \in Balance
          /\ UsedBound(k, entity'[r].used, MayBeCounted(k))
      <4>1. CASE pc[r] = "save" /\ entity'[r] = entity[r]
        BY <4>1 DEF UsedOnce, IInv, TypeOK
      <4>2. CASE HasBalance(k) /\ entity'[r] = balance[k]
        BY <4>2 DEF UsedOnce, HasBalance, IInv, TypeOK, StoreTypeOK
      <4>3. QED
        BY <2>3, <4>1, <4>2, EntityReaders DEF IInv
    <3>2. entity'[r].used \in Nat
      BY <3>1 DEF Balance
    <3>3. MayBeCounted(k)' \in SUBSET Requests
      BY StepKeepsIInv DEF MayBeCounted, FiledOn, IInv, TypeOK, HcmTypeOK
    <3>4. IsFiniteSet(MayBeCounted(k)')
      BY <3>3, FS_Subset
    <3>5. QED
      BY <3>1, <3>2, <3>3, <3>4, BoundByMore, CountedGrows
  <2>4. QED
    BY <2>1, <2>2, <2>3 DEF UsedOnce
<1>3. IInv /\ UInv => UsedIsFiled
  <2> SUFFICES ASSUME IInv, UInv, NEW k \in DOMAIN InitBalance
               PROVE  2 * (balance[k].used - InitBalance[k].used
                              - DaysOf(FiledOn(k)))
                         <= Slack(FiledOn(k)) + Inexact(InitBalance[k].used)
    BY DEF UsedIsFiled, FiledOn
  <2>1. FiledOn(k) \in SUBSET Requests /\ IsFiniteSet(FiledOn(k))
    BY FS_Subset DEF FiledOn, IInv, TypeOK, HcmTypeOK
  <2>2. balance[k].used \in Nat /\ InitBalance[k].used \in Nat
    BY DEF UsedOnce, IInv, TypeOK, StoreTypeOK, Balance
  <2>3. UsedBound(k, balance[k].used, FiledOn(k))
    BY <2>1, <2>2, BoundByMore DEF UsedOnce, MayBeCounted
  <2>4. DaysOf(FiledOn(k)) \in Nat /\ Slack(FiledOn(k)) \in Nat
    BY <2>1, SumsOverMore
  <2>5. QED
    BY <2>2, <2>3, <2>4 DEF UsedBound, Inexact
<1>4. QED
  BY <1>1, <1>2, <1>3, Inductive, PTL DEF Spec
=============================================================================
