-------------------------- MODULE HeldDays_proofs --------------------------
(***************************************************************************)
(* Theorems about the days that TimeOffRequests holds, when the optimistic *)
(* lock works as reserveDays expects, for any finite number of requests,   *)
(* reviews, repeated keys, failing statements and restarts.                *)
(*                                                                         *)
(* No days stay reserved but those of calls that hold some or were cut     *)
(* short: the proof counts the days that no call has given back yet.  That *)
(* no days are lost or promised twice is another matter.  As the code is,  *)
(* a review gives back days that the submit call of its request gives back *)
(* as well, and so does a call whose last update fails; the bounds below   *)
(* the days held are therefore about balances that no review has touched,  *)
(* and statements that do not fail.                                        *)
(***************************************************************************)
EXTENDS FiledDays_proofs

USE DomainAssumption, StoreAssumption, HcmAssumption, RequestsAssumption

\* The steps of a submit call at which its days are held, and those after.
HoldsDays == {"insert", "post", "call", "confirm", "release"}

LetsGo == {"approve", "close", "done"}

BeforeInsert == {"idle", "reserve", "save", "insert"}

----------------------------------------------------------------------------
(***************************************************************************)
(* Which requests are stored, and have a balance.                          *)
(***************************************************************************)

\* A request is stored by its own call alone.
NewAreUnstored ==
    \A r \in Requests : pc[r] \in BeforeInsert => ~Stored(r)

\* A call that is about to reserve or insert knows a row, and so does one
\* whose request is stored.
RowsKnown ==
    \A r \in Requests :
        pc[r] \in {"save", "insert"} \/ Stored(r) => HasBalance(BalanceKey[r])

RequestsKnown == CallsAreStored /\ NewAreUnstored

\* What a step that moves call t on does to the tables of requests and calls.
MovesOn(t, to) ==
    /\ pc' = [pc EXCEPT ![t] = to]
    /\ to \in BeforeInsert => pc[t] \in BeforeInsert
    /\ t \in Requests /\ to = "insert" => pc[t] = "save"
    /\ to \in AfterInsert => \/ pc[t] \in AfterInsert
                             \/ Stored(Req(t))'
    /\ \A u \in posts' : u \in posts \/ (u = t /\ pc[t] = "post")
    /\ \A r \in Requests :
          /\ Stored(r) => Stored(r)'
          /\ Stored(r)' => \/ Stored(r)
                           \/ r = t /\ pc[t] = "insert" /\ to = "post"
                           \/ r = Req(t) /\ pc[t] \in {"approve", "close"}

LEMMA CallsMoveOn ==
    ASSUME TypeOK, Next
    PROVE  \/ \E t \in Calls : \E to : MovesOn(t, to)
           \/ /\ UNCHANGED <<pc, status>>
              /\ posts' \subseteq posts
           \/ Crash
<1>1. status \in [Requests -> Status]
  BY DEF TypeOK, StoreTypeOK
<1>2. ASSUME NEW r \in Requests, Submit(r) \/ Reserve(r)
      PROVE  \E to : MovesOn(r, to)
  <2>1. Req(r) = r
    BY DEF Req
  <2>2. CASE InsertRequest(r)
    BY <1>1, <2>1, <2>2 DEF InsertRequest, InsertUnindexed, SetStatus, Goto, MovesOn,
       Stored, BeforeInsert, AfterInsert, netVars
  <2>3. CASE ~InsertRequest(r)
    <3>1. status' = status /\ posts' = posts
      BY <1>2, <2>3 DEF Submit, Reserve, ReturnExisting, Validate, ReadBalance,
         Read, RefuseReservation, SaveReservation, SaveUnchecked, Save,
         LockConflict, InsertRefused, netVars, storeVars
    <3>2. \E to \in {"reserve", "save", "insert", "done"} :
             /\ pc' = [pc EXCEPT ![r] = to]
             /\ pc[r] \in BeforeInsert
             /\ to = "insert" => pc[r] = "save"
      <4>1. CASE Submit(r)
        BY <4>1 DEF Submit, ReturnExisting, Validate, Goto, BeforeInsert
      <4>2. CASE Reserve(r)
        BY <2>3, <4>2 DEF Reserve, ReadBalance, RefuseReservation,
           SaveReservation, SaveUnchecked, LockConflict, InsertRefused, Goto,
           BeforeInsert
      <4>3. QED
        BY <1>2, <4>1, <4>2
    <3>3. QED
      BY <3>1, <3>2 DEF MovesOn, Stored, AfterInsert
  <2>4. QED
    BY <2>2, <2>3
<1>3. ASSUME NEW o \in Reviews, Review(o)
      PROVE  \E to : MovesOn(o, to)
  <2>1. Req(o) = Target[o] /\ o \notin Requests
    BY DEF Req
  <2>2. status' = status /\ posts' = posts
    BY <1>3 DEF Review, Approve, Reject, Cancel, RefuseReview, netVars, storeVars
  <2>3. PICK to : /\ pc' = [pc EXCEPT ![o] = to]
                  /\ to = "done" \/ (to \in AfterInsert /\ Stored(Target[o]))
    BY <1>3 DEF Review, Approve, Reject, Cancel, RefuseReview, Goto, Reviewable,
       Stored, AfterInsert
  <2>4. QED
    BY <2>1, <2>2, <2>3 DEF MovesOn, Stored, AfterInsert, BeforeInsert
<1>4. ASSUME NEW t \in Calls, Settle(t)
      PROVE  \E to : MovesOn(t, to)
  <2>1. CASE PostToHcm(t)
    BY <2>1 DEF PostToHcm, Goto, MovesOn, Stored, AfterInsert, BeforeInsert,
       storeVars
  <2>2. CASE MarkApproved(t) \/ Close(t)
    <3>1. /\ pc' = [pc EXCEPT ![t] = "done"]
          /\ pc[t] \in {"approve", "close"}
          /\ posts' = posts
      BY <2>2 DEF MarkApproved, Close, Goto, netVars
    <3>2. \E s \in Settled : status' = [status EXCEPT ![Req(t)] = s]
      BY <2>2 DEF MarkApproved, Close, SetStatus, Settled
    <3>3. \A r \in Requests : /\ Stored(r) => Stored(r)'
                              /\ Stored(r)' => Stored(r) \/ r = Req(t)
      BY <1>1, <3>2 DEF Stored, Settled
    <3>4. QED
      BY <3>1, <3>3 DEF MovesOn, AfterInsert, BeforeInsert
  <2>3. CASE \/ HcmReplies(t) \/ CallFails(t) \/ ConfirmReservation(t)
             \/ ReleaseReservation(t)
    <3>1. status' = status /\ posts' = posts
      BY <2>3 DEF HcmReplies, CallFails, ConfirmReservation,
         ReleaseReservation, Save, netVars, storeVars
    <3>2. PICK to : /\ pc' = [pc EXCEPT ![t] = to]
                    /\ pc[t] \in AfterInsert /\ to \in AfterInsert
      BY <2>3 DEF HcmReplies, CallFails, ConfirmReservation,
         ReleaseReservation, Goto, AfterInsert
    <3>3. QED
      BY <3>1, <3>2 DEF MovesOn, Stored, AfterInsert, BeforeInsert
  <2>4. QED
    BY <1>4, <2>1, <2>2, <2>3 DEF Settle
<1>5. ASSUME NEW t \in Calls, TurnAway(t) \/ StatementFails(t)
      PROVE  \E to : MovesOn(t, to)
  <2>1. status' = status /\ posts' = posts
    BY <1>5 DEF TurnAway, StatementFails, netVars, storeVars
  <2>2. PICK to : /\ pc' = [pc EXCEPT ![t] = to]
                  /\ to = "done" \/ (to = "release" /\ pc[t] \in AfterInsert)
    BY <1>5 DEF TurnAway, StatementFails, Goto, AfterInsert
  <2>3. QED
    BY <2>1, <2>2 DEF MovesOn, Stored, AfterInsert, BeforeInsert
<1>6. ASSUME NEW t \in Calls, HcmAnswers(t)
      PROVE  UNCHANGED <<pc, status>> /\ posts' \subseteq posts
  BY <1>6 DEF HcmAnswers, storeVars, callVars
<1>7. QED
  BY <1>2, <1>3, <1>4, <1>5, <1>6 DEF Next, CallStep, Calls

\* Only stored requests are posted, settled or reviewed.
LEMMA RequestsStayKnown ==
    ASSUME TypeOK, RequestsKnown, [Next]_vars
    PROVE  RequestsKnown'
<1> USE DEF RequestsKnown
<1>1. ASSUME NEW t \in Calls, NEW to, MovesOn(t, to)
      PROVE  RequestsKnown'
  <2>1. \A u \in Calls : pc'[u] = IF u = t THEN to ELSE pc[u]
    BY <1>1 DEF MovesOn, TypeOK
  <2>2. \A u \in Calls : Req(u) \in Requests /\ Req(u)' = Req(u)
    BY CallsHaveRequests DEF Req
  <2>3. CallsAreStored'
    <3> SUFFICES ASSUME NEW u \in Calls, pc'[u] \in AfterInsert \/ u \in posts'
                 PROVE  Stored(Req(u))'
      BY DEF CallsAreStored
    <3>1. CASE u # t
      BY <1>1, <2>1, <2>2, <3>1 DEF MovesOn, CallsAreStored
    <3>2. CASE u = t
      BY <1>1, <2>1, <2>2, <3>2 DEF MovesOn, CallsAreStored, AfterInsert
    <3>3. QED
      BY <3>1, <3>2
  <2>4. NewAreUnstored'
    <3> SUFFICES ASSUME NEW r \in Requests, pc'[r] \in BeforeInsert, Stored(r)'
                 PROVE  FALSE
      BY DEF NewAreUnstored
    <3>1. r \in Calls /\ pc[r] \in BeforeInsert /\ ~Stored(r)
      BY <1>1, <2>1 DEF MovesOn, NewAreUnstored, Calls
    <3>2. r = Req(t) /\ pc[t] \in {"approve", "close"}
      BY <1>1, <2>1, <3>1 DEF MovesOn, BeforeInsert
    <3>3. QED
      BY <3>1, <3>2 DEF CallsAreStored, AfterInsert
  <2>5. QED
    BY <2>3, <2>4
<1>2. CASE UNCHANGED <<pc, status>> /\ posts' \subseteq posts
  BY <1>2 DEF CallsAreStored, NewAreUnstored, Stored, Req
<1>3. CASE Crash
  <2>1. /\ status' = status /\ posts' = posts
        /\ \A t \in Calls : pc'[t] = pc[t] \/ pc'[t] = "done"
    BY <1>3 DEF Crash, StoreCrash
  <2>2. QED
    BY <2>1 DEF CallsAreStored, NewAreUnstored, Stored, Req, AfterInsert,
       BeforeInsert, Calls
<1>4. CASE UNCHANGED vars
  BY <1>2, <1>4 DEF vars, storeVars, callVars, netVars
<1>5. QED
  BY <1>1, <1>2, <1>3, <1>4, CallsMoveOn

\* The balance of a request stays known, when no row is removed.
LEMMA RowsStayKnown ==
    ASSUME TypeOK, RequestsKnown, RowsKnown, [Next]_vars,
           DOMAIN balance \subseteq DOMAIN balance'
    PROVE  RowsKnown'
<1> SUFFICES ASSUME NEW r \in Requests,
                    pc'[r] \in {"save", "insert"} \/ Stored(r)'
             PROVE  HasBalance(BalanceKey[r])
  BY DEF RowsKnown, HasBalance
<1>0. r \in Calls
  BY DEF Calls
<1>1. CASE pc'[r] = "save"
  BY <1>1, EntityReaders DEF RowsKnown
<1>2. CASE pc'[r] = "insert" \/ Stored(r)'
  <2>1. ASSUME NEW t \in Calls, NEW to, MovesOn(t, to)
        PROVE  pc[r] \in {"save", "insert"} \/ Stored(r)
    BY <1>0, <1>2, <2>1
       DEF MovesOn, TypeOK, RequestsKnown, CallsAreStored, AfterInsert
  <2>2. CASE UNCHANGED <<pc, status>> \/ Crash
    BY <1>0, <1>2, <2>2 DEF Crash, StoreCrash, Stored, RowsKnown
  <2>3. CASE UNCHANGED vars
    BY <2>2, <2>3 DEF vars, storeVars, callVars
  <2>4. QED
    BY <2>1, <2>2, <2>3, CallsMoveOn DEF RowsKnown
<1>3. QED
  BY <1>1, <1>2

----------------------------------------------------------------------------
(***************************************************************************)
(* What a step does to the rows and to the days held.                      *)
(***************************************************************************)

\* The days of r are held: they are available in the row as it is.
HoldStep(r) ==
    LET j == BalanceKey[r]
    IN  /\ j \in DOMAIN balance
        /\ Available(balance[j]) >= Days[r]
        /\ \E m \in Rounded(balance[j].reserved + Days[r]) :
              balance' = [balance EXCEPT ![j].reserved = m]
        /\ pc[r] = "save"
        /\ pc' = [pc EXCEPT ![r] = "insert"]
        /\ UNCHANGED <<status, crashes>>

\* Call t turns the days of its request into used days.
TakeStep(t) ==
    LET j == BalanceKey[Req(t)]
    IN  /\ j \in DOMAIN balance
        /\ \E m \in Rounded(balance[j].reserved - Days[Req(t)]),
              n \in Rounded(balance[j].used + Days[Req(t)]) :
              balance' = [balance EXCEPT ![j].reserved = NotBelowZero(m),
                                         ![j].used = n]
        /\ pc[t] = "confirm"
        /\ pc' = [pc EXCEPT ![t] = "approve"]
        /\ UNCHANGED <<status, crashes>>

\* Call t frees the days of its request.
FreeStep(t) ==
    LET j == BalanceKey[Req(t)]
    IN  /\ j \in DOMAIN balance
        /\ \E m \in Rounded(balance[j].reserved - Days[Req(t)]) :
              balance' = [balance EXCEPT ![j].reserved = NotBelowZero(m)]
        /\ pc[t] = "release"
        /\ pc' = [pc EXCEPT ![t] = "close"]
        /\ UNCHANGED <<status, crashes>>

\* Some call has given the days of r back.
Freed(r) ==
    \/ status[r] \in Settled
    \/ \E t \in Calls : Req(t) = r /\ pc[t] \in {"approve", "close"}

\* Call t moves on without touching a row.  It comes to hold days only for a
\* review, or when it failed after it gave days back, and stops holding some
\* only when it is cut short.
PassesOn(t, to) ==
    /\ UNCHANGED <<balance, crashes>>
    /\ pc' = [pc EXCEPT ![t] = to]
    /\ pc[t] # "done" /\ to \notin {"idle", "approve", "close"}
    /\ to \in HoldsDays => \/ pc[t] \in HoldsDays
                           \/ t \in Reviews
                           \/ DbMayFail /\ pc[t] \in LetsGo
    /\ pc[t] \in HoldsDays => \/ to \in HoldsDays
                              \/ to = "done" /\ (t \in Requests => CutShort(t))
    /\ pc[t] \in LetsGo => to \in LetsGo \/ (DbMayFail /\ to \in HoldsDays)
    /\ \A r \in Requests :
          /\ Stored(r) => Stored(r)'
          /\ status'[r] \in Settled => status[r] \in Settled \/ (r = Req(t) /\ Freed(r))

\* The same of any step, or none, that touches no row.
QuietStep ==
    /\ UNCHANGED balance
    /\ \A t \in Calls :
          /\ pc'[t] = "idle" => pc[t] = "idle"
          /\ pc[t] = "done" => pc'[t] = "done"
          /\ pc'[t] \in HoldsDays => \/ pc[t] \in HoldsDays
                                     \/ t \in Reviews
                                     \/ DbMayFail /\ pc[t] \in LetsGo
          /\ pc[t] \in HoldsDays => \/ pc'[t] \in HoldsDays
                                    \/ /\ pc'[t] = "done"
                                       /\ t \in Requests => CutShort(t)'
          /\ pc[t] \in LetsGo => \/ pc'[t] \in LetsGo
                                 \/ DbMayFail /\ pc'[t] \in HoldsDays
    /\ \A r \in Requests : /\ Freed(r)' => Freed(r)
                           /\ CutShort(r) => CutShort(r)'
    /\ \/ Claims' \subseteq Claims
       \/ \E t \in Calls \ Claims : /\ t \in Reviews \/ DbMayFail
                                    /\ Claims' = Claims \cup {t}

LEMMA PassingOnIsQuiet ==
    ASSUME TypeOK, NEW t \in Calls, NEW to, PassesOn(t, to)
    PROVE  QuietStep
<1>1. \A u \in Calls : pc'[u] = IF u = t THEN to ELSE pc[u]
  BY DEF PassesOn, TypeOK
<1>2. ASSUME NEW r \in Requests
      PROVE  CutShort(r) => CutShort(r)'
  BY DEF PassesOn, CutShort, Stored
<1>3. ASSUME NEW r \in Requests, Freed(r)'
      PROVE  Freed(r)
  <2>1. CASE status'[r] \in Settled
    BY <2>1 DEF PassesOn, Freed
  <2>2. ASSUME NEW u \in Calls, Req(u)' = r, pc'[u] \in {"approve", "close"}
        PROVE  Freed(r)
    <3>1. u # t /\ pc'[u] = pc[u]
      BY <1>1, <2>2 DEF PassesOn
    <3>2. Req(u) = r
      BY <2>2 DEF Req
    <3>3. QED
      BY <2>2, <3>1, <3>2 DEF Freed
  <2>3. QED
    BY <1>3, <2>1, <2>2 DEF Freed
<1>4. \/ Claims' \subseteq Claims
      \/ \E u \in Calls \ Claims : /\ u \in Reviews \/ DbMayFail
                                   /\ Claims' = Claims \cup {u}
  <2>1. Claims = {u \in Calls : pc[u] \in HoldsDays}
        /\ Claims' = {u \in Calls : pc'[u] \in HoldsDays}
    BY DEF Claims, HoldsDays, Calls
  <2>2. CASE to \in HoldsDays /\ pc[t] \notin HoldsDays
    <3>1. t \in Calls \ Claims /\ (t \in Reviews \/ DbMayFail)
      BY <2>1, <2>2 DEF PassesOn
    <3>2. Claims' = Claims \cup {t}
      BY <1>1, <2>1, <2>2
    <3>3. QED
      BY <3>1, <3>2
  <2>3. CASE ~(to \in HoldsDays /\ pc[t] \notin HoldsDays)
    BY <1>1, <2>1, <2>3
  <2>4. QED
    BY <2>2, <2>3
<1>5. ASSUME NEW u \in Calls
      PROVE  /\ pc'[u] = "idle" => pc[u] = "idle"
             /\ pc[u] = "done" => pc'[u] = "done"
             /\ pc'[u] \in HoldsDays => \/ pc[u] \in HoldsDays
                                        \/ u \in Reviews
                                        \/ DbMayFail /\ pc[u] \in LetsGo
             /\ pc[u] \in HoldsDays => \/ pc'[u] \in HoldsDays
                                       \/ /\ pc'[u] = "done"
                                          /\ u \in Requests => CutShort(u)'
             /\ pc[u] \in LetsGo => \/ pc'[u] \in LetsGo
                                    \/ DbMayFail /\ pc'[u] \in HoldsDays
  BY <1>1, <1>2 DEF PassesOn
<1>6. UNCHANGED balance
  BY DEF PassesOn
<1>7. QED
  BY <1>2, <1>3, <1>4, <1>5, <1>6 DEF QuietStep

\* Every step is of one of these kinds.
StepIsOfAKind ==
    \/ \E r \in Requests : HoldStep(r)
    \/ \E t \in Calls : TakeStep(t) \/ FreeStep(t)
    \/ QuietStep

LEMMA StepKinds ==
    ASSUME OptimisticLock, TypeOK, RequestsKnown, RowsKnown, CurrentEntities,
           [Next]_vars
    PROVE  StepIsOfAKind
<1> USE DEF StepIsOfAKind
<1>1. entity \in [Requests -> Balance] /\ status \in [Requests -> Status]
      /\ crashes \in Nat
  BY DEF TypeOK, StoreTypeOK
<1>2. \A t \in Calls : pc[t] \in {"confirm", "release"} =>
         /\ BalanceKey[Req(t)] \in DOMAIN balance
         /\ balance[BalanceKey[Req(t)]] \in Balance
  BY CallsHaveRequests
     DEF RequestsKnown, CallsAreStored, AfterInsert, RowsKnown, HasBalance,
         TypeOK, StoreTypeOK
<1>3. ASSUME NEW r \in Requests, SaveReservation(r)
      PROVE  HoldStep(r)
  <2> DEFINE j == BalanceKey[r]
  <2>1. /\ pc[r] = "save" /\ pc' = [pc EXCEPT ![r] = "insert"]
        /\ r \in fresh[j]
        /\ UNCHANGED <<status, crashes>>
        /\ \E row \in Reserved(entity[r], Days[r]) :
              balance' = [balance EXCEPT ![j] = row]
    BY <1>3 DEF SaveReservation, SaveUnchecked, MaySave, Save, Goto
  <2>2. /\ j \in DOMAIN balance
        /\ entity[r] = balance[j]
        /\ Available(balance[j]) >= Days[r]
    BY <2>1 DEF CurrentEntities, HasBalance
  <2>3. PICK row \in Reserved(balance[j], Days[r]) :
           balance' = [balance EXCEPT ![j] = row]
    BY <2>1, <2>2
  <2>4. PICK m \in Rounded(balance[j].reserved + Days[r]) :
           row = [balance[j] EXCEPT !.reserved = m]
    BY <2>3 DEF Reserved
  <2>5. balance' = [balance EXCEPT ![j].reserved = m]
    BY <2>3, <2>4
  <2>6. QED
    BY <2>1, <2>2, <2>5 DEF HoldStep
<1>4. ASSUME NEW t \in Calls, ConfirmReservation(t)
      PROVE  TakeStep(t)
  <2> DEFINE j == BalanceKey[Req(t)]
             d == Days[Req(t)]
  <2>1. /\ pc[t] = "confirm" /\ pc' = [pc EXCEPT ![t] = "approve"]
        /\ UNCHANGED <<status, crashes>>
        /\ \E row \in Confirmed(balance[j], d) :
              balance' = [balance EXCEPT ![j] = row]
    BY <1>4 DEF ConfirmReservation, Save, Goto
  <2>2. PICK row \in Confirmed(balance[j], d) :
           balance' = [balance EXCEPT ![j] = row]
    BY <2>1
  <2>3. PICK freed \in Released(balance[j], d) : row \in Counted(freed, d)
    BY <2>2 DEF Confirmed
  <2>4. PICK m \in Rounded(balance[j].reserved - d) :
           freed = [balance[j] EXCEPT !.reserved = NotBelowZero(m)]
    BY <2>3 DEF Released
  <2>5. balance[j] \in Balance /\ freed.used = balance[j].used
    BY <1>2, <2>1, <2>4 DEF Balance
  <2>6. PICK n \in Rounded(balance[j].used + d) :
           row = [balance[j] EXCEPT !.reserved = NotBelowZero(m), !.used = n]
    <3>1. PICK n \in Rounded(freed.used + d) : row = [freed EXCEPT !.used = n]
      BY <2>3 DEF Counted
    <3>2. QED
      BY <2>4, <2>5, <3>1
  <2>7. balance' = [balance EXCEPT ![j].reserved = NotBelowZero(m),
                                   ![j].used = n]
    BY <2>2, <2>6
  <2>8. QED
    BY <1>2, <2>1, <2>7 DEF TakeStep
<1>5. ASSUME NEW t \in Calls, ReleaseReservation(t)
      PROVE  FreeStep(t)
  <2> DEFINE j == BalanceKey[Req(t)]
  <2>1. /\ pc[t] = "release" /\ pc' = [pc EXCEPT ![t] = "close"]
        /\ UNCHANGED <<status, crashes>>
        /\ \E row \in Released(balance[j], Days[Req(t)]) :
              balance' = [balance EXCEPT ![j] = row]
    BY <1>5 DEF ReleaseReservation, Save, Goto
  <2>2. PICK m \in Rounded(balance[j].reserved - Days[Req(t)]) :
           balance' = [balance EXCEPT
                         ![j] = [balance[j] EXCEPT !.reserved = NotBelowZero(m)]]
    BY <2>1 DEF Released
  <2>3. balance' = [balance EXCEPT ![j].reserved = NotBelowZero(m)]
    BY <2>2
  <2>4. QED
    BY <1>2, <2>1, <2>3 DEF FreeStep
<1>6. ASSUME NEW r \in Requests,
             \/ ReturnExisting(r)    \/ Validate(r)      \/ ReadBalance(r)
             \/ RefuseReservation(r) \/ LockConflict(r)
      PROVE  QuietStep
  <2>1. UNCHANGED <<balance, status, crashes>>
    BY <1>6 DEF ReturnExisting, Validate, ReadBalance, Read, RefuseReservation,
       LockConflict, storeVars
  <2>2. PICK to : /\ pc' = [pc EXCEPT ![r] = to]
                  /\ pc[r] \in {"idle", "reserve", "save"}
                  /\ to \in {"reserve", "save", "done"}
    BY <1>6 DEF ReturnExisting, Validate, ReadBalance, RefuseReservation,
       LockConflict, Goto
  <2>3. QED
    BY <2>1, <2>2, PassingOnIsQuiet
       DEF PassesOn, HoldsDays, LetsGo, Stored, Calls
<1>7. ASSUME NEW r \in Requests, InsertRequest(r) \/ InsertRefused(r)
      PROVE  QuietStep
  <2>1. r \in Calls /\ UNCHANGED <<balance, crashes>> /\ pc[r] = "insert"
    BY <1>7 DEF InsertRequest, InsertUnindexed, InsertRefused, SetStatus, Goto,
       Calls, storeVars
  <2>2. CASE InsertRequest(r)
    <3>1. /\ pc' = [pc EXCEPT ![r] = "post"]
          /\ status' = [status EXCEPT ![r] = "PENDING"]
      BY <2>2 DEF InsertRequest, InsertUnindexed, SetStatus, Goto
    <3>2. PassesOn(r, "post")
      BY <1>1, <2>1, <3>1 DEF PassesOn, HoldsDays, LetsGo, Stored, Settled
    <3>3. QED
      BY <2>1, <3>2, PassingOnIsQuiet
  <2>3. CASE InsertRefused(r)
    <3>1. /\ pc' = [pc EXCEPT ![r] = "done"] /\ status' = status
          /\ KeyTaken(r)
      BY <2>3 DEF InsertRefused, Goto, storeVars
    <3>2. CutShort(r)
      BY <2>1, <3>1 DEF KeyTaken, CutShort, RequestsKnown, NewAreUnstored,
         BeforeInsert, Stored
    <3>3. PassesOn(r, "done")
      BY <2>1, <3>1, <3>2 DEF PassesOn, HoldsDays, LetsGo, Stored
    <3>4. QED
      BY <2>1, <3>3, PassingOnIsQuiet
  <2>4. QED
    BY <1>7, <2>2, <2>3
<1>8. ASSUME NEW t \in Calls,
             PostToHcm(t) \/ HcmReplies(t) \/ CallFails(t) \/ TurnAway(t)
      PROVE  QuietStep
  <2>1. UNCHANGED <<balance, status, crashes>>
    BY <1>8 DEF PostToHcm, HcmReplies, CallFails, TurnAway, storeVars
  <2>2. PICK to : /\ pc' = [pc EXCEPT ![t] = to]
                  /\ \/ pc[t] = "idle" /\ to = "done"
                     \/ /\ pc[t] \in {"post", "call"}
                        /\ to \in {"call", "confirm", "release"}
    BY <1>8 DEF PostToHcm, HcmReplies, CallFails, TurnAway, Goto
  <2>3. QED
    BY <2>1, <2>2, PassingOnIsQuiet DEF PassesOn, HoldsDays, LetsGo, Stored
<1>9. ASSUME NEW t \in Calls, MarkApproved(t) \/ Close(t)
      PROVE  QuietStep
  <2>1. /\ UNCHANGED <<balance, crashes>>
        /\ pc[t] \in {"approve", "close"} /\ pc' = [pc EXCEPT ![t] = "done"]
    BY <1>9 DEF MarkApproved, Close, SetStatus, Goto
  <2>2. \E s \in Settled : status' = [status EXCEPT ![Req(t)] = s]
    BY <1>9 DEF MarkApproved, Close, SetStatus, Settled
  <2>3. \A r \in Requests :
           /\ Stored(r) => Stored(r)'
           /\ status'[r] \in Settled => status[r] \in Settled \/ r = Req(t)
    BY <1>1, <2>2 DEF Stored, Settled
  <2>4. Freed(Req(t))
    BY <2>1 DEF Freed
  <2>5. PassesOn(t, "done")
    BY <2>1, <2>3, <2>4 DEF PassesOn, HoldsDays, LetsGo
  <2>6. QED
    BY <2>5, PassingOnIsQuiet
<1>10. ASSUME NEW o \in Reviews, Review(o)
       PROVE  QuietStep
  <2>1. UNCHANGED <<balance, status, crashes>> /\ o \in Calls
    BY <1>10 DEF Review, Approve, Reject, Cancel, RefuseReview, storeVars, Calls
  <2>2. PICK to : /\ pc' = [pc EXCEPT ![o] = to]
                  /\ pc[o] = "idle"
                  /\ to \in {"post", "release", "done"}
    BY <1>10 DEF Review, Approve, Reject, Cancel, RefuseReview, Goto
  <2>3. QED
    BY <2>1, <2>2, PassingOnIsQuiet DEF PassesOn, HoldsDays, LetsGo, Stored
<1>11. ASSUME NEW t \in Calls, StatementFails(t)
       PROVE  QuietStep
  <2>1. UNCHANGED <<balance, status, crashes>> /\ DbMayFail
    BY <1>11 DEF StatementFails, storeVars
  <2>2. PICK to : /\ pc' = [pc EXCEPT ![t] = to]
                  /\ \/ pc[t] \in {"confirm", "approve"} /\ to = "release"
                     \/ /\ pc[t] \in {"reserve", "save", "insert", "release",
                                      "close"}
                        /\ to = "done"
    BY <1>11 DEF StatementFails, Goto
  <2>3. QED
    BY <2>1, <2>2, PassingOnIsQuiet
       DEF PassesOn, HoldsDays, LetsGo, Stored, CutShort
<1>12. ASSUME UNCHANGED <<balance, pc, status, crashes>>
       PROVE  QuietStep
  BY <1>12 DEF QuietStep, Freed, CutShort, Claims, Req, Calls
<1>13. CASE Crash
  <2>1. /\ UNCHANGED <<balance, status>> /\ crashes' = crashes + 1
        /\ \A t \in Calls : pc'[t] = IF pc[t] = "idle" THEN "idle" ELSE "done"
    BY <1>13 DEF Crash, StoreCrash
  <2>2. crashes' > 0
    BY <1>1, <2>1
  <2>3. \A r \in Requests : CutShort(r)' /\ (Freed(r)' => Freed(r))
    BY <2>1, <2>2 DEF CutShort, Freed
  <2>4. Claims' \subseteq Claims
    BY <2>1 DEF Claims
  <2>5. QED
    BY <2>1, <2>3, <2>4 DEF QuietStep, HoldsDays, LetsGo
<1>14. ASSUME NEW t \in Calls, HcmAnswers(t)
       PROVE  QuietStep
  BY <1>12, <1>14 DEF HcmAnswers, storeVars, callVars
<1>15. CASE UNCHANGED vars
  BY <1>12, <1>15 DEF vars, storeVars, callVars
<1>16. ASSUME NEW r \in Requests, Submit(r) \/ Reserve(r)
       PROVE  StepIsOfAKind
  BY <1>3, <1>6, <1>7, <1>16 DEF Submit, Reserve
<1>17. ASSUME NEW t \in Calls, Settle(t)
       PROVE  StepIsOfAKind
  BY <1>4, <1>5, <1>8, <1>9, <1>17 DEF Settle
<1>18. QED
  BY <1>8, <1>10, <1>11, <1>13, <1>14, <1>15, <1>16, <1>17 DEF Next, CallStep

\* The rows that there were at first stay, and the calls know theirs.
RowsInv ==
    /\ DOMAIN InitBalance \subseteq DOMAIN balance
    /\ RowsKnown
    /\ RequestsKnown
    /\ CurrentEntities

LEMMA RowsStay ==
    ASSUME OptimisticLock, TypeOK, RowsInv, [Next]_vars
    PROVE  RowsInv' /\ DOMAIN balance' = DOMAIN balance
<1>1. StepIsOfAKind
  BY StepKinds DEF RowsInv
<1>2. DOMAIN balance' = DOMAIN balance
  BY <1>1 DEF StepIsOfAKind, HoldStep, TakeStep, FreeStep, QuietStep
<1>3. CurrentEntities' /\ RequestsKnown' /\ RowsKnown'
  BY <1>2, EntitiesStayCurrent, RequestsStayKnown, RowsStayKnown DEF RowsInv
<1>4. QED
  BY <1>2, <1>3 DEF RowsInv

----------------------------------------------------------------------------
(***************************************************************************)
(* Whose days are held: those of the calls that hold some, and those that  *)
(* no call has given back yet.                                             *)
(***************************************************************************)

\* The requests whose days are held on the balance of k for all that has been
\* given back, and the others that held some once.
Unfreed(k) ==
    {r \in Requests : /\ BalanceKey[r] = k
                      /\ pc[r] \in HoldsDays \cup {"done"}
                      /\ ~Freed(r)
                      /\ pc[r] = "done" => CutShort(r)}

Others(k) == (Holding(k) \cup LetGo(k)) \ Unfreed(k)

LEMMA HoldersAre ==
    ASSUME NEW k
    PROVE  /\ Holding(k) = {r \in Requests : BalanceKey[r] = k /\ pc[r] \in HoldsDays}
           /\ LetGo(k) = {r \in Requests : BalanceKey[r] = k /\ pc[r] \in LetsGo}
           /\ Holding(k)' = {r \in Requests : BalanceKey[r] = k /\ pc'[r] \in HoldsDays}
           /\ LetGo(k)' = {r \in Requests : BalanceKey[r] = k /\ pc'[r] \in LetsGo}
BY DEF Holding, LetGo, HoldsDays, LetsGo

\* Both halves, before a step and after it, are of different requests.
LEMMA HoldersAreRequests ==
    ASSUME NEW k
    PROVE  /\ Holding(k) \in SUBSET Requests /\ LetGo(k) \in SUBSET Requests
           /\ Holding(k) \cap LetGo(k) = {}
           /\ Holding(k)' \in SUBSET Requests /\ LetGo(k)' \in SUBSET Requests
           /\ Holding(k)' \cap LetGo(k)' = {}
           /\ Unfreed(k) \in SUBSET Requests /\ Others(k) \in SUBSET Requests
           /\ Unfreed(k) \cap Others(k) = {}
           /\ Unfreed(k)' \in SUBSET Requests /\ Others(k)' \in SUBSET Requests
           /\ Unfreed(k)' \cap Others(k)' = {}
           /\ Unfreed(k) \subseteq Holding(k) \cup LetGo(k)
           /\ Unfreed(k)' \subseteq Holding(k)' \cup LetGo(k)'
BY DEF Holding, LetGo, Unfreed, Others, HoldsDays

\* A hold joins the calls that hold days.
LEMMA HoldJoins ==
    ASSUME TypeOK, RequestsKnown, NEW r \in Requests, HoldStep(r), NEW k
    PROVE  /\ k = BalanceKey[r] =>
                 /\ r \notin Holding(k) /\ Holding(k)' = Holding(k) \cup {r}
                 /\ r \notin Unfreed(k) /\ Unfreed(k)' = Unfreed(k) \cup {r}
           /\ k # BalanceKey[r] => /\ Holding(k)' = Holding(k)
                                  /\ Unfreed(k)' = Unfreed(k)
           /\ LetGo(k)' = LetGo(k) /\ Others(k)' = Others(k)
<1>1. pc[r] = "save" /\ pc' = [pc EXCEPT ![r] = "insert"]
      /\ status' = status /\ crashes' = crashes
  BY DEF HoldStep
<1>2. \A u \in Calls : pc'[u] = IF u = r THEN "insert" ELSE pc[u]
  BY <1>1 DEF TypeOK
<1>3. Requests \subseteq Calls
  BY DEF Calls
<1>4. \A q \in Requests : (Freed(q)' <=> Freed(q)) /\ (CutShort(q)' <=> CutShort(q))
  BY <1>1, <1>2 DEF Freed, CutShort, Req
<1>5. ~Freed(r)
  BY <1>1 DEF Freed, RequestsKnown, NewAreUnstored, CallsAreStored, Stored,
     BeforeInsert, AfterInsert, Settled
<1>6. /\ k = BalanceKey[r] =>
             r \notin Unfreed(k) /\ Unfreed(k)' = Unfreed(k) \cup {r}
      /\ k # BalanceKey[r] => Unfreed(k)' = Unfreed(k)
  BY <1>1, <1>2, <1>3, <1>4, <1>5 DEF Unfreed, HoldsDays
<1>7. /\ k = BalanceKey[r] =>
             r \notin Holding(k) /\ Holding(k)' = Holding(k) \cup {r}
      /\ k # BalanceKey[r] => Holding(k)' = Holding(k)
      /\ LetGo(k)' = LetGo(k) /\ r \notin LetGo(k)
  <2>1. pc[r] = "save" /\ pc'[r] = "insert"
        /\ \A q \in Requests \ {r} : pc'[q] = pc[q]
    BY <1>1, <1>2, <1>3
  <2>2. QED
    BY <2>1 DEF Holding, LetGo
<1>8. Others(k)' = Others(k)
  BY <1>6, <1>7 DEF Others
<1>9. QED
  BY <1>6, <1>7, <1>8

\* Giving days back, for a submit call or a review, lets go of them.
LEMMA GivingBackFrees ==
    ASSUME TypeOK, RequestsKnown, NEW t \in Calls, TakeStep(t) \/ FreeStep(t),
           NEW k
    PROVE  LET r == Req(t)
           IN  /\ k = BalanceKey[r] /\ r \in Unfreed(k) =>
                     /\ Unfreed(k)' = Unfreed(k) \ {r}
                     /\ Others(k)' = Others(k) \cup {r}
               /\ k # BalanceKey[r] \/ r \notin Unfreed(k) =>
                     /\ Unfreed(k)' = Unfreed(k)
                     /\ Others(k)' = Others(k)
<1> DEFINE r == Req(t)
<1>1. PICK to \in {"approve", "close"} : pc' = [pc EXCEPT ![t] = to]
  BY DEF TakeStep, FreeStep
<1>2. /\ pc[t] \in {"confirm", "release"}
      /\ status' = status /\ crashes' = crashes
  BY DEF TakeStep, FreeStep
<1>3. \A u \in Calls : pc'[u] = IF u = t THEN to ELSE pc[u]
  BY <1>1 DEF TypeOK
<1>4. /\ r \in Requests /\ r \in Calls /\ Requests \subseteq Calls
      /\ \A q \in Requests : Req(q) = q
      /\ \A u \in Calls : Req(u)' = Req(u)
  BY CallsHaveRequests DEF Calls, Req
<1>5. Freed(r)'
  BY <1>3, <1>4 DEF Freed
<1>6. \A q \in Requests : /\ q # r => (Freed(q)' <=> Freed(q))
                          /\ CutShort(q)' <=> CutShort(q)
  BY <1>2, <1>3, <1>4 DEF Freed, CutShort
<1>7. Unfreed(k)' = Unfreed(k) \ {r}
  BY <1>2, <1>3, <1>4, <1>5, <1>6 DEF Unfreed, HoldsDays
<1>8. Holding(k)' \cup LetGo(k)' = Holding(k) \cup LetGo(k)
  BY <1>2, <1>3, <1>4, HoldersAre DEF HoldsDays, LetsGo
<1>9. Unfreed(k) \subseteq Holding(k) \cup LetGo(k)
  BY HoldersAreRequests
<1>10. k # BalanceKey[r] => r \notin Unfreed(k)
  BY DEF Unfreed
<1>11. QED
  BY <1>7, <1>8, <1>9, <1>10 DEF Others

\* A submit call that gives its days back no longer holds them.  A review
\* moves no submit call.
LEMMA HolderLeaves ==
    ASSUME TypeOK, NEW r \in Requests, TakeStep(r) \/ FreeStep(r), NEW k
    PROVE  /\ k = BalanceKey[r] => /\ r \in Holding(k)
                                  /\ Holding(k)' = Holding(k) \ {r}
                                  /\ LetGo(k)' = LetGo(k) \cup {r}
           /\ k # BalanceKey[r] => /\ Holding(k)' = Holding(k)
                                  /\ LetGo(k)' = LetGo(k)
<1>1. pc[r] \in {"confirm", "release"}
  BY DEF TakeStep, FreeStep
<1>2. pc'[r] \in {"approve", "close"} /\ \A q \in Requests \ {r} : pc'[q] = pc[q]
  BY DEF TakeStep, FreeStep, TypeOK, Calls
<1>3. QED
  BY <1>1, <1>2 DEF Holding, LetGo

LEMMA ReviewHoldsNothing ==
    ASSUME TypeOK, NEW o \in Reviews, TakeStep(o) \/ FreeStep(o), NEW k
    PROVE  Holding(k)' = Holding(k) /\ LetGo(k)' = LetGo(k)
<1>1. \A q \in Requests : pc'[q] = pc[q]
  BY DEF TakeStep, FreeStep, TypeOK, Calls
<1>2. QED
  BY <1>1 DEF Holding, LetGo

\* Other steps leave the days that are held where they are: calls that are
\* cut short give nothing back.
LEMMA QuietKeepsUnfreed ==
    ASSUME QuietStep, NEW k
    PROVE  /\ Unfreed(k) \subseteq Unfreed(k)'
           /\ Unfreed(k) \cup Others(k) \subseteq Unfreed(k)' \cup Others(k)'
<1>1. Requests \subseteq Calls
  BY DEF Calls
<1>2. ASSUME NEW r \in Unfreed(k)
      PROVE  r \in Unfreed(k)'
  BY <1>1 DEF Unfreed, QuietStep, HoldsDays
<1>3. Holding(k) \cup LetGo(k) \subseteq Holding(k)' \cup LetGo(k)'
  BY <1>1, HoldersAre DEF QuietStep, LetsGo
<1>4. QED
  BY <1>2, <1>3, HoldersAreRequests DEF Others

LEMMA HoldersEnd ==
    ASSUME QuietStep, ~DbMayFail, NEW k
    PROVE  /\ Holding(k)' \subseteq Holding(k)
           /\ Holding(k) \ Holding(k)' \subseteq LetGo(k)'
           /\ LetGo(k) \subseteq LetGo(k)'
<1>1. \A r \in Requests : r \in Calls /\ r \notin Reviews
  BY DEF Calls
<1>2. QED
  BY <1>1, HoldersAre DEF QuietStep, LetsGo

----------------------------------------------------------------------------
(***************************************************************************)
(* Bounds on the columns of a row, in terms of the set H of the requests   *)
(* whose days are held on it and the set L of those that let go of them.   *)
(***************************************************************************)

\* n reserved days of k are no fewer than those held, but for what rounding
\* lost.
NoneLost(k, n, H, L) ==
    2 * (InitBalance[k].reserved + DaysOf(H) - n) <= Slack(H) + 2 * Slack(L)

\* They are no more.
NoneLeft(k, n, H, L) ==
    2 * (n - InitBalance[k].reserved - DaysOf(H)) <= Slack(H) + 2 * Slack(L)

\* Row b of k covers its used days and the days held.
Covered(k, b, H, L) ==
    /\ Inexact(b.used) <= Inexact(InitBalance[k].used)
    /\ 2 * (b.used + InitBalance[k].reserved + DaysOf(H) - b.total)
          + Inexact(b.used)
            <= Slack(H) + 3 * Slack(L) + Inexact(InitBalance[k].used)

\* Two sets of calls that have none in common.
Apart(H, L) ==
    /\ H \in SUBSET Requests /\ IsFiniteSet(H)
    /\ L \in SUBSET Requests /\ IsFiniteSet(L)
    /\ H \cap L = {}

\* The sums when call r moves from the first set to the second.
OneLeaves(H, L, r) ==
    LET R == H \ {r}
        M == L \cup {r}
    IN  /\ DaysOf(R) \in Nat /\ DaysOf(H) \in Nat
        /\ Slack(R) \in Nat /\ Slack(H) \in Nat
        /\ Slack(L) \in Nat /\ Slack(M) \in Nat
        /\ Days[r] \in Nat /\ Inexact(Days[r]) \in Nat
        /\ DaysOf(H) = DaysOf(R) + Days[r]
        /\ Slack(H) = Slack(R) + Inexact(Days[r])
        /\ Slack(M) = Slack(L) + Inexact(Days[r])

LEMMA SumsWhenOneLeaves ==
    ASSUME NEW H, NEW L, Apart(H, L), NEW r \in H
    PROVE  OneLeaves(H, L, r)
<1> DEFINE R == H \ {r}
           M == L \cup {r}
<1>1. /\ R \in SUBSET Requests /\ IsFiniteSet(R)
      /\ M \in SUBSET Requests /\ IsFiniteSet(M)
      /\ R \cap M = {}
      /\ r \in Requests /\ r \notin R /\ r \notin L
      /\ H = R \cup {r}
  BY FS_Subset, FS_AddElement DEF Apart
<1>2. /\ DaysOf(H) = DaysOf(R) + Days[r]
      /\ Slack(H) = Slack(R) + Inexact(Days[r])
      /\ Slack(M) = Slack(L) + Inexact(Days[r])
  BY <1>1, SumsWithOneMore DEF Apart
<1>3. /\ DaysOf(R) \in Nat /\ DaysOf(H) \in Nat
      /\ Slack(R) \in Nat /\ Slack(H) \in Nat
      /\ Slack(L) \in Nat /\ Slack(M) \in Nat
  BY <1>1, SumsOverMore DEF Apart
<1>4. Days[r] \in Nat /\ Inexact(Days[r]) \in Nat
  BY <1>1 DEF Inexact
<1>5. QED
  BY <1>1, <1>2, <1>3, <1>4 DEF OneLeaves

\* A hold keeps the bounds.
LEMMA HoldingKeepsBounds ==
    ASSUME NEW H, NEW L, Apart(H, L), NEW r \in Requests \ H,
           NEW k \in DOMAIN InitBalance, NEW n \in Nat, Inexact(n) = 0,
           NEW m \in Rounded(n + Days[r])
    PROVE  /\ Inexact(m) = 0
           /\ NoneLost(k, n, H, L) => NoneLost(k, m, H \cup {r}, L)
           /\ NoneLeft(k, n, H, L) => NoneLeft(k, m, H \cup {r}, L)
<1>1. /\ DaysOf(H \cup {r}) = DaysOf(H) + Days[r]
      /\ Slack(H \cup {r}) = Slack(H) + Inexact(Days[r])
      /\ DaysOf(H) \in Nat /\ Slack(H) \in Nat /\ Slack(L) \in Nat
  BY SumsWithOneMore, SumsOverMore DEF Apart
<1>2. InitBalance[k].reserved \in Nat /\ Days[r] \in Nat
      /\ Inexact(Days[r]) \in Nat
  BY DEF Balance, Inexact
<1>3. /\ m \in Int /\ Inexact(m) = 0
      /\ Near(m, n + Days[r], Inexact(n) + Inexact(Days[r]))
  BY <1>2, RoundedSumIsNear
<1>4. /\ 2 * (m - (n + Days[r])) <= Inexact(Days[r])
      /\ 2 * ((n + Days[r]) - m) <= Inexact(Days[r])
  BY <1>2, <1>3 DEF Near
<1>5. NoneLost(k, n, H, L) => NoneLost(k, m, H \cup {r}, L)
  BY <1>1, <1>2, <1>3, <1>4 DEF NoneLost
<1>6. NoneLeft(k, n, H, L) => NoneLeft(k, m, H \cup {r}, L)
  BY <1>1, <1>2, <1>3, <1>4 DEF NoneLeft
<1>7. QED
  BY <1>3, <1>5, <1>6

\* Days that are available may be held.
LEMMA AvailableDaysAreCovered ==
    ASSUME NEW H, NEW L, Apart(H, L), NEW r \in Requests \ H,
           NEW k \in DOMAIN InitBalance, NEW b \in Balance,
           NoneLost(k, b.reserved, H, L), Covered(k, b, H, L),
           Available(b) >= Days[r]
    PROVE  Covered(k, b, H \cup {r}, L)
<1>1. /\ DaysOf(H \cup {r}) = DaysOf(H) + Days[r]
      /\ Slack(H \cup {r}) = Slack(H) + Inexact(Days[r])
      /\ DaysOf(H) \in Nat /\ Slack(H) \in Nat /\ Slack(L) \in Nat
  BY SumsWithOneMore, SumsOverMore DEF Apart
<1>2. /\ InitBalance[k].reserved \in Nat /\ InitBalance[k].used \in Nat
      /\ Days[r] \in Nat /\ Inexact(Days[r]) \in Nat
      /\ Inexact(InitBalance[k].used) \in Nat /\ Inexact(b.used) \in Nat
      /\ b.total \in Nat /\ b.used \in Nat /\ b.reserved \in Nat
  BY DEF Balance, Inexact
<1>3. 2 * (InitBalance[k].reserved + DaysOf(H) - b.reserved)
         <= Slack(H) + 2 * Slack(L)
  BY DEF NoneLost
<1>4. b.used + b.reserved + Days[r] - b.total <= 0
  BY <1>2 DEF Available
<1>5. Inexact(b.used) <= Inexact(InitBalance[k].used)
  BY DEF Covered
<1>6. 2 * (b.used + InitBalance[k].reserved + DaysOf(H \cup {r}) - b.total)
         + Inexact(b.used)
      <= Slack(H \cup {r}) + 3 * Slack(L) + Inexact(InitBalance[k].used)
  BY <1>1, <1>2, <1>3, <1>4, <1>5
<1>7. QED
  BY <1>5, <1>6 DEF Covered

\* Days that are taken or freed leave the bounds on the reserved days.
LEMMA LeavingKeepsBounds ==
    ASSUME NEW H, NEW L, Apart(H, L), NEW r \in H,
           NEW k \in DOMAIN InitBalance, NEW n \in Nat, Inexact(n) = 0,
           NEW m \in Rounded(n - Days[r])
    PROVE  /\ m \in Int
           /\ Inexact(NotBelowZero(m)) = 0
           /\ NoneLost(k, n, H, L) =>
                 NoneLost(k, NotBelowZero(m), H \ {r}, L \cup {r})
           /\ NoneLeft(k, n, H, L) =>
                 NoneLeft(k, NotBelowZero(m), H \ {r}, L \cup {r})
           /\ NoneLost(k, n, H, L) => m + Slack(H) + Slack(L) >= 0
<1> DEFINE c == NotBelowZero(m)
           I == InitBalance[k].reserved
           R == H \ {r}
           M == L \cup {r}
           d == Days[r]
           x == Inexact(Days[r])
<1>1. /\ DaysOf(R) \in Nat /\ DaysOf(H) \in Nat
      /\ Slack(R) \in Nat /\ Slack(H) \in Nat
      /\ Slack(L) \in Nat /\ Slack(M) \in Nat
      /\ d \in Nat /\ x \in Nat
      /\ DaysOf(H) = DaysOf(R) + d
      /\ Slack(H) = Slack(R) + x
      /\ Slack(M) = Slack(L) + x
  <2>1. OneLeaves(H, L, r)
    BY SumsWhenOneLeaves
  <2>2. QED
    BY <2>1 DEF OneLeaves
<1>2. I \in Nat
  BY DEF Balance
<1>3. m \in Int /\ Inexact(m) = 0 /\ Near(m, n - d, Inexact(n) + x)
  BY <1>1, RoundedSumIsNear
<1>4. 2 * (m - (n - d)) <= x /\ 2 * ((n - d) - m) <= x
  BY <1>1, <1>3 DEF Near
<1>5. /\ c \in Nat /\ c >= m /\ (c = m \/ c = 0)
      /\ Inexact(c) = 0
  BY <1>3 DEF NotBelowZero, Inexact
<1>6. /\ NoneLost(k, n, H, L) <=> 2 * (I + DaysOf(H) - n) <= Slack(H) + 2 * Slack(L)
      /\ NoneLost(k, c, R, M) <=> 2 * (I + DaysOf(R) - c) <= Slack(R) + 2 * Slack(M)
      /\ NoneLeft(k, n, H, L) <=> 2 * (n - I - DaysOf(H)) <= Slack(H) + 2 * Slack(L)
      /\ NoneLeft(k, c, R, M) <=> 2 * (c - I - DaysOf(R)) <= Slack(R) + 2 * Slack(M)
  BY DEF NoneLost, NoneLeft
<1> HIDE DEF c, I, R, M, d, x
<1>7. NoneLost(k, n, H, L) => NoneLost(k, c, R, M)
  BY <1>1, <1>2, <1>3, <1>4, <1>5, <1>6
<1>8. NoneLeft(k, n, H, L) => NoneLeft(k, c, R, M)
  BY <1>1, <1>2, <1>3, <1>4, <1>5, <1>6
<1>9. NoneLost(k, n, H, L) => m + Slack(H) + Slack(L) >= 0
  BY <1>1, <1>2, <1>3, <1>4, <1>6
<1>10. QED
  BY <1>3, <1>5, <1>7, <1>8, <1>9 DEF c, R, M

\* A row covers its days after some are taken ...
LEMMA TakenDaysAreCovered ==
    ASSUME NEW H, NEW L, Apart(H, L), NEW r \in H,
           NEW k \in DOMAIN InitBalance, NEW b \in Balance, NEW c \in Balance,
           Covered(k, b, H, L), c.total = b.total,
           c.used \in Rounded(b.used + Days[r])
    PROVE  Covered(k, c, H \ {r}, L \cup {r})
<1> DEFINE I == InitBalance[k].reserved
           R == H \ {r}
           M == L \cup {r}
           d == Days[r]
           x == Inexact(Days[r])
           u == Inexact(InitBalance[k].used)
<1>1. /\ DaysOf(R) \in Nat /\ DaysOf(H) \in Nat
      /\ Slack(R) \in Nat /\ Slack(H) \in Nat
      /\ Slack(L) \in Nat /\ Slack(M) \in Nat
      /\ d \in Nat /\ x \in Nat
      /\ DaysOf(H) = DaysOf(R) + d
      /\ Slack(H) = Slack(R) + x
      /\ Slack(M) = Slack(L) + x
  <2>1. OneLeaves(H, L, r)
    BY SumsWhenOneLeaves
  <2>2. QED
    BY <2>1 DEF OneLeaves
<1>2. /\ I \in Nat /\ u \in Nat /\ Inexact(b.used) \in Nat
      /\ b.total \in Nat /\ b.used \in Nat /\ c.used \in Nat
  BY DEF Balance, Inexact
<1>3. /\ Inexact(c.used) = 0
      /\ Near(c.used, b.used + d, Inexact(b.used) + x)
  <2> HIDE DEF x
  <2>1. /\ b.used \in Int /\ d \in Nat
        /\ c.used \in Rounded(b.used + d)
    BY <1>1, <1>2
  <2> HIDE DEF d
  <2>2. /\ Inexact(c.used) = 0
        /\ Near(c.used, b.used + d, Inexact(b.used) + Inexact(d))
    BY <2>1, RoundedSumIsNear
  <2>3. QED
    BY <2>2 DEF d, x
<1>4. 2 * (c.used - (b.used + d)) <= Inexact(b.used) + x
  BY <1>3 DEF Near
<1>5. 2 * (b.used + I + DaysOf(H) - b.total) + Inexact(b.used)
         <= Slack(H) + 3 * Slack(L) + u
  BY DEF Covered
<1>6. /\ 0 <= u
      /\ 2 * (c.used + I + DaysOf(R) - b.total) + 0
            <= Slack(R) + 3 * Slack(M) + u
  <2> HIDE DEF I, R, M, d, x, u
  <2>1. QED
    BY <1>1, <1>2, <1>4, <1>5
<1>7. QED
  BY <1>3, <1>6 DEF Covered

\* ... and after some are freed.
LEMMA FreedDaysAreCovered ==
    ASSUME NEW H, NEW L, Apart(H, L), NEW r \in H,
           NEW k \in DOMAIN InitBalance, NEW b \in Balance, NEW c \in Balance,
           Covered(k, b, H, L), c.total = b.total, c.used = b.used
    PROVE  Covered(k, c, H \ {r}, L \cup {r})
<1> DEFINE I == InitBalance[k].reserved
           R == H \ {r}
           M == L \cup {r}
           d == Days[r]
           x == Inexact(Days[r])
           u == Inexact(InitBalance[k].used)
           y == Inexact(b.used)
<1>1. /\ DaysOf(R) \in Nat /\ DaysOf(H) \in Nat
      /\ Slack(R) \in Nat /\ Slack(H) \in Nat
      /\ Slack(L) \in Nat /\ Slack(M) \in Nat
      /\ d \in Nat /\ x \in Nat
      /\ DaysOf(H) = DaysOf(R) + d
      /\ Slack(H) = Slack(R) + x
      /\ Slack(M) = Slack(L) + x
  <2>1. OneLeaves(H, L, r)
    BY SumsWhenOneLeaves
  <2>2. QED
    BY <2>1 DEF OneLeaves
<1>2. /\ I \in Nat /\ u \in Nat /\ y \in Nat
      /\ b.total \in Nat /\ b.used \in Nat
  BY DEF Balance, Inexact
<1>3. /\ y <= u
      /\ 2 * (b.used + I + DaysOf(H) - b.total) + y
            <= Slack(H) + 3 * Slack(L) + u
  BY DEF Covered
<1>4. 2 * (b.used + I + DaysOf(R) - b.total) + y
         <= Slack(R) + 3 * Slack(M) + u
  <2> HIDE DEF I, R, M, d, x, u, y
  <2>1. QED
    BY <1>1, <1>2, <1>3
<1>5. QED
  BY <1>3, <1>4 DEF Covered

\* Calls that end while their days are held leave them reserved, and covered.
LEMMA EndingKeepsBounds ==
    ASSUME NEW H, NEW L, Apart(H, L), NEW R, NEW M, Apart(R, M),
           R \subseteq H, H \ R \subseteq M, L \subseteq M,
           NEW k \in DOMAIN InitBalance, NEW n \in Nat, NEW b \in Balance
    PROVE  /\ NoneLost(k, n, H, L) => NoneLost(k, n, R, M)
           /\ Covered(k, b, H, L) => Covered(k, b, R, M)
<1> DEFINE I == InitBalance[k].reserved
           u == Inexact(InitBalance[k].used)
           y == Inexact(b.used)
           X == H \ R
<1>1. /\ X \in SUBSET Requests /\ IsFiniteSet(X)
      /\ R \cap X = {} /\ H = R \cup X
      /\ L \cap X = {}
      /\ IsFiniteSet(L \cup X) /\ L \cup X \in SUBSET M
  BY FS_Subset, FS_Union DEF Apart
<1>2. /\ DaysOf(H) = DaysOf(R) + DaysOf(X)
      /\ Slack(H) = Slack(R) + Slack(X)
      /\ Slack(L \cup X) = Slack(L) + Slack(X)
  BY <1>1, DaysOfUnion, SlackOfUnion DEF Apart
<1>3. /\ DaysOf(R) \in Nat /\ DaysOf(X) \in Nat
      /\ Slack(R) \in Nat /\ Slack(X) \in Nat
      /\ Slack(L) \in Nat /\ Slack(M) \in Nat
      /\ Slack(L \cup X) <= Slack(M)
  BY <1>1, SumsOverMore DEF Apart
<1>4. /\ I \in Nat /\ u \in Nat /\ y \in Nat
      /\ b.total \in Nat /\ b.used \in Nat
  BY DEF Balance, Inexact
<1>5. NoneLost(k, n, H, L) => NoneLost(k, n, R, M)
  <2> SUFFICES ASSUME 2 * (I + DaysOf(H) - n) <= Slack(H) + 2 * Slack(L)
               PROVE  2 * (I + DaysOf(R) - n) <= Slack(R) + 2 * Slack(M)
    BY DEF NoneLost
  <2> HIDE DEF I, X
  <2>1. QED
    BY <1>2, <1>3, <1>4
<1>6. Covered(k, b, H, L) => Covered(k, b, R, M)
  <2> SUFFICES ASSUME y <= u,
                      2 * (b.used + I + DaysOf(H) - b.total) + y
                         <= Slack(H) + 3 * Slack(L) + u
               PROVE  2 * (b.used + I + DaysOf(R) - b.total) + y
                         <= Slack(R) + 3 * Slack(M) + u
    BY DEF Covered
  <2> HIDE DEF I, X, u, y
  <2>1. QED
    BY <1>2, <1>3, <1>4
<1>7. QED
  BY <1>5, <1>6

\* The bound on what is left stays when more requests are held, and when some
\* that had let go are held again.
LEMMA GrowingKeepsBound ==
    ASSUME NEW H, NEW L, Apart(H, L), NEW R, NEW M, Apart(R, M),
           H \subseteq R, H \cup L \subseteq R \cup M,
           NEW k \in DOMAIN InitBalance, NEW n \in Nat, NoneLeft(k, n, H, L)
    PROVE  NoneLeft(k, n, R, M)
<1> DEFINE I == InitBalance[k].reserved
           X == R \ H
           A == L \cap X
           B == L \ X
<1>1. /\ X \in SUBSET Requests /\ IsFiniteSet(X)
      /\ H \cap X = {} /\ R = H \cup X
      /\ A \in SUBSET X /\ B \in SUBSET M
      /\ A \in SUBSET Requests /\ IsFiniteSet(A)
      /\ B \in SUBSET Requests /\ IsFiniteSet(B)
      /\ A \cap B = {} /\ L = A \cup B
  BY FS_Subset DEF Apart
<1>2. /\ DaysOf(R) = DaysOf(H) + DaysOf(X)
      /\ Slack(R) = Slack(H) + Slack(X)
      /\ Slack(L) = Slack(A) + Slack(B)
  BY <1>1, DaysOfUnion, SlackOfUnion DEF Apart
<1>3. /\ DaysOf(H) \in Nat /\ DaysOf(X) \in Nat
      /\ Slack(H) \in Nat /\ Slack(X) \in Nat /\ Slack(M) \in Nat
      /\ Slack(A) \in Nat /\ Slack(B) \in Nat
      /\ Slack(A) <= Slack(X) /\ Slack(B) <= Slack(M)
  BY <1>1, SumsOverMore DEF Apart
<1>4. Slack(X) <= DaysOf(X)
  BY <1>1, SlackWithinDays
<1>5. I \in Nat
  BY DEF Balance
<1>6. 2 * (n - I - DaysOf(H)) <= Slack(H) + 2 * Slack(L)
  BY DEF NoneLeft
<1> HIDE DEF I, X, A, B
<1>7. 2 * (n - I - DaysOf(R)) <= Slack(R) + 2 * Slack(M)
  BY <1>2, <1>3, <1>4, <1>5, <1>6
<1>8. QED
  BY <1>7 DEF NoneLeft, I

\* Giving days back leaves no more reserved than before.
LEMMA GivingBackLowers ==
    ASSUME NEW r \in Requests, NEW n \in Nat, Inexact(n) = 0,
           NEW m \in Rounded(n - Days[r])
    PROVE  /\ NotBelowZero(m) \in Nat /\ NotBelowZero(m) <= n
           /\ Inexact(NotBelowZero(m)) = 0
<1> DEFINE d == Days[r]
           x == Inexact(Days[r])
<1>1. d \in Nat /\ x \in Nat /\ x <= Unit /\ Unit <= d
  BY DEF Inexact
<1>2. m \in Int /\ Inexact(m) = 0 /\ Near(m, n - d, Inexact(n) + x)
  BY <1>1, RoundedSumIsNear
<1>3. 2 * (m - (n - d)) <= x
  BY <1>1, <1>2 DEF Near
<1>4. m <= n
  <2> HIDE DEF d, x
  <2>1. QED
    BY <1>1, <1>2, <1>3
<1>5. QED
  BY <1>2, <1>4 DEF NotBelowZero, Inexact

----------------------------------------------------------------------------
(***************************************************************************)
(* What a step does to one row: b, H and L are the row, the calls that     *)
(* hold days on it and those that let go of them before the step, c, R and *)
(* M the same after it.                                                    *)
(***************************************************************************)

Joins(r, b, H, L, c, R, M) ==
    /\ r \notin H
    /\ R = H \cup {r} /\ M = L
    /\ Available(b) >= Days[r]
    /\ c.total = b.total /\ c.used = b.used
    /\ c.reserved \in Rounded(b.reserved + Days[r])

Leaves(r, b, H, L, c, R, M) ==
    /\ r \in H
    /\ R = H \ {r} /\ M = L \cup {r}
    /\ c.total = b.total
    /\ c.used = b.used \/ c.used \in Rounded(b.used + Days[r])
    /\ \E m \in Rounded(b.reserved - Days[r]) : c.reserved = NotBelowZero(m)

Ends(b, H, L, c, R, M) ==
    /\ c = b
    /\ R \subseteq H /\ H \ R \subseteq M /\ L \subseteq M

Turns(b, H, L, c, R, M) ==
    \E r \in Requests : \/ Joins(r, b, H, L, c, R, M)
                        \/ Leaves(r, b, H, L, c, R, M)

RowMoves(b, H, L, c, R, M) ==
    Turns(b, H, L, c, R, M) \/ Ends(b, H, L, c, R, M)

\* Once a review acts on a balance, it has acted on it.
LEMMA UnreviewedBefore ==
    ASSUME TypeOK, StepIsOfAKind, NEW k, Unreviewed(k)'
    PROVE  Unreviewed(k)
<1> SUFFICES ASSUME NEW o \in Reviews, BalanceKey[Target[o]] = k
             PROVE  pc[o] = "idle"
  BY DEF Unreviewed
<1>1. o \in Calls /\ pc'[o] = "idle"
  BY DEF Unreviewed, Calls
<1>2. CASE QuietStep
  BY <1>1, <1>2 DEF QuietStep
<1>3. ASSUME NEW t, NEW to \in {"insert", "approve", "close"},
             pc' = [pc EXCEPT ![t] = to]
      PROVE  pc[o] = "idle"
  BY <1>1, <1>3 DEF TypeOK
<1>4. QED
  BY <1>2, <1>3 DEF StepIsOfAKind, HoldStep, TakeStep, FreeStep

\* A step moves every row that no review has touched in one of these ways.
LEMMA StepMovesRows ==
    ASSUME OptimisticLock, ~DbMayFail, TypeOK, RowsInv, [Next]_vars,
           NEW k \in DOMAIN InitBalance, Unreviewed(k)'
    PROVE  RowMoves(balance[k], Holding(k), LetGo(k),
                    balance'[k], Holding(k)', LetGo(k)')
<1> USE DEF RowMoves
<1>1. k \in DOMAIN balance /\ balance[k] \in Balance
  BY DEF RowsInv, TypeOK, StoreTypeOK
<1>2. ASSUME NEW r \in Requests, HoldStep(r)
      PROVE  RowMoves(balance[k], Holding(k), LetGo(k),
                      balance'[k], Holding(k)', LetGo(k)')
  <2>1. CASE k # BalanceKey[r]
    <3>1. balance'[k] = balance[k]
      BY <1>1, <1>2, <2>1 DEF HoldStep
    <3>2. Holding(k)' = Holding(k) /\ LetGo(k)' = LetGo(k)
      BY <1>2, <2>1, HoldJoins DEF RowsInv
    <3>3. QED
      BY <3>1, <3>2 DEF Ends
  <2>2. CASE k = BalanceKey[r]
    <3>1. PICK m \in Rounded(balance[k].reserved + Days[r]) :
             balance' = [balance EXCEPT ![k].reserved = m]
      BY <1>2, <2>2 DEF HoldStep
    <3>2. /\ balance'[k].reserved = m
          /\ balance'[k].total = balance[k].total
          /\ balance'[k].used = balance[k].used
      BY <1>1, <3>1 DEF Balance
    <3>3. Available(balance[k]) >= Days[r]
      BY <1>2, <2>2 DEF HoldStep
    <3>4. /\ r \notin Holding(k)
          /\ Holding(k)' = Holding(k) \cup {r}
          /\ LetGo(k)' = LetGo(k)
      BY <1>2, <2>2, HoldJoins DEF RowsInv
    <3>5. Joins(r, balance[k], Holding(k), LetGo(k),
                balance'[k], Holding(k)', LetGo(k)')
      BY <3>1, <3>2, <3>3, <3>4 DEF Joins
    <3>6. QED
      BY <3>5 DEF Turns
  <2>3. QED
    BY <2>1, <2>2
<1>3. ASSUME NEW r \in Requests, TakeStep(r) \/ FreeStep(r)
      PROVE  RowMoves(balance[k], Holding(k), LetGo(k),
                      balance'[k], Holding(k)', LetGo(k)')
  <2>0. Req(r) = r
    BY DEF Req
  <2>1. CASE k # BalanceKey[r]
    <3>1. balance'[k] = balance[k]
      BY <1>1, <1>3, <2>0, <2>1 DEF TakeStep, FreeStep
    <3>2. Holding(k)' = Holding(k) /\ LetGo(k)' = LetGo(k)
      BY <1>3, <2>1, HolderLeaves
    <3>3. QED
      BY <3>1, <3>2 DEF Ends
  <2>2. CASE k = BalanceKey[r]
    <3>1. PICK m \in Rounded(balance[k].reserved - Days[r]) :
             \/ balance' = [balance EXCEPT ![k].reserved = NotBelowZero(m)]
             \/ \E n \in Rounded(balance[k].used + Days[r]) :
                   balance' = [balance EXCEPT ![k].reserved = NotBelowZero(m),
                                              ![k].used = n]
      BY <1>3, <2>0, <2>2 DEF TakeStep, FreeStep
    <3>2. /\ balance'[k].reserved = NotBelowZero(m)
          /\ balance'[k].total = balance[k].total
          /\ \/ balance'[k].used = balance[k].used
             \/ balance'[k].used \in Rounded(balance[k].used + Days[r])
      <4> DEFINE c == NotBelowZero(m)
      <4> HIDE DEF c
      <4>1. CASE balance' = [balance EXCEPT ![k].reserved = c]
        BY <1>1, <4>1 DEF Balance, c
      <4>2. ASSUME NEW n \in Rounded(balance[k].used + Days[r]),
                   balance' = [balance EXCEPT ![k].reserved = c, ![k].used = n]
            PROVE  /\ balance'[k].reserved = c
                   /\ balance'[k].total = balance[k].total
                   /\ balance'[k].used = n
        BY <1>1, <4>2 DEF Balance
      <4>3. QED
        BY <3>1, <4>1, <4>2 DEF c
    <3>3. /\ r \in Holding(k)
          /\ Holding(k)' = Holding(k) \ {r}
          /\ LetGo(k)' = LetGo(k) \cup {r}
      BY <1>3, <2>2, HolderLeaves
    <3>4. Leaves(r, balance[k], Holding(k), LetGo(k),
                 balance'[k], Holding(k)', LetGo(k)')
      BY <3>1, <3>2, <3>3 DEF Leaves
    <3>5. QED
      BY <3>4 DEF Turns
  <2>3. QED
    BY <2>1, <2>2
<1>4. ASSUME NEW o \in Reviews, TakeStep(o) \/ FreeStep(o)
      PROVE  RowMoves(balance[k], Holding(k), LetGo(k),
                      balance'[k], Holding(k)', LetGo(k)')
  <2>1. pc'[o] # "idle" /\ Req(o) = Target[o]
    BY <1>4 DEF TakeStep, FreeStep, TypeOK, Calls, Req
  <2>2. BalanceKey[Req(o)] # k
    BY <2>1 DEF Unreviewed
  <2>3. balance'[k] = balance[k]
    BY <1>1, <1>4, <2>2 DEF TakeStep, FreeStep
  <2>4. Holding(k)' = Holding(k) /\ LetGo(k)' = LetGo(k)
    BY <1>4, ReviewHoldsNothing
  <2>5. QED
    BY <2>3, <2>4 DEF Ends
<1>5. CASE QuietStep
  <2>1. balance'[k] = balance[k]
    BY <1>5 DEF QuietStep
  <2>2. QED
    BY <1>5, <2>1, HoldersEnd DEF Ends
<1>6. StepIsOfAKind
  BY StepKinds DEF RowsInv
<1>7. QED
  BY <1>2, <1>3, <1>4, <1>5, <1>6 DEF StepIsOfAKind, Calls

\* Such a move keeps the bounds.
LEMMA MovesKeepBounds ==
    ASSUME NEW H, NEW L, Apart(H, L), NEW R, NEW M, Apart(R, M),
           NEW b \in Balance, NEW c \in Balance, RowMoves(b, H, L, c, R, M),
           NEW k \in DOMAIN InitBalance,
           Inexact(b.reserved) = 0, NoneLost(k, b.reserved, H, L)
    PROVE  /\ Inexact(c.reserved) = 0
           /\ NoneLost(k, c.reserved, R, M)
           /\ Covered(k, b, H, L) => Covered(k, c, R, M)
<1>1. b.reserved \in Nat /\ c.reserved \in Nat
  BY DEF Balance
<1>2. ASSUME NEW r \in Requests, Joins(r, b, H, L, c, R, M)
      PROVE  /\ Inexact(c.reserved) = 0
             /\ NoneLost(k, c.reserved, R, M)
             /\ Covered(k, b, H, L) => Covered(k, c, R, M)
  <2>1. /\ r \in Requests \ H /\ R = H \cup {r} /\ M = L
        /\ Available(b) >= Days[r]
        /\ c.total = b.total /\ c.used = b.used
        /\ c.reserved \in Rounded(b.reserved + Days[r])
    BY <1>2 DEF Joins
  <2>2. /\ Inexact(c.reserved) = 0
        /\ NoneLost(k, c.reserved, R, M)
    BY <1>1, <2>1, HoldingKeepsBounds
  <2>3. Covered(k, b, H, L) => Covered(k, b, R, M)
    BY <2>1, AvailableDaysAreCovered
  <2>4. QED
    BY <2>1, <2>2, <2>3 DEF Covered
<1>3. ASSUME NEW r \in Requests, Leaves(r, b, H, L, c, R, M)
      PROVE  /\ Inexact(c.reserved) = 0
             /\ NoneLost(k, c.reserved, R, M)
             /\ Covered(k, b, H, L) => Covered(k, c, R, M)
  <2>1. /\ r \in H /\ R = H \ {r} /\ M = L \cup {r}
        /\ c.total = b.total
        /\ c.used = b.used \/ c.used \in Rounded(b.used + Days[r])
    BY <1>3 DEF Leaves
  <2>2. PICK m \in Rounded(b.reserved - Days[r]) :
           c.reserved = NotBelowZero(m)
    BY <1>3 DEF Leaves
  <2>3. /\ Inexact(c.reserved) = 0
        /\ NoneLost(k, c.reserved, R, M)
    <3> DEFINE n == b.reserved
    <3>1. n \in Nat /\ Inexact(n) = 0 /\ m \in Rounded(n - Days[r]) /\ r \in H
      BY <1>1, <2>1, <2>2
    <3> HIDE DEF n
    <3>2. /\ Inexact(NotBelowZero(m)) = 0
          /\ NoneLost(k, n, H, L) =>
                NoneLost(k, NotBelowZero(m), H \ {r}, L \cup {r})
      BY <3>1, LeavingKeepsBounds
    <3>3. QED
      BY <2>1, <2>2, <3>2 DEF n
  <2>4. Covered(k, b, H, L) => Covered(k, c, R, M)
    BY <2>1, TakenDaysAreCovered, FreedDaysAreCovered
  <2>5. QED
    BY <2>3, <2>4
<1>4. ASSUME Ends(b, H, L, c, R, M)
      PROVE  /\ Inexact(c.reserved) = 0
             /\ NoneLost(k, c.reserved, R, M)
             /\ Covered(k, b, H, L) => Covered(k, c, R, M)
  <2>1. c = b /\ R \subseteq H /\ H \ R \subseteq M /\ L \subseteq M
    BY <1>4 DEF Ends
  <2>2. QED
    BY <1>1, <2>1, EndingKeepsBounds
<1>5. QED
  BY <1>2, <1>3, <1>4 DEF RowMoves, Turns

----------------------------------------------------------------------------
(***************************************************************************)
(* What the rows have, at every step.                                      *)
(***************************************************************************)

\* Every row is a multiple of 0.0001 day in its reserved days, and has no more
\* than those of the requests whose days nobody gave back.
RowsLeaveNone ==
    \A k \in DOMAIN InitBalance :
        /\ Inexact(balance[k].reserved) = 0
        /\ NoneLeft(k, balance[k].reserved, Unfreed(k), Others(k))

\* A row that no review has touched has the days of the calls that hold some.
RowsHold ==
    \A k \in DOMAIN InitBalance :
        Unreviewed(k) =>
            NoneLost(k, balance[k].reserved, Holding(k), LetGo(k))

\* It covers the days used and held.
RowsCover ==
    \A k \in DOMAIN InitBalance :
        Unreviewed(k) => Covered(k, balance[k], Holding(k), LetGo(k))

\* What makes the reserved days those held.
HeldInv ==
    /\ TypeOK
    /\ RowsInv
    /\ RowsLeaveNone
    /\ ~DbMayFail => RowsHold

\* At first nobody holds days.
LEMMA RowsAtFirst ==
    ASSUME Init
    PROVE  /\ RowsInv /\ RowsLeaveNone /\ RowsHold
           /\ (\A k \in DOMAIN InitBalance : Available(InitBalance[k]) >= 0)
                 => RowsCover
<1>1. /\ balance = InitBalance /\ pc = [t \in Calls |-> "idle"]
      /\ status = [r \in Requests |-> "none"] /\ posts = {}
  BY DEF Init, StoreInit
<1>2. \A t \in Calls : pc[t] = "idle"
  BY <1>1
<1>3. RowsInv
  BY <1>1, <1>2 DEF RowsInv, RowsKnown, RequestsKnown, CallsAreStored,
     NewAreUnstored, CurrentEntities, Stored, AfterInsert, Calls
<1>4. ASSUME NEW k \in DOMAIN InitBalance
      PROVE  /\ Holding(k) = {} /\ LetGo(k) = {}
             /\ Unfreed(k) = {} /\ Others(k) = {}
             /\ DaysOf({}) = 0 /\ Slack({}) = 0
             /\ InitBalance[k].reserved \in Nat
             /\ InitBalance[k].used \in Nat
             /\ InitBalance[k].total \in Nat
             /\ Inexact(InitBalance[k].used) \in Nat
             /\ Inexact(InitBalance[k].reserved) = 0
  <2>1. Holding(k) = {} /\ LetGo(k) = {} /\ Unfreed(k) = {}
    BY <1>2 DEF Holding, LetGo, Unfreed, HoldsDays, Calls
  <2>2. QED
    BY <2>1, DaysOfNone, SlackOfNone DEF Others, Balance, Inexact
<1>5. ASSUME NEW k \in DOMAIN InitBalance
      PROVE  /\ Inexact(balance[k].reserved) = 0
             /\ NoneLost(k, balance[k].reserved, Holding(k), LetGo(k))
             /\ NoneLeft(k, balance[k].reserved, Unfreed(k), Others(k))
  <2>1. /\ NoneLost(k, InitBalance[k].reserved, {}, {})
        /\ NoneLeft(k, InitBalance[k].reserved, {}, {})
    BY <1>4 DEF NoneLost, NoneLeft
  <2>2. QED
    BY <1>1, <1>4, <2>1
<1>6. ASSUME NEW k \in DOMAIN InitBalance, Available(InitBalance[k]) >= 0
      PROVE  Covered(k, balance[k], Holding(k), LetGo(k))
  <2>1. Covered(k, InitBalance[k], {}, {})
    BY <1>4, <1>6 DEF Covered, Available
  <2>2. QED
    BY <1>1, <1>4, <2>1
<1>7. QED
  BY <1>3, <1>5, <1>6 DEF RowsHold, RowsLeaveNone, RowsCover

\* No step leaves days reserved that are not held any more.
LEMMA StepLeavesNone ==
    ASSUME OptimisticLock, IsFiniteSet(Requests),
           TypeOK, RowsInv, RowsLeaveNone, [Next]_vars
    PROVE  RowsLeaveNone'
<1> SUFFICES
      ASSUME NEW k \in DOMAIN InitBalance
      PROVE  /\ Inexact(balance'[k].reserved) = 0
             /\ NoneLeft(k, balance'[k].reserved, Unfreed(k)', Others(k)')
  BY DEF RowsLeaveNone
<1> DEFINE n == balance[k].reserved
           H == Unfreed(k)
           L == Others(k)
<1>1. k \in DOMAIN balance /\ balance[k] \in Balance
  BY DEF RowsInv, TypeOK, StoreTypeOK
<1>2. n \in Nat /\ Inexact(n) = 0 /\ NoneLeft(k, n, H, L)
  BY <1>1 DEF Balance, RowsLeaveNone
<1>3. Apart(H, L) /\ Apart(H', L')
  BY HoldersAreRequests, FS_Subset DEF Apart
<1>4. RequestsKnown /\ StepIsOfAKind
  BY StepKinds DEF RowsInv
<1>5. ASSUME balance'[k].reserved = n, H' = H, L' = L
      PROVE  /\ Inexact(balance'[k].reserved) = 0
             /\ NoneLeft(k, balance'[k].reserved, H', L')
  BY <1>2, <1>5
<1>6. ASSUME NEW r \in Requests, HoldStep(r)
      PROVE  /\ Inexact(balance'[k].reserved) = 0
             /\ NoneLeft(k, balance'[k].reserved, H', L')
  <2>1. CASE k # BalanceKey[r]
    <3>1. balance'[k] = balance[k]
      BY <1>1, <1>6, <2>1 DEF HoldStep
    <3>2. QED
      BY <1>4, <1>5, <1>6, <2>1, <3>1, HoldJoins
  <2>2. CASE k = BalanceKey[r]
    <3>1. PICK m \in Rounded(n + Days[r]) :
             balance' = [balance EXCEPT ![k].reserved = m]
      BY <1>6, <2>2 DEF HoldStep
    <3>2. balance'[k].reserved = m
      BY <1>1, <3>1 DEF Balance
    <3>3. r \in Requests \ H /\ H' = H \cup {r} /\ L' = L
      BY <1>4, <1>6, <2>2, HoldJoins
    <3> HIDE DEF n, H, L
    <3>4. Inexact(m) = 0 /\ NoneLeft(k, m, H \cup {r}, L)
      BY <1>2, <1>3, <3>3, HoldingKeepsBounds
    <3>5. QED
      BY <3>2, <3>3, <3>4
  <2>3. QED
    BY <2>1, <2>2
<1>7. ASSUME NEW t \in Calls, TakeStep(t) \/ FreeStep(t)
      PROVE  /\ Inexact(balance'[k].reserved) = 0
             /\ NoneLeft(k, balance'[k].reserved, H', L')
  <2> DEFINE r == Req(t)
  <2>1. r \in Requests
    BY CallsHaveRequests
  <2>2. CASE k # BalanceKey[r]
    <3>1. balance'[k] = balance[k]
      BY <1>1, <1>7, <2>2 DEF TakeStep, FreeStep
    <3>2. QED
      BY <1>4, <1>5, <1>7, <2>2, <3>1, GivingBackFrees
  <2>3. CASE k = BalanceKey[r]
    <3>1. PICK m \in Rounded(n - Days[r]) :
             \/ balance' = [balance EXCEPT ![k].reserved = NotBelowZero(m)]
             \/ \E u \in Rounded(balance[k].used + Days[r]) :
                   balance' = [balance EXCEPT ![k].reserved = NotBelowZero(m),
                                              ![k].used = u]
      BY <1>7, <2>3 DEF TakeStep, FreeStep
    <3>2. balance'[k].reserved = NotBelowZero(m)
      <4> DEFINE c == NotBelowZero(m)
      <4> HIDE DEF c
      <4>1. ASSUME balance' = [balance EXCEPT ![k].reserved = c]
            PROVE  balance'[k].reserved = c
        BY <1>1, <4>1 DEF Balance
      <4>2. ASSUME NEW u,
                   balance' = [balance EXCEPT ![k].reserved = c, ![k].used = u]
            PROVE  balance'[k].reserved = c
        BY <1>1, <4>2 DEF Balance
      <4>3. QED
        BY <3>1, <4>1, <4>2 DEF c
    <3>3. CASE r \in H
      <4>1. H' = H \ {r} /\ L' = L \cup {r}
        BY <1>4, <1>7, <2>3, <3>3, GivingBackFrees
      <4>2. m \in Rounded(n - Days[r])
        OBVIOUS
      <4> HIDE DEF n, H, L, r
      <4>3. /\ Inexact(NotBelowZero(m)) = 0
            /\ NoneLeft(k, NotBelowZero(m), H \ {r}, L \cup {r})
        BY <1>2, <1>3, <3>3, <4>2, LeavingKeepsBounds
      <4>4. QED
        BY <3>2, <4>1, <4>3
    <3>4. CASE r \notin H
      <4>1. H' = H /\ L' = L
        BY <1>4, <1>7, <3>4, GivingBackFrees
      <4>2. m \in Rounded(n - Days[r])
        OBVIOUS
      <4> DEFINE c == NotBelowZero(m)
      <4> HIDE DEF n, H, L, r
      <4>3. c \in Nat /\ c <= n /\ Inexact(c) = 0
        BY <1>2, <2>1, <4>2, GivingBackLowers
      <4>4. /\ DaysOf(H) \in Nat /\ Slack(H) \in Nat /\ Slack(L) \in Nat
            /\ InitBalance[k].reserved \in Nat
        BY <1>3, SumsOverMore DEF Apart, Balance
      <4> HIDE DEF c
      <4>5. NoneLeft(k, c, H, L)
        BY <1>2, <4>3, <4>4 DEF NoneLeft
      <4>6. QED
        BY <3>2, <4>1, <4>3, <4>5 DEF c
    <3>5. QED
      BY <3>3, <3>4
  <2>4. QED
    BY <2>2, <2>3
<1>8. CASE QuietStep
  <2>1. balance'[k].reserved = n
    BY <1>8 DEF QuietStep
  <2>2. H \subseteq H' /\ H \cup L \subseteq H' \cup L'
    BY <1>8, QuietKeepsUnfreed
  <2> HIDE DEF n, H, L
  <2>3. NoneLeft(k, n, H', L')
    BY <1>2, <1>3, <2>2, GrowingKeepsBound
  <2>4. QED
    BY <1>2, <2>1, <2>3 DEF H, L
<1>9. QED
  BY <1>4, <1>6, <1>7, <1>8 DEF StepIsOfAKind

\* Every step keeps what the rows hold and cover.
LEMMA StepKeepsRows ==
    ASSUME OptimisticLock, ~DbMayFail, IsFiniteSet(Requests),
           TypeOK, TypeOK', RowsInv, RowsLeaveNone, RowsHold, [Next]_vars
    PROVE  RowsHold' /\ (RowsCover => RowsCover')
<1> SUFFICES
      ASSUME NEW k \in DOMAIN InitBalance, Unreviewed(k)'
      PROVE  /\ NoneLost(k, balance'[k].reserved, Holding(k)', LetGo(k)')
             /\ RowsCover => Covered(k, balance'[k], Holding(k)', LetGo(k)')
  BY DEF RowsHold, RowsCover
<1> DEFINE b == balance[k]
           c == balance'[k]
           H == Holding(k)
           L == LetGo(k)
           R == Holding(k)'
           M == LetGo(k)'
<1>1. b \in Balance /\ c \in Balance
  BY RowsStay DEF RowsInv, TypeOK, StoreTypeOK
<1>2. Apart(H, L) /\ Apart(R, M)
  BY HoldersAreRequests, FS_Subset DEF Apart
<1>3. RowMoves(b, H, L, c, R, M)
  BY StepMovesRows
<1>4. Unreviewed(k)
  BY StepKinds, UnreviewedBefore DEF RowsInv
<1>5. Inexact(b.reserved) = 0 /\ NoneLost(k, b.reserved, H, L)
      /\ (RowsCover => Covered(k, b, H, L))
  BY <1>4 DEF RowsHold, RowsLeaveNone, RowsCover
<1> HIDE DEF b, c, H, L, R, M
<1>6. /\ NoneLost(k, c.reserved, R, M)
      /\ Covered(k, b, H, L) => Covered(k, c, R, M)
  BY <1>1, <1>2, <1>3, <1>5, MovesKeepBounds
<1>7. QED
  BY <1>5, <1>6 DEF b, c, H, L, R, M

----------------------------------------------------------------------------
(***************************************************************************)
(* No balance is overbooked.                                               *)
(***************************************************************************)

\* A row that covers its days is not overbooked.
LEMMA CoveredRowsAreNotOverbooked ==
    ASSUME NEW H, NEW L, Apart(H, L), NEW k \in DOMAIN InitBalance,
           NEW b \in Balance, Covered(k, b, H, L)
    PROVE  2 * (b.used + InitBalance[k].reserved + DaysOf(H) - b.total)
              <= Slack(H) + 3 * Slack(L) + Inexact(InitBalance[k].used)
<1>1. /\ b.used \in Nat /\ b.total \in Nat /\ Inexact(b.used) \in Nat
      /\ InitBalance[k].reserved \in Nat
      /\ Inexact(InitBalance[k].used) \in Nat
  BY DEF Balance, Inexact
<1>2. DaysOf(H) \in Nat /\ Slack(H) \in Nat /\ Slack(L) \in Nat
  BY SumsOverMore DEF Apart
<1>3. QED
  BY <1>1, <1>2 DEF Covered

\* With the optimistic lock, no calls that interleave promise more days of a
\* balance than it has, as long as no review acts on it and no statement fails,
\* whether or not the service restarts meanwhile.
THEOREM LockPreventsOverbooking ==
    ASSUME OptimisticLock, ~DbMayFail, IsFiniteSet(Requests),
           \A k \in DOMAIN InitBalance : Available(InitBalance[k]) >= 0
    PROVE  Spec => []NoOverbooking
<1> DEFINE CInv == HeldInv /\ RowsCover
<1>1. Init => CInv
  BY InitTypeOK, RowsAtFirst DEF HeldInv
<1>2. CInv /\ TypeOK' /\ [Next]_vars => CInv'
  BY RowsStay, StepLeavesNone, StepKeepsRows DEF HeldInv
<1>3. CInv => NoOverbooking
  <2> SUFFICES ASSUME CInv, NEW k \in DOMAIN InitBalance, Unreviewed(k)
               PROVE  2 * (balance[k].used + InitBalance[k].reserved
                             + DaysOf(Holding(k)) - balance[k].total)
                        <= Slack(Holding(k)) + 3 * Slack(LetGo(k))
                             + Inexact(InitBalance[k].used)
    BY DEF NoOverbooking
  <2>1. Covered(k, balance[k], Holding(k), LetGo(k))
    BY DEF RowsCover
  <2>2. balance[k] \in Balance
    BY DEF HeldInv, RowsInv, TypeOK, StoreTypeOK
  <2>3. Apart(Holding(k), LetGo(k))
    BY HoldersAreRequests, FS_Subset DEF Apart
  <2>4. QED
    BY <2>1, <2>2, <2>3, CoveredRowsAreNotOverbooked
<1>4. QED
  BY <1>1, <1>2, <1>3, TypeCorrect, PTL DEF Spec

----------------------------------------------------------------------------
(***************************************************************************)
(* The reserved days are those held, and the service implements the        *)
(* ledger.                                                                 *)
(***************************************************************************)

\* Days that nobody gave back are held by a call, or were left by one that was
\* cut short.
LEMMA LeftDaysAreHeldOrAbandoned ==
    ASSUME IsFiniteSet(Requests), HeldInv, NEW k \in DOMAIN InitBalance
    PROVE  2 * (balance[k].reserved - InitBalance[k].reserved
                  - DaysOf(Holding(k) \cup Abandoned(k)))
              <= Slack(Holding(k)) + 2 * Slack(LetGo(k))
<1> DEFINE n == balance[k].reserved
           U == Unfreed(k)
           O == Others(k)
           H == Holding(k)
           A == Abandoned(k)
           V == LetGo(k) \ A
<1>1. n \in Nat /\ NoneLeft(k, n, U, O)
  BY DEF HeldInv, RowsInv, RowsLeaveNone, TypeOK, StoreTypeOK, Balance
<1>2. U \subseteq H \cup A
  BY DEF Unfreed, Holding, Abandoned, Freed, HoldsDays
<1>3. A \subseteq LetGo(k)
  BY DEF Abandoned, LetGo
<1>4. /\ H \in SUBSET Requests /\ LetGo(k) \in SUBSET Requests
      /\ H \cap LetGo(k) = {}
      /\ U \cup O = H \cup LetGo(k)
      /\ Apart(U, O)
  BY HoldersAreRequests, FS_Subset DEF Apart, Others
<1>5. /\ IsFiniteSet(H) /\ IsFiniteSet(A) /\ IsFiniteSet(V)
      /\ A \in SUBSET Requests /\ V \in SUBSET Requests
      /\ H \cap A = {} /\ A \cap V = {} /\ LetGo(k) = A \cup V
      /\ Apart(H \cup A, V)
  BY <1>3, <1>4, FS_Subset DEF Apart
<1>6. NoneLeft(k, n, H \cup A, V)
  <2>1. U \cup O \subseteq (H \cup A) \cup V
    BY <1>4, <1>5
  <2> HIDE DEF n, U, O, H, A, V
  <2>2. QED
    BY <1>1, <1>2, <1>4, <1>5, <2>1, GrowingKeepsBound
<1>7. /\ Slack(H \cup A) = Slack(H) + Slack(A)
      /\ Slack(LetGo(k)) = Slack(A) + Slack(V)
      /\ Slack(H) \in Nat /\ Slack(A) \in Nat /\ Slack(V) \in Nat
      /\ DaysOf(H \cup A) \in Nat
  BY <1>4, <1>5, SlackOfUnion, SumsOverMore DEF Apart
<1>8. InitBalance[k].reserved \in Nat
  BY DEF Balance
<1> HIDE DEF n, U, O, H, A, V
<1>9. 2 * (n - InitBalance[k].reserved - DaysOf(H \cup A))
         <= Slack(H) + 2 * Slack(LetGo(k))
  BY <1>1, <1>6, <1>7, <1>8 DEF NoneLeft
<1>10. QED
  BY <1>9 DEF n, H, A

\* Rows that have the days held, and no more, are as ReservedIsHeld says.
LEMMA RowsAreHeld ==
    ASSUME IsFiniteSet(Requests), HeldInv
    PROVE  ReservedIsHeld
<1> SUFFICES ASSUME NEW k \in DOMAIN InitBalance
             PROVE  LET n == balance[k].reserved - InitBalance[k].reserved
                        z == Slack(Holding(k)) + 2 * Slack(LetGo(k))
                    IN  /\ 2 * (n - DaysOf(Holding(k) \cup Abandoned(k))) <= z
                        /\ ~DbMayFail /\ Unreviewed(k) =>
                              2 * (DaysOf(Holding(k)) - n) <= z
  BY DEF ReservedIsHeld
<1>1. balance[k].reserved \in Nat /\ InitBalance[k].reserved \in Nat
  BY DEF HeldInv, RowsInv, TypeOK, StoreTypeOK, Balance
<1>2. DaysOf(Holding(k)) \in Nat
  BY HoldersAreRequests, FS_Subset, SumsOverMore
<1> DEFINE H == DaysOf(Holding(k))
           z == Slack(Holding(k)) + 2 * Slack(LetGo(k))
           n == balance[k].reserved
           i == InitBalance[k].reserved
<1>3. ASSUME ~DbMayFail, Unreviewed(k)
      PROVE  2 * (H - (n - i)) <= z
  <2>1. 2 * (i + H - n) <= z
    BY <1>3 DEF HeldInv, RowsHold, NoneLost
  <2>2. n \in Nat /\ i \in Nat /\ H \in Nat
    BY <1>1, <1>2
  <2> HIDE DEF H, z, n, i
  <2>3. QED
    BY <2>1, <2>2
<1>4. QED
  BY <1>3, LeftDaysAreHeldOrAbandoned

\* The invariant is inductive.
LEMMA InitHeldInv ==
    ASSUME Init
    PROVE  HeldInv
BY InitTypeOK, RowsAtFirst DEF HeldInv

LEMMA StepKeepsHeldInv ==
    ASSUME OptimisticLock, IsFiniteSet(Requests), HeldInv, TypeOK', [Next]_vars
    PROVE  HeldInv'
BY RowsStay, StepLeavesNone, StepKeepsRows DEF HeldInv

\* With the optimistic lock, no days stay reserved but those of calls that
\* hold some or were cut short, whatever calls, reviews, repeated keys,
\* failures and restarts interleave; and none are lost or given back twice
\* while no review acts on the balance and no statement fails.
THEOREM ReservedDaysAreHeld ==
    ASSUME OptimisticLock, IsFiniteSet(Requests)
    PROVE  Spec => []ReservedIsHeld
<1>1. HeldInv /\ TypeOK' /\ [Next]_vars => HeldInv'
  BY StepKeepsHeldInv
<1>2. HeldInv => ReservedIsHeld
  BY RowsAreHeld
<1>3. QED
  BY <1>1, <1>2, InitHeldInv, TypeCorrect, PTL DEF Spec

\* The ledger counts as LeaveDomain does, and means the same requests.
LEMMA LedgerArithmetic ==
    /\ \A n : Ledger!Rounded(n) = Rounded(n)
    /\ \A n : Ledger!NotBelowZero(n) = NotBelowZero(n)
    /\ \A b : Ledger!Available(b) = Available(b)
    /\ \A T : Ledger!Slack(T) = Slack(T)
    /\ \A t : Ledger!RequestOf(t) = Req(t)
<1>1. \A n : Ledger!Rounded(n) = Rounded(n)
  BY DEF Ledger!Rounded, Rounded
<1>2. \A n : Ledger!NotBelowZero(n) = NotBelowZero(n)
  BY DEF Ledger!NotBelowZero, NotBelowZero
<1>3. \A b : Ledger!Available(b) = Available(b)
  BY DEF Ledger!Available, Available
<1>4. \A T : Ledger!Slack(T) = Slack(T)
  <2>1. \A T : Ledger!Cardinality(T) = Cardinality(T)
    BY Zenon DEF Ledger!Cardinality, Cardinality
  <2>2. QED
    BY <2>1 DEF Ledger!Slack, Slack
<1>5. \A t : Ledger!RequestOf(t) = Req(t)
  BY DEF Ledger!RequestOf, Req
<1>6. QED
  BY <1>1, <1>2, <1>3, <1>4, <1>5

\* The calls with a claim are those that hold days.
LEMMA ClaimsAre ==
    /\ Claims = {t \in Calls : pc[t] \in HoldsDays}
    /\ Claims' = {t \in Calls : pc'[t] \in HoldsDays}
BY DEF Claims, HoldsDays, Calls

\* What rounding may lose of the held days, and has lost of those let go of,
\* is no more than it may lose of all.
LEMMA SlackOfAll ==
    ASSUME NEW H, NEW L, Apart(H, L), IsFiniteSet(Requests)
    PROVE  /\ Slack(H) \in Nat /\ Slack(L) \in Nat /\ Slack(Requests) \in Nat
           /\ Slack(H) + Slack(L) <= Slack(Requests)
<1>1. /\ Slack(H \cup L) = Slack(H) + Slack(L)
      /\ Slack(H) \in Nat /\ Slack(L) \in Nat
  BY SlackOfUnion, SumsOverMore DEF Apart
<1>2. H \cup L \in SUBSET Requests
  BY DEF Apart
<1>3. Slack(H \cup L) <= Slack(Requests) /\ Slack(Requests) \in Nat
  BY <1>2, SumsOverMore
<1>4. QED
  BY <1>1, <1>3

\* Days that are given back are in the row, but for what rounding lost, where
\* no review and no failing statement gives days back twice.
LEMMA HeldDaysRemain ==
    ASSUME IsFiniteSet(Requests), HeldInv, DOMAIN balance = DOMAIN InitBalance,
           NEW t \in Calls, pc[t] \in {"confirm", "release"},
           BalanceKey[Req(t)] \in DOMAIN balance,
           NEW m \in Rounded(balance[BalanceKey[Req(t)]].reserved - Days[Req(t)])
    PROVE  NotBelowZero(m) \in Ledger!Remaining(BalanceKey[Req(t)], Days[Req(t)])
<1>1. ASSUME Reviews = {}, ~DbMayFail
      PROVE  m + Slack(Requests) >= 0
  <2> DEFINE k == BalanceKey[t]
             n == balance[k].reserved
             H == Holding(k)
             L == LetGo(k)
  <2>1. t \in Requests /\ Req(t) = t
    BY <1>1 DEF Calls, Req
  <2>2. Apart(H, L)
    BY HoldersAreRequests, FS_Subset DEF Apart
  <2>3. Unreviewed(k)
    BY <1>1 DEF Unreviewed
  <2>4. n \in Nat /\ Inexact(n) = 0 /\ NoneLost(k, n, H, L)
    BY <1>1, <2>1, <2>3 DEF HeldInv, RowsHold, RowsLeaveNone, TypeOK, StoreTypeOK,
       Balance
  <2>5. t \in H /\ k \in DOMAIN InitBalance /\ m \in Rounded(n - Days[t])
    BY <2>1 DEF Holding
  <2>6. Slack(H) + Slack(L) <= Slack(Requests)
        /\ Slack(H) \in Nat /\ Slack(L) \in Nat /\ Slack(Requests) \in Nat
    BY <2>2, SlackOfAll
  <2> HIDE DEF k, n, H, L
  <2>7. m \in Int /\ m + Slack(H) + Slack(L) >= 0
    BY <2>2, <2>4, <2>5, LeavingKeepsBounds
  <2>8. QED
    BY <2>6, <2>7
<1>2. Ledger!GivenBackOnce => m + Slack(Requests) >= 0
  BY <1>1 DEF Ledger!GivenBackOnce
<1>3. QED
  BY <1>2, LedgerArithmetic DEF Ledger!Remaining

\* A step that holds, takes or frees days is one of the ledger.
LEMMA HoldStepHolds ==
    ASSUME TypeOK, NEW r \in Requests, HoldStep(r)
    PROVE  Ledger!Hold(r)
<1>1. /\ pc[r] = "save" /\ pc' = [pc EXCEPT ![r] = "insert"]
      /\ Available(balance[BalanceKey[r]]) >= Days[r]
      /\ \E m \in Rounded(balance[BalanceKey[r]].reserved + Days[r]) :
            balance' = [balance EXCEPT ![BalanceKey[r]].reserved = m]
  BY DEF HoldStep
<1>2. Claims' = Claims \cup {r} /\ r \notin Claims
  <2>1. r \in Calls /\ \A u \in Calls : pc'[u] = IF u = r THEN "insert" ELSE pc[u]
    BY <1>1 DEF TypeOK, Calls
  <2>2. QED
    BY <1>1, <2>1, ClaimsAre DEF HoldsDays
<1>3. QED
  BY <1>1, <1>2, LedgerArithmetic DEF Ledger!Hold

LEMMA ClaimGiven ==
    ASSUME TypeOK, NEW t \in Calls, TakeStep(t) \/ FreeStep(t)
    PROVE  t \in Claims /\ Claims' = Claims \ {t}
<1>1. pc[t] \in {"confirm", "release"} /\ pc'[t] \in {"approve", "close"}
      /\ \A u \in Calls \ {t} : pc'[u] = pc[u]
  BY DEF TakeStep, FreeStep, TypeOK
<1>2. QED
  BY <1>1, ClaimsAre DEF HoldsDays

LEMMA TakeStepTakes ==
    ASSUME IsFiniteSet(Requests), HeldInv, DOMAIN balance = DOMAIN InitBalance,
           NEW t \in Calls, TakeStep(t)
    PROVE  Ledger!Take(t)
<1> DEFINE k == BalanceKey[Req(t)]
           d == Days[Req(t)]
<1>1. PICK m \in Rounded(balance[k].reserved - d),
           n \in Rounded(balance[k].used + d) :
         balance' = [balance EXCEPT ![k].reserved = NotBelowZero(m), ![k].used = n]
  BY DEF TakeStep
<1>2. NotBelowZero(m) \in Ledger!Remaining(k, d)
  BY HeldDaysRemain DEF TakeStep
<1>3. t \in Claims /\ Claims' = Claims \ {t}
  BY ClaimGiven DEF HeldInv
<1>4. QED
  BY <1>1, <1>2, <1>3, LedgerArithmetic DEF Ledger!Take

LEMMA FreeStepFrees ==
    ASSUME IsFiniteSet(Requests), HeldInv, DOMAIN balance = DOMAIN InitBalance,
           NEW t \in Calls, FreeStep(t)
    PROVE  Ledger!Free(t)
<1> DEFINE k == BalanceKey[Req(t)]
           d == Days[Req(t)]
<1>1. PICK m \in Rounded(balance[k].reserved - d) :
         balance' = [balance EXCEPT ![k].reserved = NotBelowZero(m)]
  BY DEF FreeStep
<1>2. NotBelowZero(m) \in Ledger!Remaining(k, d)
  BY HeldDaysRemain DEF FreeStep
<1>3. t \in Claims /\ Claims' = Claims \ {t}
  BY ClaimGiven DEF HeldInv
<1>4. QED
  BY <1>1, <1>2, <1>3, LedgerArithmetic DEF Ledger!Free

\* A step that touches no row starts a review, tries again, or loses claims.
LEMMA QuietStepLosesOrJoins ==
    ASSUME QuietStep
    PROVE  Ledger!Next
<1>1. UNCHANGED balance
  BY DEF QuietStep
<1>2. CASE Claims' \subseteq Claims
  <2> DEFINE T == Claims \ Claims'
  <2>1. T \in SUBSET Claims /\ Claims' = Claims \ T
    BY <1>2
  <2>2. Ledger!Lose(T)
    BY <1>1, <2>1 DEF Ledger!Lose
  <2>3. QED
    BY <2>1, <2>2 DEF Ledger!Next
<1>3. ASSUME NEW t \in Calls \ Claims, t \in Reviews \/ DbMayFail,
             Claims' = Claims \cup {t}
      PROVE  Ledger!Next
  <2>1. Ledger!Join(t)
    BY <1>1, <1>3 DEF Ledger!Join
  <2>2. QED
    BY <2>1 DEF Ledger!Next, Calls
<1>4. QED
  BY <1>2, <1>3 DEF QuietStep

\* With the optimistic lock, reserveDays, confirmReservation and
\* releaseReservation act on the balances as the single steps of LeaveLedger,
\* whatever calls and reviews interleave between their awaits, also when
\* statements fail and the service restarts.
THEOREM ServiceImplementsLedger ==
    ASSUME OptimisticLock, IsFiniteSet(Requests)
    PROVE  Spec => ImplementsLedger
<1> DEFINE LInv == HeldInv /\ DOMAIN balance = DOMAIN InitBalance
<1>1. Init => LInv /\ Ledger!Init
  <2> SUFFICES ASSUME Init PROVE LInv /\ Ledger!Init
    OBVIOUS
  <2>1. balance = InitBalance /\ pc = [t \in Calls |-> "idle"]
    BY DEF Init, StoreInit
  <2>2. Claims = {}
    BY <2>1 DEF Claims, Calls
  <2>3. QED
    BY <2>1, <2>2, InitHeldInv DEF Ledger!Init
<1>2. LInv /\ TypeOK' /\ [Next]_vars => LInv'
  BY StepKeepsHeldInv, RowsStay DEF HeldInv
<1>3. LInv /\ [Next]_vars => [Ledger!Next]_<<balance, Claims>>
  <2> SUFFICES ASSUME LInv, [Next]_vars
               PROVE  Ledger!Next
    OBVIOUS
  <2>1. ASSUME NEW r \in Requests, HoldStep(r)
        PROVE  Ledger!Next
    BY <2>1, HoldStepHolds DEF HeldInv, Ledger!Next
  <2>2. ASSUME NEW t \in Calls, TakeStep(t) \/ FreeStep(t)
        PROVE  Ledger!Next
    BY <2>2, TakeStepTakes, FreeStepFrees DEF Ledger!Next, Calls
  <2>3. StepIsOfAKind
    BY StepKinds DEF HeldInv, RowsInv
  <2>4. QED
    BY <2>1, <2>2, <2>3, QuietStepLosesOrJoins DEF StepIsOfAKind
<1>4. QED
  BY <1>1, <1>2, <1>3, TypeCorrect, PTL DEF Spec, ImplementsLedger, Ledger!Spec
=============================================================================
