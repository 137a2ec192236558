---------------------------- MODULE LeaveFiling ----------------------------
(***************************************************************************)
(* What the service promises about the life of a request, whatever calls,  *)
(* syncs, failures and restarts meet on the way: the status the local      *)
(* database shows and what HCM has filed, each changed in single steps.    *)
(* It says nothing about how the two are kept together.                    *)
(*                                                                         *)
(* The promise is weaker than the state diagram of RequestStatus: a review *)
(* that read PENDING before another call settled the request still writes  *)
(* its own outcome over it, so a settled request may be settled again.     *)
(***************************************************************************)
EXTENDS LeaveDomain

VARIABLES
    status, \* status[r] in the local database
    filed   \* the requests HCM approved and deducted

Init ==
    /\ status \in [Requests -> {"none", "PENDING"}]
    /\ filed = {}

SetTo(r, s) ==
    /\ status' = [status EXCEPT ![r] = s]
    /\ UNCHANGED filed

\* A request is stored under a key no stored request has.
Store(r) ==
    /\ \A q \in Requests :
          IdempotencyKey[q] = IdempotencyKey[r] => status[q] = "none"
    /\ SetTo(r, "PENDING")

\* HCM files a stored request, once for its key.
File(r) ==
    /\ status[r] # "none"
    /\ \A q \in filed : IdempotencyKey[q] # IdempotencyKey[r]
    /\ filed' = filed \cup {r}
    /\ UNCHANGED status

\* Only a filed request is approved.
Approve(r) ==
    /\ r \in filed
    /\ SetTo(r, "APPROVED")

\* A stored request is rejected or cancelled.
Close(r) ==
    /\ status[r] # "none"
    /\ SetTo(r, "REJECTED") \/ SetTo(r, "CANCELLED")

\* A conflict is found for pending requests.  (RequestStatus has an arrow from
\* every status to NEEDS_REVALIDATION; the code takes this one only.)
Flag(S) ==
    /\ \A r \in S : status[r] = "PENDING"
    /\ status' = [r \in Requests |->
                    IF r \in S THEN "NEEDS_REVALIDATION" ELSE status[r]]
    /\ UNCHANGED filed

Next ==
    \/ \E r \in Requests : Store(r) \/ File(r) \/ Approve(r) \/ Close(r)
    \/ \E S \in SUBSET Requests : Flag(S)

Spec == Init /\ [][Next]_<<status, filed>>
=============================================================================
