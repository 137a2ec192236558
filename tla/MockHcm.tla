------------------------------ MODULE MockHcm ------------------------------
(***************************************************************************)
(* The Human Capital Management system, as the repository's mock server    *)
(* implements it: balances by key, and the time-off requests it approved.  *)
(* Its handlers are synchronous, so each is one step.                      *)
(*                                                                         *)
(* The mock's two maps, requests (by refId) and processedIdempotencyKeys,  *)
(* are written together, so both are read off one set: filed, the requests *)
(* whose filing HCM approved.                                              *)
(***************************************************************************)
EXTENDS LeaveDomain

CONSTANT InitHcm    \* HCM's balances at the start, by key

ASSUME HcmAssumption ==
    /\ DOMAIN InitHcm \subseteq Keys
    /\ InitHcm \in [DOMAIN InitHcm -> HcmBalance]

VARIABLES
    hcm,    \* HCM's balances: a function on the keys HCM knows
    filed   \* the requests HCM approved and deducted

hcmVars == <<hcm, filed>>

HcmInit ==
    /\ hcm   = InitHcm
    /\ filed = {}

HcmTypeOK ==
    /\ DOMAIN hcm \subseteq Keys
    /\ hcm \in [DOMAIN hcm -> HcmBalance]
    /\ filed \subseteq Requests

\* A handler without its idempotency lookup.
AlreadyFiledForgets(r) == FALSE

\* The handler's idempotency lookup: an approved filing under the same key.
AlreadyFiled(r) == \E q \in filed : IdempotencyKey[q] = IdempotencyKey[r]

\* The handler's validation: HCM knows the combination and has the days.
Covers(r) ==
    LET k == BalanceKey[r]
    IN  k \in DOMAIN hcm /\ hcm[k].total - hcm[k].used >= Days[r]

\* The handler may find too few days, or does not know the combination.
MayRefuse(r) ==
    LET k == BalanceKey[r]
    IN  k \in DOMAIN hcm => MayBeLess(hcm[k].total - hcm[k].used, Days[r])

\* A handler that deducts before it validates.
DeductsFirst(r, approved) ==
    LET k == BalanceKey[r]
    IN  /\ k \in DOMAIN hcm
        /\ \E m \in Rounded(hcm[k].used + Days[r]) :
              hcm' = [hcm EXCEPT ![k].used = m]
        /\ \/ Covers(r) /\ approved /\ filed' = filed \cup {r}
           \/ MayRefuse(r) /\ ~approved /\ UNCHANGED filed

\* POST /hcm/time-off: a known key is answered APPROVED from the cache, a
\* covered request is deducted, recorded and APPROVED, any other is a 400.
FileTimeOff(r, approved) ==
    \/ /\ AlreadyFiled(r)
       /\ approved
       /\ UNCHANGED hcmVars
    \/ /\ ~AlreadyFiled(r) /\ Covers(r)
       /\ approved
       /\ LET k == BalanceKey[r]
          IN  \E m \in Rounded(hcm[k].used + Days[r]) :
                 hcm' = [hcm EXCEPT ![k].used = m]
       /\ filed' = filed \cup {r}
    \/ /\ ~AlreadyFiled(r) /\ MayRefuse(r)
       /\ ~approved
       /\ UNCHANGED hcmVars

\* POST /hcm/admin/anniversary-bonus: more days for k, or a new balance.
GrantBonus(k, d) ==
    /\ \/ /\ k \in DOMAIN hcm
          /\ \E m \in Rounded(hcm[k].total + d) :
                hcm' = [hcm EXCEPT ![k].total = m]
       \/ /\ k \notin DOMAIN hcm
          /\ hcm' = [j \in DOMAIN hcm \cup {k} |->
                       IF j = k THEN [total |-> d, used |-> 0] ELSE hcm[j]]
    /\ UNCHANGED filed

\* POST /hcm/admin/set-balance: the balance of k is replaced.
SetBalance(k, h) ==
    /\ hcm' = [j \in DOMAIN hcm \cup {k} |-> IF j = k THEN h ELSE hcm[j]]
    /\ UNCHANGED filed

\* POST /hcm/admin/reset: everything is as it was at the start.
ResetToSeed ==
    /\ hcm'   = InitHcm
    /\ filed' = {}
=============================================================================
