------------------------- MODULE MCTimeOffRequests -------------------------
(***************************************************************************)
(* Instances of TimeOffRequests for TLC.  Where the days are what is asked *)
(* about, all submit calls draw on one balance k1.  Where the keys are, r2 *)
(* is the call of another employee, on the balance k2.                     *)
(***************************************************************************)
EXTENDS TimeOffRequests, TLC

CONSTANTS k1, k2, r1, r2, r3, approve1, reject1, cancel1

OnK1 == [r \in Requests |-> k1]

\* r2 is another employee's.
R2OnK2 == [r \in Requests |-> IF r = r2 THEN k2 ELSE k1]

TwoEach == [r \in Requests |-> 2]

\* r1 asks for 2 days, r2 for 5.
TwoAndFive == [r \in Requests |-> IF r = r1 THEN 2 ELSE 5]

\* With four steps to 0.0001 day: r1 asks for a multiple of it, r2 for days
\* halfway between two multiples, r3 for days nearer to one of them.
WholeTieFine == (r1 :> 40 @@ r2 :> 42) @@ [r \in Requests |-> 43]

\* 1.1 days, in steps of 0.0001: all that is left of 1.2 days with 0.1 used.
ElevenTenths == [r \in Requests |-> 11000]
TwelveTenths ==
    [k \in Keys |-> [total |-> 12000, used |-> 1000, reserved |-> 0]]
HcmTenths == [k \in Keys |-> [total |-> 12000, used |-> 1000]]

\* Every client chose its own key.
OwnKey == [r \in Requests |-> r]

\* The calls r1 and r2 have one key: a client repeats itself, or two clients
\* chose the same key.
SharedKey == [r \in Requests |-> IF r = r2 THEN r1 ELSE r]

\* The same of r1 and r3.
ThirdRepeatsFirst == [r \in Requests |-> IF r = r3 THEN r1 ELSE r]

\* What each review does, and to which request.
ReviewKind ==
    [o \in Reviews |-> CASE o = approve1 -> "approve"
                         [] o = reject1  -> "reject"
                         [] o = cancel1  -> "cancel"]

ReviewTarget == [o \in Reviews |-> r1]

\* The local rows and HCM's own: in step, or HCM behind by a filing made
\* elsewhere.
Local(n) == [k \in Keys |-> [total |-> n, used |-> 0, reserved |-> 0]]
AtHcm(n) == [k \in Keys |-> [total |-> n, used |-> 0]]

LocalThree == Local(3)
LocalSix   == Local(6)
HcmThree   == AtHcm(3)
HcmFour    == AtHcm(4)
HcmSix     == AtHcm(6)

\* With four steps to 0.0001 day: a quarter of it is used, so 84 steps are
\* left locally and 82 at HCM, until the used days are first rounded.
Local85  == [k \in Keys |-> [total |-> 85, used |-> 1, reserved |-> 0]]
Hcm83    == [k \in Keys |-> [total |-> 83, used |-> 1]]
=============================================================================
