----------------------------- MODULE MCHcmSync -----------------------------
(***************************************************************************)
(* Instances of HcmSync for TLC: k1 has a local row, with days reserved    *)
(* for the pending request r1; k2 is known to HCM alone, its employee      *)
(* known to the service; the employee of k3 is not.                        *)
(***************************************************************************)
EXTENDS HcmSync, TLC

CONSTANTS k1, k2, k3, r1, cycle1, cycle2, batch1, refresh1

KeyOfRequest == [r \in Requests |-> k1]
TwoDays      == [r \in Requests |-> 2]
OwnKey       == [r \in Requests |-> r]
KeyOfRefresh == [s \in Refreshes |-> k1]
Employees    == Keys \ {k3}

Hcm(t, u) == [total |-> t, used |-> u]

\* Two of five days are reserved for r1.
LocalRows == [k \in {k1} |-> [total |-> 5, used |-> 0, reserved |-> 2]]

HcmRows == (k1 :> Hcm(5, 0)) @@ [k \in Keys |-> Hcm(2, 1)]

\* HCM leaves one day of k1: fewer than are reserved, though its total is not.
Lowered == {Hcm(3, 2)}

OneDay == {1}

\* A list that names one balance only, as HCM never had it: two days are left,
\* just those that are reserved.
AnyList == {[k \in {k1} |-> Hcm(4, 2)]}

\* The two cycles are interchangeable.
CycleSymmetry == Permutations({cycle1, cycle2})
=============================================================================
