-------------------------- MODULE MCTimeOffSystem --------------------------
(***************************************************************************)
(* An instance of TimeOffSystem for TLC: one balance, a request that is    *)
(* submitted and may be rejected by the manager, and the syncs.            *)
(***************************************************************************)
EXTENDS TimeOffSystem, TLC

CONSTANTS k1, r1, reject1, cycle1, refresh1

KeyOfRequest == [r \in Requests |-> k1]
TwoDays      == [r \in Requests |-> 2]
OwnKey       == [r \in Requests |-> r]
ReviewKind   == [o \in Reviews |-> "reject"]
ReviewTarget == [o \in Reviews |-> r1]
KeyOfRefresh == [s \in Refreshes |-> k1]

LocalRows == [k \in {k1} |-> [total |-> 3, used |-> 0, reserved |-> 0]]
HcmRows   == [k \in {k1} |-> [total |-> 3, used |-> 0]]

\* HCM's total of k1 is lowered below its used days: nothing is left for the
\* request, and a conflict is found even when nothing is reserved any more.
Lowered == {[total |-> 1, used |-> 2]}

OneDay == {1}
=============================================================================
