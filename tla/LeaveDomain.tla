---------------------------- MODULE LeaveDomain ----------------------------
(***************************************************************************)
(* What every part of the time-off service shares: the keys of a balance,  *)
(* the payloads of the submit calls, and the arithmetic on a balance row.  *)
(*                                                                         *)
(* A "request" stands both for one POST /time-off-requests call and for    *)
(* the row that call creates, when it creates one: a call creates at most  *)
(* one row, and a row is created by exactly one call.                      *)
(*                                                                         *)
(* Amounts of days are counted in steps of which Unit make 0.0001 day, the *)
(* place that the code rounds to.  A client may ask for, and HCM may hold, *)
(* any number of steps; what the code rounds is a multiple of Unit.        *)
(***************************************************************************)
EXTENDS Integers, FiniteSets

CONSTANTS
    Keys,           \* (employeeId, locationId, leaveTypeId) triples
    Requests,       \* submit calls, and the rows they create
    BalanceKey,     \* BalanceKey[r]: the balance that request r draws on
    Days,           \* Days[r]: the days it asks for
    IdempotencyKey, \* IdempotencyKey[r]: the key its client supplied
    Unit,           \* steps to 0.0001 day
    ExactFloats     \* whether the amounts are fractions a double holds exactly

\* create-time-off-request.dto.ts demands a number of days of at least 0.5, so
\* no request is for less than 0.0001 day.
ASSUME DomainAssumption ==
    /\ BalanceKey \in [Requests -> Keys]
    /\ Unit \in Nat \ {0}
    /\ Days \in [Requests -> Nat \ {0}]
    /\ \A r \in Requests : Days[r] >= Unit
    /\ ExactFloats \in BOOLEAN

\* The days of all requests in S, counted one step at a time: the sum of
\* natural numbers is the size of a disjoint union.
StepsOf(r) == {r} \X (1 .. Days[r])

DaysOf(S) == Cardinality(UNION {StepsOf(r) : r \in S})

(***************************************************************************)
(* Arithmetic on doubles.                                                  *)
(***************************************************************************)

\* Rounding that always goes down.
RoundedDown(n) == {n - (n % Unit)}

\* parseFloat(n.toFixed(4)).  A value halfway between two multiples goes
\* either way: the double nearest to it is above it or below it.
Rounded(n) ==
    {m \in (n - Unit) .. (n + Unit) : /\ m % Unit = 0
                                      /\ 2 * (m - n) <= Unit
                                      /\ 2 * (n - m) <= Unit}

\* A difference that equals b on paper may come out just below it.
MayBeLess(a, b) == a < b \/ (a = b /\ ~ExactFloats)

\* Twice the most by which one rounding may be off on account of n, a term of
\* the sum that is rounded.  Multiples of 0.0001 day are never off.
Inexact(n) == IF n % Unit = 0 THEN 0 ELSE Unit

\* The same for a single rounding of the days of each request in S.
Slack(S) == Unit * Cardinality({r \in S : Days[r] % Unit # 0})

\* a and b differ by no more than half of slack.
Near(a, b, slack) == 2 * (a - b) <= slack /\ 2 * (b - a) <= slack

(***************************************************************************)
(* The row of a balance, and what HCM keeps of one.  The operators below   *)
(* give the rows that may result.                                          *)
(***************************************************************************)
Balance == [total : Nat, used : Nat, reserved : Nat]

HcmBalance == [total : Nat, used : Nat]

Available(b) == b.total - b.used - b.reserved

NotBelowZero(n) == IF n < 0 THEN 0 ELSE n

\* reserveDays: the days of a submitted request are held.
Reserved(b, d) == {[b EXCEPT !.reserved = m] : m \in Rounded(b.reserved + d)}

\* A release without its Math.max.
ReleasedUnclipped(b, d) ==
    {[b EXCEPT !.reserved = m] : m \in Rounded(b.reserved - d)}

\* releaseReservation: the held days are free again.
Released(b, d) ==
    {[b EXCEPT !.reserved = NotBelowZero(m)] : m \in Rounded(b.reserved - d)}

\* The days are counted as used.
Counted(b, d) == {[b EXCEPT !.used = m] : m \in Rounded(b.used + d)}

\* A confirmation that forgets to give up the hold.
ConfirmedKeepsHold(b, d) == Counted(b, d)

\* confirmReservation: the held days become used days.
Confirmed(b, d) == UNION {Counted(row, d) : row \in Released(b, d)}

\* A sync that takes the days HCM has left for its total.
SyncedAvailable(b, h) == [b EXCEPT !.total = h.total - h.used - b.reserved,
                                   !.used  = h.used]

\* A sync that forgets the used days.
SyncedTotalOnly(b, h) == [b EXCEPT !.total = h.total]

\* "HCM always wins": the totals of h replace the local ones.
Synced(b, h) == [b EXCEPT !.total = h.total, !.used = h.used]

(***************************************************************************)
(* RequestStatus, and "none" for a request that has no row.                *)
(***************************************************************************)
Settled == {"APPROVED", "REJECTED", "CANCELLED"}

RowStatus == {"PENDING", "NEEDS_REVALIDATION"} \cup Settled

Status == RowStatus \cup {"none"}
=============================================================================
