---------------------------- MODULE LeaveLedger ----------------------------
(***************************************************************************)
(* What the reservations promise about a balance when a stale save fails:  *)
(* holding, taking and freeing the days of a request are single steps on   *)
(* the current row, days are held only where they are available, and a     *)
(* call that may give days back does so at most once.  A review is such a  *)
(* call as well as the submit call of its request, so days may be given    *)
(* back once by each; a restart may leave them held.                       *)
(*                                                                         *)
(* Amounts are rounded as in the code.  Where no review and no failing     *)
(* statement gives days back a second time, reserved days are clipped at   *)
(* zero only for what rounding lost: never, when all days are multiples of *)
(* 0.0001.                                                                 *)
(***************************************************************************)
EXTENDS LeaveDomain

CONSTANTS
    InitRow,    \* the rows at the start, by key
    Reviews,    \* the calls that act on a request after its submit call
    Target,     \* Target[o]: the request review o is about
    MayFail     \* whether a call may fail once it has given days back

VARIABLES
    row,    \* row[k]: the balance of k
    claims  \* the calls that may still give the days of their request back

RequestOf(t) == IF t \in Requests THEN t ELSE Target[t]

Init ==
    /\ row    = InitRow
    /\ claims = {}

Hold(r) ==
    LET k == BalanceKey[r]
    IN  /\ r \notin claims
        /\ Available(row[k]) >= Days[r]
        /\ \E m \in Rounded(row[k].reserved + Days[r]) :
              row' = [row EXCEPT ![k].reserved = m]
        /\ claims' = claims \cup {r}

\* A review is accepted, or a call that failed once is to try again.
Join(t) ==
    /\ t \in Reviews \/ MayFail
    /\ t \notin claims
    /\ claims' = claims \cup {t}
    /\ UNCHANGED row

GivenBackOnce == Reviews = {} /\ ~MayFail

\* What is still reserved after d days are given back: nothing, when more is
\* given back than is left.
Remaining(k, d) ==
    {NotBelowZero(m) : m \in {n \in Rounded(row[k].reserved - d) :
                                 GivenBackOnce => n + Slack(Requests) >= 0}}

Take(t) ==
    LET k == BalanceKey[RequestOf(t)]
        d == Days[RequestOf(t)]
    IN  /\ t \in claims
        /\ \E m \in Remaining(k, d), n \in Rounded(row[k].used + d) :
              row' = [row EXCEPT ![k].reserved = m, ![k].used = n]
        /\ claims' = claims \ {t}

Free(t) ==
    LET k == BalanceKey[RequestOf(t)]
        d == Days[RequestOf(t)]
    IN  /\ t \in claims
        /\ \E m \in Remaining(k, d) :
              row' = [row EXCEPT ![k].reserved = m]
        /\ claims' = claims \ {t}

\* Calls end before they gave their days back.
Lose(T) ==
    /\ claims' = claims \ T
    /\ UNCHANGED row

Next ==
    \/ \E r \in Requests : Hold(r)
    \/ \E t \in Requests \cup Reviews : Join(t) \/ Take(t) \/ Free(t)
    \/ \E T \in SUBSET claims : Lose(T)

Spec == Init /\ [][Next]_<<row, claims>>
=============================================================================
