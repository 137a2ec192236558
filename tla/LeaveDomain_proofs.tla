------------------------- MODULE LeaveDomain_proofs -------------------------
(***************************************************************************)
(* Facts about the arithmetic of LeaveDomain, for any amounts and any      *)
(* number of steps to 0.0001 day.                                          *)
(***************************************************************************)
EXTENDS LeaveDomain, FiniteSetTheorems, TLAPS

USE DomainAssumption

\* A multiple of n above -n is not negative.
LEMMA MultipleIsNatural ==
    ASSUME NEW n \in Nat \ {0}, NEW m \in Int, m % n = 0, m > 0 - n
    PROVE  m \in Nat
<1> DEFINE q == m \div n
<1>1. q \in Int /\ m = n * q
  OBVIOUS
<1> HIDE DEF q
<1>2. q >= 0
  BY <1>1
<1>3. QED
  BY <1>1, <1>2

\* Rounding never makes a natural number negative.
LEMMA RoundedIsNatural ==
    ASSUME NEW n \in Nat, NEW m \in Rounded(n)
    PROVE  m \in Nat
<1>1. m \in Int /\ m % Unit = 0 /\ m > 0 - Unit
  BY DEF Rounded
<1>2. QED
  BY <1>1, MultipleIsNatural

\* Rounding moves a number by at most half of 0.0001 day.
LEMMA RoundedIsNear ==
    ASSUME NEW n \in Int, NEW m \in Rounded(n)
    PROVE  m \in Int /\ Near(m, n, Unit)
BY DEF Rounded, Near

\* Holding, confirming and releasing days turn a row into a row: no column
\* goes below zero.
LEMMA RowArithmetic ==
    ASSUME NEW b \in Balance, NEW d \in Nat
    PROVE  /\ Reserved(b, d)  \subseteq Balance
           /\ Confirmed(b, d) \subseteq Balance
           /\ Released(b, d)  \subseteq Balance
<1>1. b.total \in Nat /\ b.used \in Nat /\ b.reserved \in Nat
  BY DEF Balance
<1>2. Reserved(b, d) \subseteq Balance
  <2>1. Rounded(b.reserved + d) \subseteq Nat
    BY <1>1, RoundedIsNatural
  <2>2. QED
    BY <2>1 DEF Balance, Reserved
<1>3. Released(b, d) \subseteq Balance
  <2>1. ASSUME NEW m \in Rounded(b.reserved - d)
        PROVE  NotBelowZero(m) \in Nat
    BY <1>1, RoundedIsNear DEF NotBelowZero
  <2>2. QED
    BY <2>1 DEF Balance, Released
<1>4. ASSUME NEW row \in Balance
      PROVE  Counted(row, d) \subseteq Balance
  <2>1. Rounded(row.used + d) \subseteq Nat
    BY RoundedIsNatural DEF Balance
  <2>2. QED
    BY <2>1 DEF Balance, Counted
<1>5. Confirmed(b, d) \subseteq Balance
  BY <1>3, <1>4 DEF Confirmed
<1>6. QED
  BY <1>2, <1>3, <1>5

\* Days that were available may be held: no more than half of 0.0001 day is
\* promised beyond them.
LEMMA ReservedIsAvailable ==
    ASSUME NEW b \in Balance, NEW d \in Nat, Available(b) >= d,
           NEW row \in Reserved(b, d)
    PROVE  2 * Available(row) + Unit >= 0
<1>1. PICK m \in Rounded(b.reserved + d) : row = [b EXCEPT !.reserved = m]
  BY DEF Reserved
<1>2. m \in Int /\ 2 * (m - (b.reserved + d)) <= Unit
  BY RoundedIsNear DEF Balance, Near
<1>3. row.total = b.total /\ row.used = b.used /\ row.reserved = m
  BY <1>1 DEF Balance
<1>4. QED
  BY <1>2, <1>3 DEF Balance, Available

----------------------------------------------------------------------------
(***************************************************************************)
(* Sums of days and of what rounding may lose, over finite sets of         *)
(* requests.                                                               *)
(***************************************************************************)

\* A rounded sum is a multiple of 0.0001 day, and is off by no more than its
\* terms account for: nothing, when both are multiples.
LEMMA RoundedSumIsNear ==
    ASSUME NEW a \in Int, NEW d \in Nat, NEW n \in {a + d, a - d},
           NEW m \in Rounded(n)
    PROVE  /\ m \in Int
           /\ Inexact(m) = 0
           /\ Near(m, n, Inexact(a) + Inexact(d))
<1>1. m \in Int /\ m % Unit = 0 /\ Near(m, n, Unit)
  BY RoundedIsNear DEF Rounded
<1>2. CASE a % Unit = 0 /\ d % Unit = 0
  <2> DEFINE i == a \div Unit
             j == d \div Unit
             l == m \div Unit
  <2>1. /\ i \in Int /\ a = Unit * i
        /\ j \in Int /\ d = Unit * j
        /\ l \in Int /\ m = Unit * l
    BY <1>1, <1>2
  <2> HIDE DEF i, j, l
  <2>2. PICK q \in {i + j, i - j} : n = Unit * q
    BY <2>1
  <2>3. q \in Int /\ m - n = Unit * (l - q)
    BY <2>1, <2>2
  <2>4. l = q
    <3>1. 2 * (Unit * (l - q)) <= Unit /\ 2 * (Unit * (q - l)) <= Unit
      BY <1>1, <2>1, <2>3 DEF Near
    <3>2. CASE l - q >= 1
      BY <2>1, <2>3, <3>1, <3>2
    <3>3. CASE q - l >= 1
      BY <2>1, <2>3, <3>1, <3>3
    <3>4. QED
      BY <2>1, <2>3, <3>2, <3>3
  <2>5. m = n
    BY <2>1, <2>2, <2>4
  <2>6. QED
    BY <1>1, <1>2, <2>5 DEF Near, Inexact
<1>3. CASE a % Unit # 0 \/ d % Unit # 0
  BY <1>1, <1>3 DEF Near, Inexact
<1>4. QED
  BY <1>2, <1>3

\* The steps of one request are as many as its days.
LEMMA StepsOfOne ==
    ASSUME NEW r \in Requests
    PROVE  IsFiniteSet(StepsOf(r)) /\ Cardinality(StepsOf(r)) = Days[r]
<1>1. /\ IsFiniteSet(1 .. Days[r])
      /\ Cardinality(1 .. Days[r]) = Days[r]
  BY FS_Interval
<1>2. IsFiniteSet({r}) /\ Cardinality({r}) = 1
  BY FS_Singleton
<1>3. QED
  BY <1>1, <1>2, FS_Product DEF StepsOf

\* The steps of finitely many requests are finitely many.
LEMMA StepsAreFinite ==
    ASSUME NEW S \in SUBSET Requests, IsFiniteSet(S)
    PROVE  /\ IsFiniteSet(UNION {StepsOf(r) : r \in S})
           /\ DaysOf(S) \in Nat
<1> DEFINE T == {StepsOf(r) : r \in S}
           f == [r \in S |-> StepsOf(r)]
<1>1. f \in Surjection(S, T)
  BY DEF Surjection
<1>2. IsFiniteSet(T)
  BY <1>1, FS_Surjection
<1>3. \A t \in T : IsFiniteSet(t)
  BY StepsOfOne
<1>4. IsFiniteSet(UNION T)
  BY <1>2, <1>3, FS_UNION
<1>5. QED
  BY <1>4, FS_CardinalityType DEF DaysOf

\* No request, no days.
LEMMA DaysOfNone == DaysOf({}) = 0
BY FS_EmptySet DEF DaysOf

\* The days of one request.
LEMMA DaysOfOne ==
    ASSUME NEW r \in Requests
    PROVE  DaysOf({r}) = Days[r]
<1>1. UNION {StepsOf(q) : q \in {r}} = StepsOf(r)
  OBVIOUS
<1>2. QED
  BY <1>1, StepsOfOne DEF DaysOf

\* The days of the requests in one of two sets that have none in common.
LEMMA DaysOfUnion ==
    ASSUME NEW S \in SUBSET Requests, IsFiniteSet(S),
           NEW T \in SUBSET Requests, IsFiniteSet(T), S \cap T = {}
    PROVE  DaysOf(S \cup T) = DaysOf(S) + DaysOf(T)
<1> DEFINE A == UNION {StepsOf(r) : r \in S}
           B == UNION {StepsOf(r) : r \in T}
<1>1. IsFiniteSet(A) /\ IsFiniteSet(B)
  BY StepsAreFinite
<1>2. A \cap B = {}
  BY DEF StepsOf
<1>3. UNION {StepsOf(r) : r \in S \cup T} = A \cup B
  OBVIOUS
<1>4. /\ Cardinality(A \cup B) =
            Cardinality(A) + Cardinality(B) - Cardinality(A \cap B)
      /\ Cardinality(A) \in Nat /\ Cardinality(B) \in Nat
  BY <1>1, FS_Union, FS_CardinalityType
<1>5. Cardinality(A \cap B) = 0
  BY <1>2, FS_EmptySet
<1>6. /\ DaysOf(S) = Cardinality(A)
      /\ DaysOf(T) = Cardinality(B)
      /\ DaysOf(S \cup T) = Cardinality(A \cup B)
  BY <1>3 DEF DaysOf
<1> HIDE DEF A, B
<1>7. QED
  BY <1>4, <1>5, <1>6

\* What rounding may lose, for no request, for one, and for those in one of
\* two sets.
LEMMA SlackOfNone == Slack({}) = 0
<1>1. {r \in {} : Days[r] % Unit # 0} = {}
  OBVIOUS
<1>2. QED
  BY <1>1, FS_EmptySet DEF Slack

LEMMA SlackOfOne ==
    ASSUME NEW r \in Requests
    PROVE  Slack({r}) = Inexact(Days[r])
<1>1. {q \in {r} : Days[q] % Unit # 0} =
         IF Days[r] % Unit = 0 THEN {} ELSE {r}
  OBVIOUS
<1>2. Cardinality({}) = 0 /\ Cardinality({r}) = 1
  BY FS_EmptySet, FS_Singleton
<1>3. Slack({r}) = IF Days[r] % Unit = 0 THEN Unit * Cardinality({})
                                        ELSE Unit * Cardinality({r})
  BY <1>1 DEF Slack
<1>4. QED
  BY <1>2, <1>3 DEF Inexact

LEMMA SlackOfUnion ==
    ASSUME NEW S \in SUBSET Requests, IsFiniteSet(S),
           NEW T \in SUBSET Requests, IsFiniteSet(T), S \cap T = {}
    PROVE  /\ Slack(S) \in Nat
           /\ Slack(S \cup T) = Slack(S) + Slack(T)
<1> DEFINE A == {r \in S : Days[r] % Unit # 0}
           B == {r \in T : Days[r] % Unit # 0}
<1>1. IsFiniteSet(A) /\ IsFiniteSet(B)
  BY FS_Subset
<1>2. {r \in S \cup T : Days[r] % Unit # 0} = A \cup B /\ A \cap B = {}
  OBVIOUS
<1>3. /\ Cardinality(A \cup B) =
            Cardinality(A) + Cardinality(B) - Cardinality(A \cap B)
      /\ Cardinality(A) \in Nat /\ Cardinality(B) \in Nat
  BY <1>1, FS_Union, FS_CardinalityType
<1>4. Cardinality(A \cap B) = 0
  BY <1>2, FS_EmptySet
<1>5. Cardinality(A \cup B) = Cardinality(A) + Cardinality(B)
  BY <1>3, <1>4
<1> HIDE DEF A, B
<1>6. /\ Slack(S) = Unit * Cardinality(A)
      /\ Slack(T) = Unit * Cardinality(B)
      /\ Slack(S \cup T) = Unit * Cardinality(A \cup B)
  BY <1>2 DEF Slack, A, B
<1>7. QED
  BY <1>3, <1>5, <1>6

\* Sums over a set that one request joins.
LEMMA SumsWithOneMore ==
    ASSUME NEW S \in SUBSET Requests, IsFiniteSet(S),
           NEW r \in Requests, r \notin S
    PROVE  /\ DaysOf(S \cup {r}) = DaysOf(S) + Days[r]
           /\ Slack(S \cup {r}) = Slack(S) + Inexact(Days[r])
<1>1. /\ {r} \in SUBSET Requests
      /\ IsFiniteSet({r})
      /\ S \cap {r} = {}
  BY FS_Singleton
<1>2. DaysOf(S \cup {r}) = DaysOf(S) + DaysOf({r})
  BY <1>1, DaysOfUnion
<1>3. Slack(S \cup {r}) = Slack(S) + Slack({r})
  BY <1>1, SlackOfUnion
<1>4. QED
  BY <1>2, <1>3, DaysOfOne, SlackOfOne

\* Sums over a larger set are no smaller.
LEMMA SumsOverMore ==
    ASSUME NEW T \in SUBSET Requests, IsFiniteSet(T), NEW S \in SUBSET T
    PROVE  /\ DaysOf(S) \in Nat /\ DaysOf(T) \in Nat
           /\ Slack(S) \in Nat /\ Slack(T) \in Nat
           /\ DaysOf(S) <= DaysOf(T)
           /\ Slack(S) <= Slack(T)
<1>1. /\ IsFiniteSet(S) /\ IsFiniteSet(T \ S)
      /\ T = S \cup (T \ S)
      /\ S \cap (T \ S) = {}
  BY FS_Subset
<1>2. DaysOf(S) \in Nat /\ DaysOf(T \ S) \in Nat
  BY <1>1, StepsAreFinite
<1>3. DaysOf(T) = DaysOf(S) + DaysOf(T \ S)
  BY <1>1, DaysOfUnion
<1>4. /\ Slack(S) \in Nat /\ Slack(T \ S) \in Nat
      /\ Slack(T) = Slack(S) + Slack(T \ S)
  BY <1>1, SlackOfUnion
<1>5. QED
  BY <1>2, <1>3, <1>4

\* Rounding loses no more than the days themselves: no request is for less than
\* 0.0001 day.
LEMMA SlackWithinDays ==
    ASSUME NEW S \in SUBSET Requests, IsFiniteSet(S)
    PROVE  Slack(S) <= DaysOf(S)
<1> DEFINE A == {r \in S : Days[r] % Unit # 0}
           B == UNION {StepsOf(r) : r \in S}
<1>1. IsFiniteSet(A) /\ IsFiniteSet(B)
  BY StepsAreFinite, FS_Subset
<1>2. IsFiniteSet(1 .. Unit) /\ Cardinality(1 .. Unit) = Unit
  BY FS_Interval
<1>3. /\ IsFiniteSet(A \X (1 .. Unit))
      /\ Cardinality(A \X (1 .. Unit)) = Cardinality(A) * Unit
  BY <1>1, <1>2, FS_Product
<1>4. A \X (1 .. Unit) \subseteq B
  <2> SUFFICES ASSUME NEW r \in A, NEW i \in 1 .. Unit
               PROVE  <<r, i>> \in B
    OBVIOUS
  <2>1. r \in S /\ r \in Requests /\ Days[r] \in Nat /\ Days[r] >= Unit
    OBVIOUS
  <2>2. i \in 1 .. Days[r]
    BY <2>1
  <2>3. <<r, i>> \in StepsOf(r)
    BY <2>2 DEF StepsOf
  <2>4. QED
    BY <2>1, <2>3
<1>5. Cardinality(A \X (1 .. Unit)) <= Cardinality(B)
  BY <1>1, <1>4, FS_Subset
<1>6. Cardinality(A) \in Nat
  BY <1>1, FS_CardinalityType
<1>7. Slack(S) = Unit * Cardinality(A) /\ DaysOf(S) = Cardinality(B)
  BY DEF Slack, DaysOf
<1> HIDE DEF A, B
<1>8. QED
  BY <1>3, <1>5, <1>6, <1>7
=============================================================================
