----------------------------- MODULE DataLemmas -----------------------------
(***************************************************************************)
(* Facts about numbers and sequences that the proofs of several components *)
(* rest on.                                                                *)
(***************************************************************************)
EXTENDS Naturals, Sequences, FiniteSetTheorems, TLAPS

\* A non-empty set of numbers has a least one.  The intervals up to its members
\* are finite sets, which strict inclusion orders well.
LEMMA LeastNatural ==
    ASSUME NEW T \in SUBSET Nat, T # {}
    PROVE  \E x \in T : \A y \in T : x <= y
<1> DEFINE Below == {0..n : n \in T}
           Order == StrictSubsetOrdering(Nat)
           Finite == FiniteSubsetsOf(Nat)
<1>1. Below # {}
  OBVIOUS
<1>2. Below \subseteq Finite
  <2>1. ASSUME NEW n \in T PROVE 0..n \in Finite
    BY FS_Interval DEF FiniteSubsetsOf
  <2>2. QED BY <2>1
<1>3. IsWellFoundedOn(Order, Finite)
  BY FS_StrictSubsetOrderingWellFounded
<1>4. \E x \in Below : \A y \in Below : ~(<<y, x>> \in Order)
  <2> HIDE DEF Below, Order, Finite
  <2> QED BY <1>1, <1>2, <1>3, WFMin
<1>5. PICK x \in T : \A y \in T : ~(<<0..y, 0..x>> \in Order)
  BY <1>4
<1>6. ASSUME NEW y \in T, y < x PROVE FALSE
  <2>1. 0..y \subseteq 0..x /\ x \in 0..x /\ x \notin 0..y
    BY <1>6
  <2>2. <<0..y, 0..x>> \in Order
    BY <2>1 DEF StrictSubsetOrdering
  <2>3. QED BY <2>2, <1>5
<1>7. QED BY <1>6

\* Where the elements of a concatenation come from.
LEMMA ConcatElements ==
    ASSUME NEW S, NEW s \in Seq(S), NEW u \in Seq(S)
    PROVE  /\ Len(s) \in Nat /\ Len(u) \in Nat
           /\ Len(s \o u) = Len(s) + Len(u)
           /\ \A k \in 1..Len(s) : (s \o u)[k] = s[k]
           /\ \A k \in Len(s)+1..Len(s)+Len(u) : (s \o u)[k] = u[k - Len(s)]
OBVIOUS

\* Quotient and remainder, for a width that is a constant of its module.
LEMMA Remainder ==
    ASSUME NEW W \in Nat \ {0}, NEW q \in Nat, NEW r \in 0..W-1
    PROVE  (W * q + r) % W = r
OBVIOUS

LEMMA Quotient ==
    ASSUME NEW W \in Nat \ {0}, NEW q \in Nat, NEW r \in 0..W-1
    PROVE  (W * q + r) \div W = q
OBVIOUS

LEMMA Division ==
    ASSUME NEW W \in Nat \ {0}, NEW a \in Nat
    PROVE  \E q \in Nat, r \in 0..W-1 : a = W * q + r
<1> DEFINE Rests == {n \in Nat : \E q \in Nat : a = W * q + n}
<1>1. a \in Rests
  <2>1. 0 \in Nat /\ a = W * 0 + a
    OBVIOUS
  <2>2. QED BY <2>1
<1>2. PICK n \in Rests : \A m \in Rests : n <= m
  BY <1>1, LeastNatural
<1>3. PICK q \in Nat : a = W * q + n
  BY <1>2
<1>4. ASSUME n >= W PROVE FALSE
  <2>1. n - W \in Nat /\ q + 1 \in Nat
    BY <1>4
  <2>2. W * (q + 1) = W * q + W
    OBVIOUS
  <2>3. a = W * (q + 1) + (n - W)
    BY <1>3, <2>1, <2>2
  <2>4. n - W \in Rests
    BY <2>1, <2>3
  <2>5. n \in Nat /\ n <= n - W
    BY <1>2, <2>4
  <2>6. QED BY <2>1, <2>5
<1>5. n \in 0..W-1
  BY <1>4
<1>6. QED BY <1>3, <1>5

\* Counting on from a count that wrapped is wrapping the count that went on.
LEMMA CountOn ==
    ASSUME NEW W \in Nat \ {0}, NEW a \in Nat
    PROVE  ((a % W) + 1) % W = (a + 1) % W
<1>1. PICK q \in Nat, r \in 0..W-1 : a = W * q + r
  BY Division
<1>2. a % W = r
  BY <1>1, Remainder
<1>3. CASE r + 1 \in 0..W-1
  <2>1. a + 1 = W * q + (r + 1)
    BY <1>1
  <2>2. (r + 1) % W = r + 1
    BY <1>3
  <2>3. (a + 1) % W = r + 1
    BY <1>3, <2>1, Remainder
  <2>4. QED BY <1>2, <2>2, <2>3
<1>4. CASE r + 1 = W
  <2>1. a + 1 = W * (q + 1) + 0 /\ q + 1 \in Nat /\ 0 \in 0..W-1
    <3>1. W * (q + 1) = W * q + W
      OBVIOUS
    <3>2. QED BY <1>1, <1>4, <3>1
  <2>2. (a + 1) % W = 0
    BY <2>1, Remainder
  <2>3. W % W = 0
    OBVIOUS
  <2>4. QED BY <1>2, <1>4, <2>2, <2>3
<1>5. QED BY <1>3, <1>4

\* A part of the tail is a part of the whole.
LEMMA SubSeqOfTail ==
    ASSUME NEW S, NEW s \in Seq(S), s # <<>>, NEW k \in 0..Len(s)-1
    PROVE  /\ SubSeq(Tail(s), 1, k) \in Seq(S)
           /\ Len(SubSeq(Tail(s), 1, k)) = k
           /\ SubSeq(Tail(s), 1, k) = SubSeq(s, 2, k + 1)
<1>1. Tail(s) \in Seq(S) /\ Len(Tail(s)) = Len(s) - 1
  OBVIOUS
<1>2. SubSeq(Tail(s), 1, k) \in Seq(S) /\ Len(SubSeq(Tail(s), 1, k)) = k
  BY <1>1
<1>3. SubSeq(s, 2, k + 1) \in Seq(S) /\ Len(SubSeq(s, 2, k + 1)) = k
  OBVIOUS
<1>4. ASSUME NEW i \in 1..k PROVE SubSeq(Tail(s), 1, k)[i] = SubSeq(s, 2, k + 1)[i]
  BY <1>1
<1>5. QED BY <1>2, <1>3, <1>4

\* Handing over the head of a queue moves it to the end of what was handed over.
LEMMA HandOver ==
    ASSUME NEW S, NEW s \in Seq(S), NEW q \in Seq(S), q # <<>>
    PROVE  Append(s, Head(q)) \o Tail(q) = s \o q
OBVIOUS

\* Sequences that agree up to n have the same parts up to n.
LEMMA SamePart ==
    ASSUME NEW S, NEW s \in Seq(S), NEW t \in Seq(S), NEW n \in 0..Len(s),
           n <= Len(t), \A i \in 1..n : s[i] = t[i]
    PROVE  SubSeq(s, 2, n) = SubSeq(t, 2, n)
<1>1. SubSeq(s, 2, n) \in Seq(S) /\ SubSeq(t, 2, n) \in Seq(S)
  OBVIOUS
<1>2. Len(SubSeq(s, 2, n)) = Len(SubSeq(t, 2, n))
  OBVIOUS
<1>3. \A i \in 1..Len(SubSeq(s, 2, n)) : SubSeq(s, 2, n)[i] = SubSeq(t, 2, n)[i]
  OBVIOUS
<1>4. QED BY <1>1, <1>2, <1>3

\* A non-empty set of numbers with a bound has a greatest one.
LEMMA GreatestNatural ==
    ASSUME NEW m \in Nat, NEW T \in SUBSET (0..m), T # {}
    PROVE  \E x \in T : \A y \in T : y <= x
<1> DEFINE Gaps == {m - x : x \in T}
<1>1. \A x \in T : x \in Nat /\ m - x \in Nat
  OBVIOUS
<1>2. Gaps \in SUBSET Nat /\ Gaps # {}
  BY <1>1
<1>3. PICK g \in Gaps : \A y \in Gaps : g <= y
  <2> HIDE DEF Gaps
  <2> QED BY <1>2, LeastNatural
<1>4. PICK x \in T : g = m - x
  BY <1>3
<1>5. ASSUME NEW y \in T PROVE y <= x
  <2>1. m - x <= m - y
    BY <1>3, <1>4
  <2>2. QED BY <1>1, <2>1
<1>6. QED BY <1>5

\* Induction, stated of the set of the numbers a claim holds of.
LEMMA SetInduction ==
    ASSUME NEW T, 0 \in T, \A n \in Nat : n \in T => n + 1 \in T
    PROVE  Nat \subseteq T
<1> DEFINE Out == Nat \ T
<1>1. SUFFICES ASSUME Out # {} PROVE FALSE
  OBVIOUS
<1>2. PICK x \in Out : \A y \in Out : x <= y
  <2>1. Out \in SUBSET Nat
    OBVIOUS
  <2> HIDE DEF Out
  <2>2. QED BY <1>1, <2>1, LeastNatural
<1>3. x \in Nat /\ x # 0
  BY <1>2
<1>4. x - 1 \in Nat /\ ~(x <= x - 1) /\ (x - 1) + 1 = x
  BY <1>3
<1>5. x - 1 \in T
  BY <1>2, <1>4
<1>6. QED BY <1>2, <1>4, <1>5

\* A finite set can be put in some order, and an order of as many as there are
\* misses none.
LEMMA Enumerated ==
    ASSUME NEW S, IsFiniteSet(S)
    PROVE  /\ Cardinality(S) \in Nat
           /\ \E f \in [1..Cardinality(S) -> S] :
                 \A i, j \in 1..Cardinality(S) : f[i] = f[j] => i = j
           /\ \A f \in [1..Cardinality(S) -> S] :
                 (\A i, j \in 1..Cardinality(S) : f[i] = f[j] => i = j) =>
                    \A x \in S : \E i \in 1..Cardinality(S) : f[i] = x
<1> DEFINE n == Cardinality(S)
<1>1. n \in Nat /\ ExistsBijection(1..n, S)
  BY FS_CardinalityType
<1>2. \E f \in [1..n -> S] : \A i, j \in 1..n : f[i] = f[j] => i = j
  BY <1>1 DEF ExistsBijection, Bijection, Injection, IsInjective
<1>3. IsFiniteSet(1..n) /\ Cardinality(1..n) = n
  BY <1>1, FS_Interval
<1>4. ASSUME NEW f \in [1..n -> S], \A i, j \in 1..n : f[i] = f[j] => i = j
      PROVE  \A x \in S : \E i \in 1..n : f[i] = x
  <2>1. f \in Injection(1..n, S)
    BY <1>4 DEF Injection, IsInjective
  <2>2. f \in Surjection(1..n, S)
    BY <1>3, <2>1, FS_Injection
  <2>3. QED BY <2>2 DEF Surjection
<1>5. QED BY <1>1, <1>2, <1>4
=============================================================================
