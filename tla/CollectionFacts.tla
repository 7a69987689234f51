-------------------------- MODULE CollectionFacts ---------------------------
(***************************************************************************)
(* What the operations on sequences, the sums and the sorting that the     *)
(* models use give, stated once for the proofs about queues, stacks of     *)
(* mounts, counters, sizes and predictions.                                *)
(*                                                                         *)
(* The induction theorems of the library have the property as an operator  *)
(* parameter, which the provers do not instantiate.  Here it is a set: of  *)
(* the numbers, or of the subsets of a finite set, that have the property. *)
(***************************************************************************)
EXTENDS SequencesExt, SequenceTheorems, FiniteSetTheorems, WellFoundedInduction, TLAPS

-----------------------------------------------------------------------------
(* Sequences.                                                              *)

\* The prefix of a sequence, position by position.
LEMMA PrefixOf ==
  ASSUME NEW S, NEW q \in Seq(S), NEW n \in 0..Len(q)
  PROVE  /\ SubSeq(q, 1, n) \in Seq(S) /\ Len(SubSeq(q, 1, n)) = n
         /\ \A i \in 1..n : SubSeq(q, 1, n)[i] = q[i]
<1>1. PICK N \in Nat : N = Len(q)
  BY LenProperties
<1>2. n \in Nat /\ n <= N
  BY <1>1
<1>3. \A i \in 1..n : q[i] \in S /\ 1 + i - 1 = i
  <2>1. \A i \in 1..n : i \in 1..Len(q) /\ 1 + i - 1 = i
    BY <1>1, <1>2
  <2>. QED  BY <2>1
<1>4. /\ SubSeq(q, 1, n) \in Seq(S) /\ Len(SubSeq(q, 1, n)) = IF 1 <= n THEN n - 1 + 1 ELSE 0
      /\ \A i \in 1..(n - 1 + 1) : SubSeq(q, 1, n)[i] = q[1 + i - 1]
  BY <1>2, <1>3, SubSeqProperties
<1>5. n - 1 + 1 = n /\ (IF 1 <= n THEN n - 1 + 1 ELSE 0) = n
  BY <1>2
<1>. QED  BY <1>3, <1>4, <1>5

LEMMA FrontElements ==
  ASSUME NEW S, NEW p \in Seq(S), p # <<>>
  PROVE  /\ Front(p) \in Seq(S) /\ Len(Front(p)) = Len(p) - 1 /\ Len(p) \in Nat \ {0}
         /\ \A i \in 1..(Len(p) - 1) : Front(p)[i] = p[i]
<1>1. PICK n \in Nat \ {0} : n = Len(p)
  BY EmptySeq, LenProperties
<1>2. Front(p) = SubSeq(p, 1, n - 1) /\ n - 1 \in 0..Len(p)
  BY <1>1 DEF Front
<1>. QED  BY <1>1, <1>2, PrefixOf

AgreeTo(s, t, n) == \A i \in 1..n : s[i] = t[i]

LEMMA PrefixElements ==
  ASSUME NEW S, NEW s \in Seq(S), NEW t \in Seq(S)
  PROVE  IsPrefix(s, t) <=> Len(s) <= Len(t) /\ AgreeTo(s, t, Len(s))
<1>1. PICK m \in Nat : m = Len(s)
  BY LenProperties
<1>2. PICK n \in Nat : n = Len(t)
  BY LenProperties
<1> SUFFICES ASSUME m <= n PROVE SubSeq(s, 1, m) = SubSeq(t, 1, m) <=> \A i \in 1..m : s[i] = t[i]
  BY <1>1, <1>2 DEF IsPrefix, AgreeTo
<1>3. m \in 0..Len(s) /\ m \in 0..Len(t)
  BY <1>1, <1>2
<1>4. /\ SubSeq(s, 1, m) \in Seq(S) /\ Len(SubSeq(s, 1, m)) = m /\ \A i \in 1..m : SubSeq(s, 1, m)[i] = s[i]
      /\ SubSeq(t, 1, m) \in Seq(S) /\ Len(SubSeq(t, 1, m)) = m /\ \A i \in 1..m : SubSeq(t, 1, m)[i] = t[i]
  BY <1>3, PrefixOf
<1> DEFINE a == SubSeq(s, 1, m)
           b == SubSeq(t, 1, m)
<1> HIDE DEF a, b
<1>5. /\ a \in Seq(S) /\ Len(a) = m /\ \A i \in 1..m : a[i] = s[i]
      /\ b \in Seq(S) /\ Len(b) = m /\ \A i \in 1..m : b[i] = t[i]
  BY <1>4 DEF a, b
<1>6. a = b <=> \A i \in 1..m : s[i] = t[i]
  <2>1. ASSUME \A i \in 1..m : s[i] = t[i] PROVE a = b
    <3>1. \A i \in 1..Len(a) : a[i] = b[i]
      BY <1>5, <2>1
    <3>. QED  BY <3>1, <1>5, SeqEqual
  <2>2. ASSUME a = b PROVE \A i \in 1..m : s[i] = t[i]
    BY <1>5, <2>2
  <2>. QED  BY <2>1, <2>2
<1>. QED  BY <1>6 DEF a, b

\* A shorter sequence is a prefix of a sequence exactly if it is one of its front.
LEMMA PrefixOfFront ==
  ASSUME NEW S, NEW s \in Seq(S), NEW p \in Seq(S), p # <<>>
  PROVE  IsPrefix(s, Front(p)) <=> IsPrefix(s, p) /\ Len(s) < Len(p)
<1>1. PICK m \in Nat : m = Len(s)
  BY LenProperties
<1>2. PICK n \in Nat \ {0} : n = Len(p)
  BY FrontElements
<1>3. PICK f \in Seq(S) : f = Front(p) /\ Len(f) = n - 1 /\ \A i \in 1..(n - 1) : f[i] = p[i]
  BY <1>2, FrontElements
<1>4. IsPrefix(s, f) <=> m <= n - 1 /\ AgreeTo(s, f, m)
  BY <1>1, <1>3, PrefixElements
<1>5. IsPrefix(s, p) <=> m <= n /\ AgreeTo(s, p, m)
  BY <1>1, <1>2, PrefixElements
<1>6. m <= n - 1 <=> m <= n /\ m < n
  OBVIOUS
<1>7. m <= n - 1 => (AgreeTo(s, f, m) <=> AgreeTo(s, p, m))
  <2>1. m <= n - 1 => \A i \in 1..m : i \in 1..(n - 1)
    OBVIOUS
  <2>. QED  BY <2>1, <1>3 DEF AgreeTo
<1>. QED  BY <1>1, <1>2, <1>3, <1>4, <1>5, <1>6, <1>7

\* The concatenation of two sequences, position by position.
Concatenated(r, p, q, m, n) ==
  /\ r = p \o q /\ Len(r) = m + n
  /\ \A i \in 1..(m + n) : r[i] = IF i <= m THEN p[i] ELSE q[i - m]

LEMMA ConcatElements ==
  ASSUME NEW S, NEW p \in Seq(S), NEW q \in Seq(S), NEW m, m = Len(p), NEW n, n = Len(q)
  PROVE  \E r \in Seq(S) : Concatenated(r, p, q, m, n)
<1>1. /\ p \o q \in Seq(S) /\ Len(p \o q) = Len(p) + Len(q)
      /\ \A i \in 1..Len(p) + Len(q) : (p \o q)[i] = IF i <= Len(p) THEN p[i] ELSE q[i - Len(p)]
  BY ConcatProperties, Zenon
<1>2. PICK r : r = p \o q
  OBVIOUS
<1>3. /\ r \in Seq(S) /\ Len(r) = m + n
      /\ \A i \in 1..(m + n) : r[i] = IF i <= m THEN p[i] ELSE q[i - m]
  BY <1>1, <1>2, Zenon
<1>. QED  BY <1>2, <1>3 DEF Concatenated

\* The positions of the suffix of a sequence of length N that drops n elements.
LEMMA SuffixPositions ==
  ASSUME NEW N \in Nat, NEW n \in 0..N
  PROVE  /\ n + 1 \in Int
         /\ N - (n + 1) + 1 = N - n
         /\ \A i \in 1..(N - n) : (n + 1) + i - 1 = n + i
         /\ (IF n + 1 <= N THEN N - (n + 1) + 1 ELSE 0) = N - n
  OBVIOUS

\* The suffix of a sequence, position by position.
LEMMA Suffix ==
  ASSUME NEW S, NEW q \in Seq(S), NEW n \in 0..Len(q)
  PROVE  LET b == SubSeq(q, n + 1, Len(q)) IN
         /\ b \in Seq(S) /\ Len(b) = Len(q) - n
         /\ \A i \in 1..(Len(q) - n) : b[i] = q[n + i]
<1> DEFINE b == SubSeq(q, n + 1, Len(q))
           N == Len(q)
<1>1. N \in Nat
  BY LenProperties
<1>2. \A i \in (n + 1)..N : q[i] \in S
  BY <1>1, ElementOfSeq
<1>3. /\ b \in Seq(S)
      /\ Len(b) = IF n + 1 <= N THEN N - (n + 1) + 1 ELSE 0
      /\ \A i \in 1..(N - (n + 1) + 1) : b[i] = q[(n + 1) + i - 1]
  BY <1>1, <1>2, SuffixPositions, SubSeqProperties
<1> HIDE DEF b
<1>4. /\ N - (n + 1) + 1 = N - n
      /\ \A i \in 1..(N - n) : (n + 1) + i - 1 = n + i
      /\ (IF n + 1 <= N THEN N - (n + 1) + 1 ELSE 0) = N - n
  BY <1>1, SuffixPositions
<1> HIDE DEF N
<1>5. b \in Seq(S) /\ Len(b) = N - n /\ \A i \in 1..(N - n) : b[i] = q[n + i]
  BY <1>3, <1>4
<1>. QED  BY <1>5 DEF b, N

\* What the removal of one position does to the others.
LEMMA RemoveAtElements ==
  ASSUME NEW S, NEW q \in Seq(S), NEW n \in 1..Len(q)
  PROVE  /\ RemoveAt(q, n) \in Seq(S) /\ Len(RemoveAt(q, n)) = Len(q) - 1
         /\ \A i \in 1..(Len(q) - 1) : RemoveAt(q, n)[i] = IF i < n THEN q[i] ELSE q[i + 1]
<1> DEFINE a == SubSeq(q, 1, n - 1)
           b == SubSeq(q, n + 1, Len(q))
           r == a \o b
<1>0. Len(q) \in Nat /\ DOMAIN q = 1..Len(q)
  BY LenProperties
<1>1. /\ a \in Seq(S) /\ Len(a) = n - 1
      /\ \A i \in 1..(n - 1) : a[i] = q[i]
  BY <1>0, SubSeqProperties
<1>2. /\ b \in Seq(S) /\ Len(b) = Len(q) - n
      /\ \A i \in 1..(Len(q) - n) : b[i] = q[n + i]
  <2>1. n \in 0..Len(q)
    BY <1>0
  <2>. QED  BY <2>1, Suffix
<1> HIDE DEF a, b
<1>3. /\ r \in Seq(S) /\ Len(r) = Len(q) - 1
      /\ \A i \in 1..(Len(q) - 1) : r[i] = IF i < n THEN q[i] ELSE q[i + 1]
  <2>1. /\ r \in Seq(S) /\ Len(r) = (n - 1) + (Len(q) - n)
        /\ \A i \in 1..((n - 1) + (Len(q) - n)) :
             r[i] = IF i <= n - 1 THEN a[i] ELSE b[i - (n - 1)]
    <3>1. /\ r \in Seq(S) /\ Len(r) = Len(a) + Len(b)
          /\ \A i \in 1..(Len(a) + Len(b)) :
               r[i] = IF i <= Len(a) THEN a[i] ELSE b[i - Len(a)]
      BY <1>1, <1>2, ConcatProperties
    <3>. QED  BY <3>1, <1>1, <1>2
  <2>2. (n - 1) + (Len(q) - n) = Len(q) - 1
    BY <1>0
  <2>3. ASSUME NEW i \in 1..(Len(q) - 1) PROVE r[i] = IF i < n THEN q[i] ELSE q[i + 1]
    <3>1. CASE i < n
      BY <3>1, <2>1, <2>2, <1>0, <1>1
    <3>2. CASE ~(i < n)
      <4>1. i - (n - 1) \in 1..(Len(q) - n) /\ n + (i - (n - 1)) = i + 1 /\ ~(i <= n - 1)
        BY <3>2, <1>0
      <4>. QED  BY <4>1, <3>2, <2>1, <2>2, <1>2
    <3>. QED  BY <3>1, <3>2
  <2>. QED  BY <2>1, <2>2, <2>3
<1>. QED  BY <1>3 DEF RemoveAt, r, a, b

-----------------------------------------------------------------------------
(* Induction and recursion.                                                *)

\* A set of numbers has a least element: the well-foundedness of <, with the
\* set as the parameter.
LEMMA LeastNumber ==
  ASSUME NEW T \in SUBSET Nat, T # {}
  PROVE  \E x \in T : \A y \in T : x <= y
<1> DEFINE R == OpToRel(<, Nat)
<1>1. IsWellFoundedOn(R, Nat)
  BY NatLessThanWellFounded
<1>2. \A x, y \in Nat : x < y => <<x, y>> \in R
  BY DEF OpToRel
<1> HIDE DEF R
<1>3. PICK x \in T : \A y \in T : ~(<<y, x>> \in R)
  BY <1>1, WFMin
<1>4. \A y \in T : x \in Nat /\ y \in Nat /\ ~(y < x)
  BY <1>2, <1>3
<1>5. \A y \in T : x <= y
  BY <1>4
<1>. QED  BY <1>5, <1>3

RecursiveTo(n, a, step, g) ==
  g = [i \in 0..n |-> IF i = 0 THEN a ELSE step[i][g[i - 1]]]

\* A function defined by recursion over 0..N satisfies its definition.
LEMMA RecursionExists ==
  ASSUME NEW V, NEW a \in V, NEW step \in [Nat -> [V -> V]], NEW N \in Nat
  PROVE  \E g \in [0..N -> V] : RecursiveTo(N, a, step, g)
<1> DEFINE Has(n) == \E g \in [0..n -> V] : RecursiveTo(n, a, step, g)
           T == {n \in Nat : ~Has(n)}
<1>1. Has(0)
  <2> DEFINE g == [i \in 0..0 |-> a]
  <2>1. g \in [0..0 -> V]
    OBVIOUS
  <2>2. RecursiveTo(0, a, step, g)
    BY DEF RecursiveTo
  <2>. QED  BY <2>1, <2>2
<1>2. ASSUME NEW n \in Nat, Has(n) PROVE Has(n + 1)
  <2>1. PICK g \in [0..n -> V] : RecursiveTo(n, a, step, g)
    BY <1>2
  <2> DEFINE h == [i \in 0..(n + 1) |-> IF i = n + 1 THEN step[n + 1][g[n]] ELSE g[i]]
  <2>2. step[n + 1][g[n]] \in V
    OBVIOUS
  <2>3. h \in [0..(n + 1) -> V]
    BY <2>2
  <2>4. ASSUME NEW i \in 0..(n + 1) PROVE h[i] = IF i = 0 THEN a ELSE step[i][h[i - 1]]
    <3>1. CASE i = 0
      BY <2>1, <3>1 DEF RecursiveTo
    <3>2. CASE i \in 1..n
      <4>1. i - 1 \in 0..n /\ i \in 0..n /\ i # n + 1 /\ i - 1 # n + 1 /\ i # 0 /\ i - 1 \in 0..(n + 1)
        BY <3>2
      <4>2. g[i] = step[i][g[i - 1]]
        BY <4>1, <2>1 DEF RecursiveTo
      <4>. QED  BY <4>1, <4>2
    <3>3. CASE i = n + 1
      <4>1. i - 1 = n /\ n # n + 1 /\ i # 0 /\ n \in 0..(n + 1)
        BY <3>3
      <4>. QED  BY <4>1, <3>3
    <3>. QED  BY <3>1, <3>2, <3>3
  <2>5. h = [i \in 0..(n + 1) |-> h[i]]
    OBVIOUS
  <2> HIDE DEF h
  <2>6. RecursiveTo(n + 1, a, step, h)
    BY <2>4, <2>5 DEF RecursiveTo
  <2>. QED  BY <2>3, <2>6
<1> HIDE DEF Has
<1>3. SUFFICES ASSUME T # {} PROVE FALSE
  BY DEF Has
<1>4. PICK m \in T : \A y \in T : m <= y
  BY <1>3, LeastNumber
<1>5. m \in Nat /\ m # 0 /\ ~Has(m)
  BY <1>4, <1>1
<1>6. m - 1 \in Nat /\ ~(m <= m - 1) /\ (m - 1) + 1 = m
  BY <1>5
<1>7. Has(m - 1)
  BY <1>4, <1>6
<1>. QED  BY <1>2, <1>5, <1>6, <1>7

\* Induction, with the property as the set of the numbers that have it.
LEMMA NumberInduction ==
  ASSUME NEW P \in SUBSET Nat, 0 \in P, \A n \in P : n + 1 \in P
  PROVE  P = Nat
<1> DEFINE T == Nat \ P
<1>1. SUFFICES ASSUME T # {} PROVE FALSE
  OBVIOUS
<1>2. PICK m \in T : \A y \in T : m <= y
  BY <1>1, LeastNumber
<1>3. m \in Nat /\ m # 0
  BY <1>2
<1>4. m - 1 \in Nat /\ ~(m <= m - 1) /\ (m - 1) + 1 = m
  BY <1>3
<1>5. m - 1 \in P
  BY <1>2, <1>4
<1>. QED  BY <1>2, <1>4, <1>5

\* Induction over the subsets of a finite set.
LEMMA SubsetInduction ==
  ASSUME NEW S, IsFiniteSet(S), NEW P \in SUBSET (SUBSET S), {} \in P,
         \A s \in P, x \in S : x \notin s => s \cup {x} \in P
  PROVE  \A s \in SUBSET S : s \in P
<1> DEFINE Q == {n \in Nat : \A s \in SUBSET S : Cardinality(s) = n => s \in P}
<1>1. \A s \in SUBSET S : IsFiniteSet(s) /\ Cardinality(s) \in Nat
  BY FS_Subset, FS_CardinalityType
<1>2. 0 \in Q
  BY <1>1, FS_EmptySet
<1>3. ASSUME NEW n \in Q PROVE n + 1 \in Q
  <2>1. SUFFICES ASSUME NEW s \in SUBSET S, Cardinality(s) = n + 1 PROVE s \in P
    OBVIOUS
  <2>2. PICK x \in s : TRUE
    <3>1. n \in Nat /\ n + 1 # 0 /\ Cardinality({}) = 0
      BY FS_EmptySet
    <3>. QED  BY <3>1, <2>1
  <2>3. s \ {x} \in SUBSET S /\ Cardinality(s \ {x}) = n /\ (s \ {x}) \cup {x} = s
    <3>1. Cardinality(s \ {x}) = Cardinality(s) - 1
      BY <1>1, <2>2, FS_RemoveElement
    <3>2. (n + 1) - 1 = n
      OBVIOUS
    <3>. QED  BY <3>1, <3>2, <2>1, <2>2
  <2>. QED  BY <2>3, <2>2
<1>4. Q = Nat
  <2> HIDE DEF Q
  <2>1. Q \in SUBSET Nat
    BY DEF Q
  <2>. QED  BY <2>1, <1>2, <1>3, NumberInduction
<1>. QED  BY <1>1, <1>4

-----------------------------------------------------------------------------
(* Sums.  SumFunctionOnSet removes the elements of a set in an order CHOOSE *)
(* picks; these facts hold whatever the order is.                          *)

First(s) == CHOOSE x \in s : TRUE
IsSum(f, S, g) ==
  g = [s \in SUBSET S |-> IF s = {} THEN 0 ELSE f[First(s)] + g[s \ {First(s)}]]

LEMMA FirstIn ==
  ASSUME NEW S, NEW s \in SUBSET S, s # {}
  PROVE  First(s) \in s /\ s \ {First(s)} \in SUBSET S
  BY DEF First

\* There is such a function: the values for the sets of n elements are
\* computed from those for the sets of n - 1.
LEMMA SumExists ==
  ASSUME NEW S, IsFiniteSet(S), NEW f, \A x \in S : f[x] \in Int
  PROVE  \E g \in [SUBSET S -> Int] : IsSum(f, S, g)
<1> DEFINE V == [SUBSET S -> Int]
           F(h) == [s \in SUBSET S |-> IF s = {} THEN 0 ELSE f[First(s)] + h[s \ {First(s)}]]
           step == [i \in Nat |-> [h \in V |-> F(h)]]
           zero == [s \in SUBSET S |-> 0]
           N == Cardinality(S)
<1>1. \A s \in SUBSET S : IsFiniteSet(s) /\ Cardinality(s) \in Nat /\ Cardinality(s) \in 0..N
  <2>1. \A s \in SUBSET S : IsFiniteSet(s) /\ Cardinality(s) \in Nat /\ Cardinality(s) <= N /\ N \in Nat
    BY FS_Subset, FS_CardinalityType
  <2>. QED  BY <2>1
<1>2. N \in Nat
  BY FS_CardinalityType
<1>3. zero \in V
  OBVIOUS
<1>4. ASSUME NEW h \in V PROVE F(h) \in V
  BY <1>4, FirstIn
<1>5. step \in [Nat -> [V -> V]]
  BY <1>4
<1> HIDE DEF N, step, zero
<1>6. PICK c \in [0..N -> V] : RecursiveTo(N, zero, step, c)
  BY <1>2, <1>3, <1>5, RecursionExists
<1> DEFINE g == [s \in SUBSET S |-> c[Cardinality(s)][s]]
<1>7. g \in [SUBSET S -> Int]
  BY <1>1
<1>8. ASSUME NEW s \in SUBSET S PROVE g[s] = IF s = {} THEN 0 ELSE f[First(s)] + g[s \ {First(s)}]
  <2>1. CASE s = {}
    <3>1. Cardinality(s) = 0 /\ c[0] = zero
      BY <2>1, <1>2, <1>6, FS_EmptySet DEF RecursiveTo
    <3>. QED  BY <3>1, <2>1 DEF zero
  <2>2. CASE s # {}
    <3> DEFINE x == First(s)
               n == Cardinality(s)
    <3>1. x \in s /\ s \ {x} \in SUBSET S
      BY <2>2, FirstIn
    <3> HIDE DEF x
    <3>2. Cardinality(s \ {x}) = n - 1 /\ n \in 0..N /\ n - 1 \in 0..N /\ n # 0
      <4>1. Cardinality(s \ {x}) = n - 1
        BY <1>1, <3>1, FS_RemoveElement
      <4>. QED  BY <1>1, <3>1, <4>1
    <3> HIDE DEF n
    <3>3. c[n] = step[n][c[n - 1]]
      BY <3>2, <1>6 DEF RecursiveTo
    <3>4. step[n][c[n - 1]] = F(c[n - 1])
      <4>1. n \in Nat /\ c[n - 1] \in V
        <5> HIDE DEF V, F, g
        <5>1. \A k \in 0..N : k \in Nat
          BY <1>2
        <5>2. \A k \in 0..N : c[k] \in V
          OBVIOUS
        <5>. QED  BY <5>1, <5>2, <3>2
      <4>. QED  BY <4>1 DEF step
    <3>5. c[n][s] = f[x] + c[n - 1][s \ {x}]
      BY <3>3, <3>4, <2>2 DEF x
    <3>6. g[s] = c[n][s] /\ g[s \ {x}] = c[n - 1][s \ {x}]
      BY <3>1, <3>2 DEF n
    <3>. QED  BY <3>5, <3>6, <2>2 DEF x
  <2>. QED  BY <2>1, <2>2
<1>9. g = [s \in SUBSET S |-> g[s]]
  OBVIOUS
<1> HIDE DEF g
<1>10. IsSum(f, S, g)
  BY <1>8, <1>9 DEF IsSum
<1>. QED  BY <1>7, <1>10

\* What such a function gives for a subset does not depend on the set it is
\* defined for.
LEMMA SumUnique ==
  ASSUME NEW S, IsFiniteSet(S), NEW T \in SUBSET S, NEW f, NEW g, NEW h,
         IsSum(f, S, g), IsSum(f, T, h)
  PROVE  g[T] = h[T]
<1> DEFINE Q == {n \in Nat : \A s \in SUBSET T : Cardinality(s) = n => g[s] = h[s]}
<1>1. \A s \in SUBSET T : IsFiniteSet(s) /\ Cardinality(s) \in Nat /\ s \in SUBSET S
  BY FS_Subset, FS_CardinalityType
<1>2. \A s \in SUBSET T :
        /\ g[s] = IF s = {} THEN 0 ELSE f[First(s)] + g[s \ {First(s)}]
        /\ h[s] = IF s = {} THEN 0 ELSE f[First(s)] + h[s \ {First(s)}]
  BY <1>1 DEF IsSum
<1>3. 0 \in Q
  <2>1. \A s \in SUBSET T : Cardinality(s) = 0 => s = {}
    BY <1>1, FS_EmptySet
  <2>. QED  BY <2>1, <1>2
<1>4. ASSUME NEW n \in Q PROVE n + 1 \in Q
  <2>1. SUFFICES ASSUME NEW s \in SUBSET T, Cardinality(s) = n + 1 PROVE g[s] = h[s]
    OBVIOUS
  <2>2. s # {}
    <3>1. n \in Nat /\ n + 1 # 0 /\ Cardinality({}) = 0
      BY FS_EmptySet
    <3>. QED  BY <3>1, <2>1
  <2> DEFINE x == First(s)
  <2>3. x \in s /\ s \ {x} \in SUBSET T
    BY <2>2, FirstIn
  <2>4. Cardinality(s \ {x}) = n
    <3>1. Cardinality(s \ {x}) = Cardinality(s) - 1
      BY <1>1, <2>3, FS_RemoveElement
    <3>2. (n + 1) - 1 = n
      OBVIOUS
    <3>. QED  BY <3>1, <3>2, <2>1
  <2>5. g[s \ {x}] = h[s \ {x}]
    BY <2>3, <2>4
  <2>. QED  BY <2>5, <1>2, <2>2
<1>5. Q = Nat
  <2> HIDE DEF Q
  <2>1. Q \in SUBSET Nat
    BY DEF Q
  <2>. QED  BY <2>1, <1>3, <1>4, NumberInduction
<1>. QED  BY <1>1, <1>5

\* SumFunctionOnSet is one of them.
LEMMA SumIsSum ==
  ASSUME NEW f, NEW S, NEW h, IsSum(f, S, h)
  PROVE  \E g : IsSum(f, S, g) /\ SumFunctionOnSet(f, S) = g[S]
<1> DEFINE iter == CHOOSE g : IsSum(f, S, g)
<1>1. IsSum(f, S, iter)
  OBVIOUS
<1>2. SumFunctionOnSet(f, S) = iter[S]
  BY DEF SumFunctionOnSet, FoldFunctionOnSet, MapThenFoldSet, IsSum, First
<1>. QED  BY <1>1, <1>2

\* The sum over each subset is what the function gives.
LEMMA SumValue ==
  ASSUME NEW S, IsFiniteSet(S), NEW T \in SUBSET S, NEW f, \A x \in S : f[x] \in Int,
         NEW g, IsSum(f, S, g)
  PROVE  SumFunctionOnSet(f, T) = g[T]
<1>1. IsFiniteSet(T) /\ \A x \in T : f[x] \in Int
  BY FS_Subset
<1>2. PICK h \in [SUBSET T -> Int] : IsSum(f, T, h)
  BY <1>1, SumExists
<1>3. PICK k : IsSum(f, T, k) /\ SumFunctionOnSet(f, T) = k[T]
  BY <1>2, SumIsSum
<1>. QED  BY <1>3, SumUnique

\* Any element may be the one that is added last.
LEMMA SumRemove ==
  ASSUME NEW S, IsFiniteSet(S), NEW f, \A x \in S : f[x] \in Int, NEW x \in S
  PROVE  SumFunctionOnSet(f, S) = f[x] + SumFunctionOnSet(f, S \ {x})
<1>1. PICK g \in [SUBSET S -> Int] : IsSum(f, S, g)
  BY SumExists
<1> DEFINE Q == {n \in Nat : \A s \in SUBSET S, y \in S :
                   Cardinality(s) = n /\ y \in s => g[s] = f[y] + g[s \ {y}]}
<1>2. \A s \in SUBSET S : IsFiniteSet(s) /\ Cardinality(s) \in Nat
  BY FS_Subset, FS_CardinalityType
<1>3. \A s \in SUBSET S : s # {} => g[s] = f[First(s)] + g[s \ {First(s)}]
  BY <1>1 DEF IsSum
<1>4. 0 \in Q
  <2>1. \A s \in SUBSET S : Cardinality(s) = 0 => s = {}
    BY <1>2, FS_EmptySet
  <2>. QED  BY <2>1
<1>5. ASSUME NEW n \in Q PROVE n + 1 \in Q
  <2>1. SUFFICES ASSUME NEW s \in SUBSET S, NEW y \in S, Cardinality(s) = n + 1, y \in s
                 PROVE  g[s] = f[y] + g[s \ {y}]
    OBVIOUS
  <2> DEFINE z == First(s)
             a == s \ {z}
             b == s \ {y}
             r == s \ {y, z}
  <2>2. z \in s
    BY <2>1, FirstIn
  <2>3. g[s] = f[z] + g[a]
    BY <1>3, <2>1
  <2> HIDE DEF z
  <2>4. CASE y = z
    BY <2>3, <2>4
  <2>5. CASE y # z
    <3>1. /\ a \in SUBSET S /\ b \in SUBSET S /\ y \in a /\ z \in b
          /\ a \ {y} = r /\ b \ {z} = r /\ r \in SUBSET S /\ z \in S
      BY <2>5, <2>1, <2>2
    <3>2. Cardinality(a) = n /\ Cardinality(b) = n
      <4>1. Cardinality(a) = Cardinality(s) - 1 /\ Cardinality(b) = Cardinality(s) - 1
        BY <1>2, <2>1, <2>2, FS_RemoveElement
      <4>2. (n + 1) - 1 = n
        OBVIOUS
      <4>. QED  BY <4>1, <4>2, <2>1
    <3> HIDE DEF a, b, r
    <3>3. g[a] = f[y] + g[r] /\ g[b] = f[z] + g[r]
      BY <3>1, <3>2
    <3>4. g[r] \in Int /\ f[y] \in Int /\ f[z] \in Int
      BY <3>1
    <3>5. \A i, j, k \in Int : i + (j + k) = j + (i + k)
      OBVIOUS
    <3>. QED  BY <3>3, <3>4, <3>5, <2>3 DEF b
  <2>. QED  BY <2>4, <2>5
<1>6. Q = Nat
  <2> HIDE DEF Q
  <2>1. Q \in SUBSET Nat
    BY DEF Q
  <2>. QED  BY <2>1, <1>4, <1>5, NumberInduction
<1>7. g[S] = f[x] + g[S \ {x}]
  BY <1>2, <1>6
<1>8. SumFunctionOnSet(f, S) = g[S] /\ SumFunctionOnSet(f, S \ {x}) = g[S \ {x}]
  <2>1. S \in SUBSET S /\ S \ {x} \in SUBSET S
    OBVIOUS
  <2>. QED  BY <2>1, <1>1, SumValue
<1>. QED  BY <1>7, <1>8

\* The sum of nothing, the type of a sum, and one more element.
LEMMA SumEmpty ==
  ASSUME NEW f
  PROVE  SumFunctionOnSet(f, {}) = 0
<1>1. IsFiniteSet({}) /\ \A x \in {} : f[x] \in Int
  BY FS_EmptySet
<1>2. PICK g \in [SUBSET {} -> Int] : IsSum(f, {}, g)
  BY <1>1, SumExists
<1>3. SumFunctionOnSet(f, {}) = g[{}]
  BY <1>1, <1>2, SumValue
<1>. QED  BY <1>2, <1>3 DEF IsSum

LEMMA SumInt ==
  ASSUME NEW S, IsFiniteSet(S), NEW f, \A x \in S : f[x] \in Int
  PROVE  SumFunctionOnSet(f, S) \in Int
<1>1. PICK g \in [SUBSET S -> Int] : IsSum(f, S, g)
  BY SumExists
<1>2. SumFunctionOnSet(f, S) = g[S]
  BY <1>1, SumValue
<1>. QED  BY <1>2

LEMMA SumAdd ==
  ASSUME NEW S, IsFiniteSet(S), NEW x, x \notin S, NEW f, \A y \in S \cup {x} : f[y] \in Int
  PROVE  SumFunctionOnSet(f, S \cup {x}) = f[x] + SumFunctionOnSet(f, S)
<1> DEFINE U == S \cup {x}
<1>1. IsFiniteSet(U)
  BY FS_AddElement
<1>2. x \in U /\ U \ {x} = S
  OBVIOUS
<1>3. SumFunctionOnSet(f, U) = f[x] + SumFunctionOnSet(f, U \ {x})
  <2> HIDE DEF U
  <2>1. \A y \in U : f[y] \in Int
    BY DEF U
  <2>. QED  BY <2>1, <1>1, <1>2, SumRemove
<1>. QED  BY <1>2, <1>3

\* Sums of functions that are in an order, or agree, on the set.
LEMMA SumMonotone ==
  ASSUME NEW S, IsFiniteSet(S), NEW f, NEW h,
         \A x \in S : f[x] \in Int /\ h[x] \in Int /\ f[x] <= h[x]
  PROVE  SumFunctionOnSet(f, S) <= SumFunctionOnSet(h, S)
<1> DEFINE P == {s \in SUBSET S : SumFunctionOnSet(f, s) <= SumFunctionOnSet(h, s)}
<1>1. {} \in P
  BY SumEmpty
<1>2. ASSUME NEW s \in P, NEW x \in S, x \notin s PROVE s \cup {x} \in P
  <2>1. IsFiniteSet(s) /\ \A y \in s \cup {x} : f[y] \in Int /\ h[y] \in Int
    BY FS_Subset
  <2>2. /\ SumFunctionOnSet(f, s \cup {x}) = f[x] + SumFunctionOnSet(f, s)
        /\ SumFunctionOnSet(h, s \cup {x}) = h[x] + SumFunctionOnSet(h, s)
    BY <2>1, <1>2, SumAdd
  <2>3. SumFunctionOnSet(f, s) \in Int /\ SumFunctionOnSet(h, s) \in Int
    BY <2>1, SumInt
  <2>4. \A i, j, k, l \in Int : i <= j /\ k <= l => i + k <= j + l
    OBVIOUS
  <2>. QED  BY <2>2, <2>3, <2>4
<1>3. S \in P
  <2> HIDE DEF P
  <2>1. P \in SUBSET (SUBSET S)
    BY DEF P
  <2>2. S \in SUBSET S
    OBVIOUS
  <2>. QED  BY <2>1, <2>2, <1>1, <1>2, SubsetInduction
<1>. QED  BY <1>3

LEMMA SumAgree ==
  ASSUME NEW S, IsFiniteSet(S), NEW f, NEW h,
         \A x \in S : f[x] \in Int /\ f[x] = h[x]
  PROVE  SumFunctionOnSet(f, S) = SumFunctionOnSet(h, S)
<1>1. SumFunctionOnSet(f, S) \in Int /\ SumFunctionOnSet(h, S) \in Int
  BY SumInt
<1>2. \A x \in S : f[x] \in Int /\ h[x] \in Int /\ f[x] <= h[x] /\ h[x] <= f[x]
  OBVIOUS
<1>3. SumFunctionOnSet(f, S) <= SumFunctionOnSet(h, S) /\ SumFunctionOnSet(h, S) <= SumFunctionOnSet(f, S)
  BY <1>2, SumMonotone
<1>. QED  BY <1>1, <1>3

\* Sums of zeros and of natural numbers.
LEMMA SumZero ==
  ASSUME NEW S, IsFiniteSet(S), NEW f, \A x \in S : f[x] = 0
  PROVE  SumFunctionOnSet(f, S) = 0
<1> DEFINE P == {s \in SUBSET S : SumFunctionOnSet(f, s) = 0}
<1>1. {} \in P
  BY SumEmpty
<1>2. ASSUME NEW s \in P, NEW x \in S, x \notin s PROVE s \cup {x} \in P
  <2>1. IsFiniteSet(s) /\ \A y \in s \cup {x} : f[y] \in Int
    BY FS_Subset
  <2>2. SumFunctionOnSet(f, s \cup {x}) = f[x] + SumFunctionOnSet(f, s)
    BY <2>1, <1>2, SumAdd
  <2>. QED  BY <2>2
<1>3. S \in P
  <2> HIDE DEF P
  <2>1. P \in SUBSET (SUBSET S)
    BY DEF P
  <2>2. S \in SUBSET S
    OBVIOUS
  <2>. QED  BY <2>1, <2>2, <1>1, <1>2, SubsetInduction
<1>. QED  BY <1>3

LEMMA SumNat ==
  ASSUME NEW S, IsFiniteSet(S), NEW f, \A x \in S : f[x] \in Nat
  PROVE  SumFunctionOnSet(f, S) \in Nat
<1> DEFINE zero == [x \in S |-> 0]
<1>1. SumFunctionOnSet(zero, S) = 0
  BY SumZero
<1>2. SumFunctionOnSet(zero, S) <= SumFunctionOnSet(f, S)
  BY SumMonotone
<1>3. SumFunctionOnSet(f, S) \in Int
  BY SumInt
<1>. QED  BY <1>1, <1>2, <1>3

\* A sum over a set is that over a part of it and that over the rest.
LEMMA SumSplit ==
  ASSUME NEW S, IsFiniteSet(S), NEW T \in SUBSET S, NEW f, \A x \in S : f[x] \in Int
  PROVE  SumFunctionOnSet(f, S) = SumFunctionOnSet(f, T) + SumFunctionOnSet(f, S \ T)
<1> DEFINE P == {s \in SUBSET T : SumFunctionOnSet(f, S) = SumFunctionOnSet(f, s) + SumFunctionOnSet(f, S \ s)}
<1>0. IsFiniteSet(T)
  BY FS_Subset
<1>1. {} \in P
  <2>1. S \ {} = S /\ SumFunctionOnSet(f, S) \in Int
    BY SumInt
  <2>. QED  BY <2>1, SumEmpty
<1>2. ASSUME NEW s \in P, NEW x \in T, x \notin s PROVE s \cup {x} \in P
  <2> DEFINE r == S \ s
  <2>1. IsFiniteSet(s) /\ IsFiniteSet(r) /\ x \in r /\ r \ {x} = S \ (s \cup {x}) /\ r \subseteq S
    BY <1>2, FS_Subset
  <2>2. SumFunctionOnSet(f, s \cup {x}) = f[x] + SumFunctionOnSet(f, s)
    BY <2>1, <1>2, SumAdd
  <2>3. SumFunctionOnSet(f, S) = SumFunctionOnSet(f, s) + SumFunctionOnSet(f, r)
    OBVIOUS
  <2> HIDE DEF r
  <2>4. SumFunctionOnSet(f, r) = f[x] + SumFunctionOnSet(f, r \ {x})
    BY <2>1, SumRemove
  <2>5. /\ SumFunctionOnSet(f, s) \in Int /\ SumFunctionOnSet(f, r \ {x}) \in Int /\ f[x] \in Int
    <3>1. IsFiniteSet(r \ {x}) /\ \A y \in r \ {x} : f[y] \in Int
      BY <2>1, FS_Subset
    <3>. QED  BY <2>1, <3>1, SumInt
  <2>6. \A i, j, k \in Int : i + (j + k) = (j + i) + k
    OBVIOUS
  <2>7. SumFunctionOnSet(f, S) = SumFunctionOnSet(f, s \cup {x}) + SumFunctionOnSet(f, r \ {x})
    BY <2>2, <2>3, <2>4, <2>5, <2>6
  <2>. QED  BY <2>7, <2>1
<1>3. T \in P
  <2> HIDE DEF P
  <2>1. P \in SUBSET (SUBSET T)
    BY DEF P
  <2>2. T \in SUBSET T
    OBVIOUS
  <2>. QED  BY <2>1, <2>2, <1>0, <1>1, <1>2, SubsetInduction
<1>. QED  BY <1>3

\* With natural numbers a part, and each single value, is at most the sum.
LEMMA SumOfPart ==
  ASSUME NEW S, IsFiniteSet(S), NEW T \in SUBSET S, NEW f, \A x \in S : f[x] \in Nat
  PROVE  SumFunctionOnSet(f, T) \in Nat /\ SumFunctionOnSet(f, T) <= SumFunctionOnSet(f, S)
<1>1. IsFiniteSet(T) /\ IsFiniteSet(S \ T) /\ \A x \in S : f[x] \in Int
  BY FS_Subset
<1>2. SumFunctionOnSet(f, T) \in Nat /\ SumFunctionOnSet(f, S \ T) \in Nat
  BY <1>1, SumNat
<1>3. SumFunctionOnSet(f, S) = SumFunctionOnSet(f, T) + SumFunctionOnSet(f, S \ T)
  BY <1>1, SumSplit
<1>. QED  BY <1>2, <1>3

LEMMA SumOfOne ==
  ASSUME NEW S, IsFiniteSet(S), NEW x \in S, NEW f, \A y \in S : f[y] \in Nat
  PROVE  f[x] <= SumFunctionOnSet(f, S)
<1>1. SumFunctionOnSet(f, S) = f[x] + SumFunctionOnSet(f, S \ {x})
  <2>1. \A y \in S : f[y] \in Int
    OBVIOUS
  <2>. QED  BY <2>1, SumRemove
<1>2. SumFunctionOnSet(f, S \ {x}) \in Nat
  <2>1. IsFiniteSet(S \ {x})
    BY FS_Subset
  <2>. QED  BY <2>1, SumNat
<1>. QED  BY <1>1, <1>2

\* What a change of one value does to the sum.
LEMMA SumUpdate ==
  ASSUME NEW S, IsFiniteSet(S), NEW f \in [S -> Int], NEW x \in S, NEW v \in Int
  PROVE  SumFunction([f EXCEPT ![x] = v]) = SumFunction(f) + (v - f[x])
<1> DEFINE h == [f EXCEPT ![x] = v]
           R == S \ {x}
<1>1. DOMAIN h = S /\ DOMAIN f = S /\ IsFiniteSet(R) /\ \A y \in S : h[y] \in Int /\ f[y] \in Int
  BY FS_Subset
<1>2. SumFunctionOnSet(h, S) = h[x] + SumFunctionOnSet(h, R)
  <2> HIDE DEF h
  <2>. QED  BY <1>1, SumRemove
<1>3. SumFunctionOnSet(f, S) = f[x] + SumFunctionOnSet(f, R)
  BY <1>1, SumRemove
<1>4. SumFunctionOnSet(f, R) = SumFunctionOnSet(h, R)
  <2>1. \A y \in R : f[y] \in Int /\ f[y] = h[y]
    OBVIOUS
  <2> HIDE DEF h, R
  <2>. QED  BY <2>1, <1>1, SumAgree
<1>5. SumFunctionOnSet(f, R) \in Int /\ f[x] \in Int /\ h[x] = v
  BY <1>1, SumInt
<1>6. \A i, j, k \in Int : j + i = (k + i) + (j - k)
  OBVIOUS
<1>7. SumFunctionOnSet(h, S) = SumFunctionOnSet(f, S) + (v - f[x])
  BY <1>2, <1>3, <1>4, <1>5, <1>6
<1>. QED  BY <1>7, <1>1 DEF SumFunction

\* The concatenation of a sequence of sequences, step by step.
LEMMA FlattenSteps ==
  ASSUME NEW S, NEW seqs \in Seq(Seq(S))
  PROVE  \E g : /\ g[0] = <<>> /\ g[Len(seqs)] = FlattenSeq(seqs)
                /\ \A i \in 1..Len(seqs) : g[i] = g[i - 1] \o seqs[i]
<1> DEFINE V == Seq(S)
<1>1. PICK N \in Nat : N = Len(seqs)
  BY LenProperties
<1>2. \A i \in 1..N : seqs[i] \in V
  BY <1>1
<1> DEFINE step == [i \in Nat |-> [v \in V |-> IF i \in 1..N THEN v \o seqs[i] ELSE v]]
           IsFlat(f) == f = [i \in 1..N |-> IF i = 1 THEN seqs[i] ELSE f[i - 1] \o seqs[i]]
           flat == CHOOSE f : IsFlat(f)
<1>3. \A i \in 1..N, v \in V : v \o seqs[i] \in V
  BY <1>2, ConcatProperties
<1>4. <<>> \in V /\ \A i \in 1..N : <<>> \o seqs[i] = seqs[i]
  BY <1>2, EmptySeq, ConcatEmptySeq
<1> HIDE DEF V
<1>5. step \in [Nat -> [V -> V]]
  BY <1>3
<1>6. \A i \in 1..N, v \in V : step[i][v] = v \o seqs[i]
  OBVIOUS
<1> HIDE DEF step
<1>7. PICK g \in [0..N -> V] : RecursiveTo(N, <<>>, step, g)
  BY <1>4, <1>5, RecursionExists
<1>8. \A i \in 1..N : i \in 0..N /\ i # 0 /\ i - 1 \in 0..N /\ (i # 1 => i - 1 \in 1..N) /\ (i = 1 => i - 1 = 0)
  OBVIOUS
<1>9. g[0] = <<>> /\ \A i \in 1..N : g[i] = g[i - 1] \o seqs[i]
  <2>1. \A i \in 1..N : g[i] = step[i][g[i - 1]]
    BY <1>7, <1>8 DEF RecursiveTo
  <2>2. \A i \in 1..N : g[i - 1] \in V
    BY <1>8
  <2>3. 0 \in 0..N
    OBVIOUS
  <2>4. g[0] = <<>>
    BY <1>7, <2>3 DEF RecursiveTo
  <2>. QED  BY <1>6, <2>1, <2>2, <2>4
<1> DEFINE h == [i \in 1..N |-> g[i]]
<1>10. \A i \in 1..N : h[i] = IF i = 1 THEN seqs[i] ELSE h[i - 1] \o seqs[i]
  <2>1. \A i \in 1..N : h[i] = g[i]
    OBVIOUS
  <2> HIDE DEF h
  <2>2. \A i \in 1..N : i = 1 => g[i] = seqs[i]
    BY <1>4, <1>8, <1>9
  <2>3. \A i \in 1..N : i # 1 => h[i - 1] = g[i - 1]
    BY <1>8, <2>1
  <2>. QED  BY <1>9, <2>1, <2>2, <2>3
<1>11. IsFlat(flat)
  <2>1. h = [i \in 1..N |-> h[i]]
    OBVIOUS
  <2> HIDE DEF h
  <2>2. IsFlat(h)
    BY <1>10, <2>1
  <2>. QED  BY <2>2
<1>12. N # 0 => FlattenSeq(seqs) = flat[N]
  BY <1>1 DEF FlattenSeq
<1> HIDE DEF flat
<1>13. \A i \in 1..N : flat[i] = IF i = 1 THEN seqs[i] ELSE flat[i - 1] \o seqs[i]
  BY <1>11
<1> DEFINE r == [i \in 0..N |-> IF i = 0 THEN <<>> ELSE flat[i]]
<1>14. r[0] = <<>> /\ \A i \in 1..N : r[i] = flat[i]
  BY <1>8
<1>15. ASSUME NEW i \in 1..N PROVE r[i] = r[i - 1] \o seqs[i]
  <2> HIDE DEF r
  <2>1. CASE i = 1
    <3>1. i - 1 = 0
      BY <2>1
    <3>2. r[i] = seqs[i] /\ r[i - 1] = <<>>
      BY <2>1, <3>1, <1>13, <1>14, Zenon
    <3>. QED  BY <3>2, <1>4, Zenon
  <2>2. CASE i # 1
    <3>1. i - 1 \in 1..N
      BY <2>2, <1>8
    <3>. QED  BY <2>2, <3>1, <1>13, <1>14
  <2>. QED  BY <2>1, <2>2
<1> HIDE DEF r
<1>16. r[N] = FlattenSeq(seqs)
  <2>1. CASE N = 0
    <3>1. FlattenSeq(seqs) = seqs /\ seqs = <<>>
      BY <1>1, <2>1, EmptySeq DEF FlattenSeq
    <3>. QED  BY <2>1, <3>1, <1>14
  <2>2. CASE N # 0
    <3>1. N \in 1..N
      BY <2>2
    <3>. QED  BY <2>2, <3>1, <1>12, <1>14
  <2>. QED  BY <2>1, <2>2
<1>. QED  BY <1>1, <1>14, <1>15, <1>16

-----------------------------------------------------------------------------
(* Sorted sequences.  An order is a set of pairs: no lemma takes an         *)
(* operator.                                                               *)

TotalOrder(S, R) ==
  /\ \A x \in S : <<x, x>> \notin R
  /\ \A x, y \in S : x = y \/ <<x, y>> \in R \/ <<y, x>> \in R
  /\ \A x, y, z \in S : <<x, y>> \in R /\ <<y, z>> \in R => <<x, z>> \in R

Lower(S, R, x) == {y \in S : <<y, x>> \in R}
Rank(S, R, x) == Cardinality(Lower(S, R, x))

\* q lists the elements of S, each once and in order.
SortedOver(q, S, R) ==
  /\ q \in Seq(S) /\ \A x \in S : \E i \in 1..Len(q) : q[i] = x
  /\ \A i, j \in 1..Len(q) : i < j => <<q[i], q[j]>> \in R

LEMMA RankOrder ==
  ASSUME NEW S, IsFiniteSet(S), NEW R, TotalOrder(S, R), NEW x \in S
  PROVE  /\ Rank(S, R, x) \in Nat /\ Rank(S, R, x) < Cardinality(S) /\ Cardinality(S) \in Nat
         /\ \A y \in S : <<x, y>> \in R => Rank(S, R, x) < Rank(S, R, y)
<1>1. ASSUME NEW T \in SUBSET S, x \in T, Lower(S, R, x) \subseteq T
      PROVE  /\ Rank(S, R, x) \in Nat /\ Cardinality(T) \in Nat /\ Rank(S, R, x) < Cardinality(T)
  <2> DEFINE L == Lower(S, R, x)
  <2>1. x \notin L /\ L \in SUBSET S /\ L \cup {x} \in SUBSET T
    BY <1>1 DEF Lower, TotalOrder
  <2>2. IsFiniteSet(L) /\ IsFiniteSet(T) /\ Cardinality(L) \in Nat /\ Cardinality(T) \in Nat
    BY <2>1, FS_Subset, FS_CardinalityType
  <2>3. Cardinality(L \cup {x}) = Cardinality(L) + 1
    BY <2>1, <2>2, FS_AddElement
  <2>4. Cardinality(L \cup {x}) <= Cardinality(T)
    BY <2>1, <2>2, FS_Subset
  <2>. QED  BY <2>2, <2>3, <2>4 DEF Rank
<1>2. Lower(S, R, x) \subseteq S /\ S \in SUBSET S
  BY DEF Lower
<1>3. ASSUME NEW y \in S, <<x, y>> \in R PROVE Rank(S, R, x) < Rank(S, R, y)
  <2>1. Lower(S, R, y) \in SUBSET S /\ x \in Lower(S, R, y)
    BY <1>3 DEF Lower
  <2>2. Lower(S, R, x) \subseteq Lower(S, R, y)
    BY <1>3 DEF Lower, TotalOrder
  <2>. QED  BY <2>1, <2>2, <1>1 DEF Rank
<1>4. Rank(S, R, x) \in Nat /\ Cardinality(S) \in Nat /\ Rank(S, R, x) < Cardinality(S)
  BY <1>1, <1>2
<1>. QED  BY <1>3, <1>4

\* Elements of one rank are one.
LEMMA RankUnique ==
  ASSUME NEW S, IsFiniteSet(S), NEW R, TotalOrder(S, R), NEW x \in S, NEW y \in S,
         Rank(S, R, x) = Rank(S, R, y)
  PROVE  x = y
<1>1. <<x, y>> \in R => Rank(S, R, x) < Rank(S, R, y)
  BY RankOrder
<1>2. <<y, x>> \in R => Rank(S, R, y) < Rank(S, R, x)
  BY RankOrder
<1>3. Rank(S, R, x) \in Nat
  BY RankOrder
<1>. QED  BY <1>1, <1>2, <1>3 DEF TotalOrder

\* There is an element of every rank.
LEMMA RankExists ==
  ASSUME NEW S, IsFiniteSet(S), NEW R, TotalOrder(S, R), NEW i \in 1..Cardinality(S)
  PROVE  \E x \in S : Rank(S, R, x) = i - 1
<1> DEFINE f == [x \in S |-> Rank(S, R, x)]
<1>1. PICK N \in Nat : N = Cardinality(S)
  BY FS_CardinalityType
<1> DEFINE T == 0..(N - 1)
<1>2. \A x \in S : Rank(S, R, x) \in T
  <2>1. \A x \in S : Rank(S, R, x) \in Nat /\ Rank(S, R, x) < N
    BY <1>1, RankOrder
  <2>. QED  BY <2>1
<1>3. \A x, y \in S : f[x] = f[y] => x = y
  BY RankUnique
<1>4. f \in [S -> T] /\ DOMAIN f = S /\ \A x \in S : f[x] = Rank(S, R, x)
  BY <1>2
<1>5. IsFiniteSet(T) /\ Cardinality(T) = N
  <2>1. IsFiniteSet(0..(N - 1)) /\ Cardinality(0..(N - 1)) = IF 0 > N - 1 THEN 0 ELSE (N - 1) - 0 + 1
    BY FS_Interval
  <2>. QED  BY <2>1
<1>6. i - 1 \in T
  BY <1>1
<1> HIDE DEF f, T
<1>7. f \in Injection(S, T)
  BY <1>3, <1>4 DEF Injection, IsInjective
<1>8. f \in Surjection(S, T)
  BY <1>1, <1>5, <1>7, FS_Injection
<1>. QED  BY <1>4, <1>6, <1>8 DEF Surjection

\* A sequence of the elements by rank is sorted.
LEMMA RankedIsSorted ==
  ASSUME NEW S, IsFiniteSet(S), NEW R, TotalOrder(S, R), NEW q \in Seq(S), Len(q) = Cardinality(S),
         \A i \in 1..Len(q) : Rank(S, R, q[i]) = i - 1
  PROVE  SortedOver(q, S, R)
<1>0. \A i \in 1..Len(q) : q[i] \in S
  OBVIOUS
<1>1. PICK N \in Nat : N = Len(q)
  BY LenProperties
<1>2. ASSUME NEW x \in S PROVE \E i \in 1..N : q[i] = x
  <2>1. PICK r \in Nat : r = Rank(S, R, x) /\ r < N
    BY <1>1, RankOrder
  <2>2. r + 1 \in 1..N /\ (r + 1) - 1 = r
    BY <2>1
  <2>3. q[r + 1] \in S /\ Rank(S, R, q[r + 1]) = r
    BY <2>2, <1>0, <1>1
  <2>4. q[r + 1] = x
    BY <2>1, <2>3, RankUnique
  <2>. QED  BY <2>2, <2>4
<1>3. ASSUME NEW i \in 1..N, NEW j \in 1..N, i < j PROVE <<q[i], q[j]>> \in R
  <2>1. q[i] \in S /\ q[j] \in S /\ Rank(S, R, q[i]) = i - 1 /\ Rank(S, R, q[j]) = j - 1
    BY <1>0, <1>1
  <2>2. i - 1 # j - 1 /\ ~(j - 1 < i - 1)
    BY <1>3
  <2>3. ~(<<q[j], q[i]>> \in R)
    BY <2>1, <2>2, RankOrder
  <2>4. q[i] # q[j]
    BY <2>1, <2>2
  <2>. QED  BY <2>1, <2>3, <2>4 DEF TotalOrder
<1>. QED  BY <1>1, <1>2, <1>3 DEF SortedOver

LEMMA SortedPositions ==
  ASSUME NEW S, NEW R, TotalOrder(S, R), NEW q, SortedOver(q, S, R), NEW n \in 0..Len(q)
  PROVE  /\ Len(q) \in Nat /\ Cardinality({q[i] : i \in 1..n}) = n
         /\ \A i \in 1..Len(q) : q[i] \in S
         /\ \A i, j \in 1..Len(q) : <<q[i], q[j]>> \in R => i < j
<1>1. PICK N \in Nat : N = Len(q)
  BY LenProperties DEF SortedOver
<1>2. \A i \in 1..N : q[i] \in S
  BY <1>1 DEF SortedOver
<1>3. \A i, j \in 1..N : i # j => q[i] # q[j]
  <2>1. \A i, j \in 1..N : i # j => i < j \/ j < i
    OBVIOUS
  <2>. QED  BY <2>1, <1>1, <1>2 DEF SortedOver, TotalOrder
<1>4. \A i, j \in 1..N : <<q[i], q[j]>> \in R => i < j
  <2>1. \A i, j \in 1..N : i < j \/ i = j \/ j < i
    OBVIOUS
  <2>. QED  BY <2>1, <1>1, <1>2 DEF SortedOver, TotalOrder
<1> DEFINE T == {q[i] : i \in 1..n}
           f == [i \in 1..n |-> q[i]]
<1>5. n \in Nat /\ \A i \in 1..n : i \in 1..N
  BY <1>1
<1>6. f \in [1..n -> T] /\ DOMAIN f = 1..n /\ \A i \in 1..n : f[i] = q[i]
  OBVIOUS
<1>7. \A t \in T : \E i \in 1..n : f[i] = t
  OBVIOUS
<1> HIDE DEF f, T
<1>8. f \in Bijection(1..n, T)
  BY <1>3, <1>5, <1>6, <1>7 DEF Bijection, Injection, Surjection, IsInjective
<1>9. Cardinality(T) = n
  BY <1>5, <1>8, FS_CountingElements DEF ExistsBijection
<1>. QED  BY <1>1, <1>2, <1>4, <1>9 DEF T

\* In a sorted sequence the i-th element has i - 1 elements before it.
LEMMA SortedRank ==
  ASSUME NEW S, NEW R, TotalOrder(S, R), NEW q, SortedOver(q, S, R)
  PROVE  /\ Len(q) \in Nat /\ Len(q) = Cardinality(S)
         /\ \A i \in 1..Len(q) : q[i] \in S /\ Rank(S, R, q[i]) = i - 1
<1>1. PICK N \in Nat : N = Len(q)
  BY LenProperties DEF SortedOver
<1>2. N \in 0..Len(q)
  BY <1>1
<1>3. /\ Cardinality({q[i] : i \in 1..N}) = N /\ \A i \in 1..N : q[i] \in S
      /\ \A i, j \in 1..N : <<q[i], q[j]>> \in R => i < j
  BY <1>1, <1>2, SortedPositions
<1>4. {q[i] : i \in 1..N} = S
  BY <1>1, <1>3 DEF SortedOver
<1>5. ASSUME NEW i \in 1..N PROVE Rank(S, R, q[i]) = i - 1
  <2>1. i - 1 \in 0..Len(q) /\ \A j \in 1..N : j \in 1..(i - 1) <=> j < i
    BY <1>1
  <2>2. \A j \in 1..(i - 1) : j \in 1..N
    OBVIOUS
  <2>3. Lower(S, R, q[i]) = {q[j] : j \in 1..(i - 1)}
    <3>1. ASSUME NEW y \in Lower(S, R, q[i]) PROVE y \in {q[j] : j \in 1..(i - 1)}
      <4>1. y \in S /\ <<y, q[i]>> \in R
        BY <3>1 DEF Lower
      <4>2. PICK j \in 1..N : q[j] = y
        BY <4>1, <1>1 DEF SortedOver
      <4>3. j < i
        BY <4>1, <4>2, <1>3
      <4>. QED  BY <4>2, <4>3, <2>1
    <3>2. ASSUME NEW j \in 1..(i - 1) PROVE q[j] \in Lower(S, R, q[i])
      <4>1. j \in 1..N /\ j < i
        BY <2>1, <2>2
      <4>. QED  BY <4>1, <1>1, <1>3 DEF SortedOver, Lower
    <3>. QED  BY <3>1, <3>2
  <2>4. Cardinality({q[j] : j \in 1..(i - 1)}) = i - 1
    BY <2>1, SortedPositions
  <2>. QED  BY <2>3, <2>4 DEF Rank
<1>. QED  BY <1>1, <1>3, <1>4, <1>5

\* A set has one sorted sequence.
LEMMA SortedUnique ==
  ASSUME NEW S, IsFiniteSet(S), NEW R, TotalOrder(S, R),
         NEW p, SortedOver(p, S, R), NEW q, SortedOver(q, S, R)
  PROVE  p = q
<1>1. /\ Len(p) = Cardinality(S) /\ \A i \in 1..Len(p) : p[i] \in S /\ Rank(S, R, p[i]) = i - 1
      /\ Len(q) = Cardinality(S) /\ \A i \in 1..Len(q) : q[i] \in S /\ Rank(S, R, q[i]) = i - 1
  BY SortedRank
<1>2. \A i \in 1..Len(p) : p[i] = q[i]
  BY <1>1, RankUnique
<1>3. p \in Seq(S) /\ q \in Seq(S)
  BY DEF SortedOver
<1>. QED  BY <1>1, <1>2, <1>3, SeqEqual

\* A prefix of a sorted sequence lists the elements of least rank.
LEMMA SortedPrefix ==
  ASSUME NEW S, NEW R, TotalOrder(S, R), NEW q, SortedOver(q, S, R), NEW n \in 0..Len(q)
  PROVE  SortedOver(SubSeq(q, 1, n), {x \in S : Rank(S, R, x) < n}, R)
<1> DEFINE T == {x \in S : Rank(S, R, x) < n}
<1>1. /\ Len(q) \in Nat /\ \A i \in 1..Len(q) : q[i] \in S /\ Rank(S, R, q[i]) = i - 1
  BY SortedRank
<1>2. PICK p : p = SubSeq(q, 1, n)
  OBVIOUS
<1>3. p \in Seq(S) /\ Len(p) = n /\ \A i \in 1..n : p[i] = q[i]
  BY <1>2, PrefixOf DEF SortedOver
<1>4. n \in Nat /\ \A i \in 1..n : i \in 1..Len(q) /\ i - 1 < n
  BY <1>1
<1>5. \A i \in 1..n : p[i] \in T
  BY <1>1, <1>3, <1>4
<1>6. p \in Seq(T)
  <2>1. p = [i \in 1..n |-> p[i]]
    BY <1>3, <1>4
  <2> HIDE DEF T
  <2>. QED  BY <2>1, <1>4, <1>5
<1>7. ASSUME NEW x \in T PROVE \E i \in 1..n : p[i] = x
  <2>1. PICK i \in 1..Len(q) : q[i] = x
    BY <1>7 DEF SortedOver
  <2>2. i \in 1..n
    BY <2>1, <1>1, <1>4
  <2>. QED  BY <2>1, <2>2, <1>3
<1>8. \A i, j \in 1..n : i < j => <<p[i], p[j]>> \in R
  BY <1>3, <1>4 DEF SortedOver
<1> HIDE DEF T
<1>9. SortedOver(p, T, R)
  BY <1>3, <1>6, <1>7, <1>8 DEF SortedOver
<1>. QED  BY <1>2, <1>9 DEF T

LEMMA SortedConcat ==
  ASSUME NEW A, NEW B, NEW R, NEW p, SortedOver(p, A, R), NEW q, SortedOver(q, B, R),
         \A x \in A, y \in B : <<x, y>> \in R
  PROVE  SortedOver(p \o q, A \cup B, R)
<1> DEFINE S == A \cup B
<1>0. p \in Seq(A) /\ q \in Seq(B)
  BY DEF SortedOver
<1>1. PICK m \in Nat : m = Len(p)
  BY <1>0, LenProperties
<1>2. PICK n \in Nat : n = Len(q)
  BY <1>0, LenProperties
<1>3. p \in Seq(S) /\ q \in Seq(S)
  BY <1>0
<1>4. PICK r \in Seq(S) : Concatenated(r, p, q, m, n)
  BY <1>1, <1>2, <1>3, ConcatElements
<1>5. \A i \in 1..(m + n) : IF i <= m THEN i \in 1..m ELSE i - m \in 1..n
  OBVIOUS
<1>6. /\ \A i \in 1..m : p[i] \in A /\ i \in 1..(m + n) /\ r[i] = p[i]
      /\ \A i \in 1..n : q[i] \in B /\ i + m \in 1..(m + n) /\ r[i + m] = q[i]
  <2>1. /\ \A i \in 1..m : i \in 1..(m + n) /\ i <= m
        /\ \A i \in 1..n : i + m \in 1..(m + n) /\ ~(i + m <= m) /\ (i + m) - m = i
    OBVIOUS
  <2>. QED  BY <2>1, <1>0, <1>1, <1>2, <1>4 DEF Concatenated
<1>7. ASSUME NEW x \in S PROVE \E i \in 1..(m + n) : r[i] = x
  <2>1. CASE x \in A
    <3>1. PICK i \in 1..m : p[i] = x
      BY <2>1, <1>1 DEF SortedOver
    <3>. QED  BY <3>1, <1>6
  <2>2. CASE x \in B
    <3>1. PICK i \in 1..n : q[i] = x
      BY <2>2, <1>2 DEF SortedOver
    <3>. QED  BY <3>1, <1>6
  <2>. QED  BY <2>1, <2>2
<1>8. ASSUME NEW i \in 1..(m + n), NEW j \in 1..(m + n), i < j PROVE <<r[i], r[j]>> \in R
  <2>1. CASE j <= m
    <3>1. i \in 1..m /\ j \in 1..m
      BY <1>8, <2>1
    <3>. QED  BY <3>1, <1>1, <1>6, <1>8 DEF SortedOver
  <2>2. CASE i <= m /\ ~(j <= m)
    <3>1. r[i] \in A
      BY <2>2, <1>4, <1>5, <1>6 DEF Concatenated
    <3>2. r[j] \in B
      BY <2>2, <1>4, <1>5, <1>6 DEF Concatenated
    <3>. QED  BY <3>1, <3>2
  <2>3. CASE ~(i <= m)
    <3>1. i - m \in 1..n /\ j - m \in 1..n /\ i - m < j - m /\ ~(j <= m)
      BY <1>8, <2>3
    <3>2. <<q[i - m], q[j - m]>> \in R
      BY <3>1, <1>2 DEF SortedOver
    <3>. QED  BY <3>1, <3>2, <2>3, <1>4 DEF Concatenated
  <2>. QED  BY <2>1, <2>2, <2>3
<1> HIDE DEF S
<1>9. SortedOver(r, S, R)
  BY <1>4, <1>7, <1>8 DEF SortedOver, Concatenated
<1>. QED  BY <1>4, <1>9 DEF S, Concatenated
=============================================================================
