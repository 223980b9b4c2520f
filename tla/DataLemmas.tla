------------------------------ MODULE DataLemmas ------------------------------
(***************************************************************************)
(* Facts about sets and sequences that the proofs of several components    *)
(* need and the library does not state.                                    *)
(***************************************************************************)
EXTENDS Erase, Sequences, Integers, FiniteSetsExt, FiniteSetTheorems, SequenceTheorems, TLAPS

(* A set of naturals has a least element, so Min returns a member: of the  *)
(* initial segments of S one holds no other.                               *)
LEMMA MinIsMember ==
  ASSUME NEW S, \A i \in S : i \in Nat, S # {}
  PROVE  Min(S) \in S /\ \A i \in S : Min(S) <= i
<1>1. PICK n \in S : n \in Nat
  OBVIOUS
<1> DEFINE upto(k) == {i \in S : i <= k}
           segments == {U \in SUBSET (0 .. n) : \E k \in S : k <= n /\ U = upto(k)}
<1>2. IsFiniteSet(0 .. n) /\ FiniteSubsetsOf(0 .. n) = SUBSET (0 .. n)
  <2>1. IsFiniteSet(0 .. n)
    BY <1>1, FS_Interval
  <2> QED
    BY <2>1, FS_FiniteSubsetsOfFinite
<1>3. ASSUME NEW k \in S, k <= n
      PROVE  upto(k) \in segments
  <2>1. \A i \in S : i <= k => i \in 0 .. n
    BY <1>1, <1>3
  <2>2. upto(k) \subseteq 0 .. n
    BY <2>1, Zenon
  <2> QED
    BY <1>3, <2>2
<1>4. PICK T \in segments : \A U \in segments : <<U, T>> \notin StrictSubsetOrdering(0 .. n)
  <2>1. upto(n) \in segments
    BY <1>1, <1>3
  <2>2. segments \subseteq SUBSET (0 .. n)
    OBVIOUS
  <2>3. IsWellFoundedOn(StrictSubsetOrdering(0 .. n), FiniteSubsetsOf(0 .. n))
    BY FS_StrictSubsetOrderingWellFounded
  <2> HIDE DEF segments
  <2>4. IsWellFoundedOn(StrictSubsetOrdering(0 .. n), SUBSET (0 .. n))
    BY <1>2, <2>3
  <2> QED
    BY <2>1, <2>2, <2>4, WFMin, Zenon
<1>5. PICK k \in S : k <= n /\ T = upto(k)
  OBVIOUS
<1>6. ASSUME NEW i \in S, i < k
      PROVE  FALSE
  <2>1. i \in Nat /\ k \in Nat /\ i <= n
    BY <1>1, <1>5, <1>6
  <2>a. k <= k /\ ~(k <= i) /\ \A j \in S : j <= i => j <= k
    BY <1>6, <2>1
  <2>2. upto(i) \subseteq upto(k) /\ k \notin upto(i) /\ k \in upto(k)
    BY <2>a, Zenon
  <2>3. upto(i) \in segments /\ upto(k) \in segments
    BY <1>3, <1>5, <2>1
  <2>4. upto(i) # upto(k)
    BY <2>2
  <2>5. upto(i) \in SUBSET (0 .. n) /\ upto(k) \in SUBSET (0 .. n)
    BY <2>3
  <2> HIDE DEF upto, segments
  <2>6. <<upto(i), upto(k)>> \in StrictSubsetOrdering(0 .. n)
    BY <2>2, <2>4, <2>5 DEF StrictSubsetOrdering
  <2> QED
    BY <1>4, <1>5, <2>3, <2>6
<1>7. k \in S /\ \A i \in S : k <= i
  BY <1>6
<1> QED
  BY <1>7 DEF Min

(* A finite set of naturals has a greatest element, so Max returns a       *)
(* member: of the final segments of S one holds no other.                  *)
LEMMA MaxIsMember ==
  ASSUME NEW S, \A i \in S : i \in Nat, S # {}, IsFiniteSet(S)
  PROVE  Max(S) \in S /\ \A i \in S : i <= Max(S)
<1> DEFINE from(k) == {i \in S : k <= i}
           segments == {U \in SUBSET S : \E k \in S : U = from(k)}
<1>1. FiniteSubsetsOf(S) = SUBSET S
  BY FS_FiniteSubsetsOfFinite
<1>2. \A k \in S : from(k) \in segments
  OBVIOUS
<1>3. PICK T \in segments : \A U \in segments : <<U, T>> \notin StrictSubsetOrdering(S)
  <2>1. PICK n \in S : TRUE
    OBVIOUS
  <2>2. from(n) \in segments /\ segments \subseteq SUBSET S
    BY <1>2
  <2>3. IsWellFoundedOn(StrictSubsetOrdering(S), FiniteSubsetsOf(S))
    BY FS_StrictSubsetOrderingWellFounded
  <2> HIDE DEF segments
  <2>4. IsWellFoundedOn(StrictSubsetOrdering(S), SUBSET S)
    BY <1>1, <2>3
  <2> QED  BY <2>2, <2>4, WFMin, Zenon
<1>4. PICK k \in S : T = from(k)
  OBVIOUS
<1>5. ASSUME NEW i \in S, k < i PROVE FALSE
  <2>1. i \in Nat /\ k \in Nat
    OBVIOUS
  <2>2. k <= k /\ ~(i <= k) /\ \A j \in S : i <= j => k <= j
    BY <1>5, <2>1
  <2>3. from(i) \subseteq from(k) /\ k \notin from(i) /\ k \in from(k)
    BY <2>2, Zenon
  <2>4. from(i) \in SUBSET S /\ from(k) \in SUBSET S /\ from(i) \in segments
    BY <1>2
  <2> HIDE DEF from, segments
  <2>5. <<from(i), from(k)>> \in StrictSubsetOrdering(S)
    BY <2>3, <2>4 DEF StrictSubsetOrdering
  <2> QED  BY <1>3, <1>4, <2>4, <2>5
<1>6. k \in S /\ \A i \in S : k >= i /\ i <= k
  BY <1>5
<1> QED  BY <1>6 DEF Max

(* A deque's push_back, element by element.                                *)
LEMMA PushBackElements ==
  ASSUME NEW S, NEW s \in Seq(S), NEW x \in S, NEW t, t = Append(s, x)
  PROVE  /\ t \in Seq(S) /\ Len(t) = Len(s) + 1
         /\ \A i \in 1 .. Len(t) : t[i] = IF i <= Len(s) THEN s[i] ELSE x
OBVIOUS

(* A deque's push_front, element by element.                               *)
LEMMA PushFrontElements ==
  ASSUME NEW S, NEW s \in Seq(S), NEW x \in S, NEW t, t = <<x>> \o s
  PROVE  /\ t \in Seq(S) /\ Len(t) = Len(s) + 1
         /\ \A i \in 1 .. Len(t) : t[i] = IF i = 1 THEN x ELSE s[i - 1]
<1>1. <<x>> \in Seq(S) /\ Len(<<x>>) = 1 /\ <<x>>[1] = x
  OBVIOUS
<1>2. /\ t \in Seq(S) /\ Len(t) = 1 + Len(s)
      /\ \A i \in 1 .. 1 + Len(s) : t[i] = IF i <= 1 THEN <<x>>[i] ELSE s[i - 1]
  BY <1>1, ConcatProperties
<1>3. Len(s) \in Nat
  BY LenProperties
<1> QED  BY <1>1, <1>2, <1>3

(* A deque's pop_front, element by element.                                *)
LEMMA PopFrontElements ==
  ASSUME NEW S, NEW s \in Seq(S), s # <<>>, NEW t, t = Tail(s)
  PROVE  /\ t \in Seq(S) /\ Len(s) \in Nat \ {0} /\ Len(t) = Len(s) - 1
         /\ Head(s) \in S /\ Head(s) = s[1]
         /\ \A i \in 1 .. Len(t) : t[i] = s[i + 1]
BY HeadTailProperties, EmptySeq

(* The elements that stay in a sequence keep their order, and only they do.   *)
LEMMA KeptElements ==
  ASSUME NEW S, NEW s \in Seq(S), NEW places \in SUBSET (1 .. Len(s)), NEW t, t = Kept(s, places)
  PROVE  /\ t \in Seq(S)
         /\ \E from \in [1 .. Len(t) -> places] :
              /\ \A k \in 1 .. Len(t) : t[k] = s[from[k]]
              /\ \A k, l \in 1 .. Len(t) : k < l => from[k] < from[l]
              /\ \A i \in places : \E k \in 1 .. Len(t) : from[k] = i
<1> DEFINE n == Cardinality(places)
           upto(i) == {j \in places : j <= i}
<1>1. Len(s) \in Nat /\ \A i \in places : i \in Nat /\ i \in 1 .. Len(s)
  BY LenProperties
<1>2. IsFiniteSet(places) /\ n \in Nat
  <2>1. IsFiniteSet(1 .. Len(s))
    BY <1>1, FS_Interval
  <2> QED  BY <2>1, FS_Subset, FS_CardinalityType
<1>3. \A i \in places : IsFiniteSet(upto(i)) /\ Cardinality(upto(i)) \in Nat /\ Cardinality(upto(i)) <= n
  BY <1>2, FS_Subset, FS_CardinalityType
<1>4. ASSUME NEW i \in places, NEW j \in places, i < j
      PROVE  Cardinality(upto(i)) < Cardinality(upto(j))
  <2>1. \A l \in places : l <= i => l <= j
    BY <1>1, <1>4
  <2>2. upto(i) \subseteq upto(j)
    BY <2>1, Zenon
  <2>3. j \in upto(j) /\ j \notin upto(i)
    BY <1>1, <1>4
  <2>4. upto(i) # upto(j)
    BY <2>3
  <2> HIDE DEF upto
  <2> QED  BY <1>3, <2>2, <2>4, FS_Subset
<1>5. ASSUME NEW i \in places PROVE Cardinality(upto(i)) \in 1 .. n
  <2>1. i \in upto(i)
    BY <1>1
  <2>2. Cardinality(upto(i)) # 0
    BY <1>3, <2>1, FS_EmptySet
  <2> HIDE DEF upto
  <2> QED  BY <1>2, <1>3, <2>2
<1> DEFINE rank == [i \in places |-> Cardinality(upto(i))]
<1>6. rank \in Injection(places, 1 .. n)
  <2>1. rank \in [places -> 1 .. n]
    BY <1>5
  <2>2. ASSUME NEW i \in places, NEW j \in places, rank[i] = rank[j] PROVE i = j
    <3>1. Cardinality(upto(i)) = Cardinality(upto(j))
      BY <2>2
    <3>2. Cardinality(upto(i)) \in Nat /\ Cardinality(upto(j)) \in Nat
      BY <1>3
    <3> HIDE DEF upto
    <3> QED  BY <1>1, <1>4, <3>1, <3>2
  <2> HIDE DEF rank
  <2> QED  BY <2>1, <2>2 DEF Injection, IsInjective
<1>7. rank \in Surjection(places, 1 .. n)
  <2>1. IsFiniteSet(1 .. n) /\ Cardinality(1 .. n) = n
    BY <1>2, FS_Interval
  <2> HIDE DEF rank
  <2> QED  BY <1>6, <2>1, FS_Injection
<1> DEFINE place(k) == CHOOSE i \in places : Rank(places, i) = k
<1>8. \A k \in 1 .. n : place(k) \in places /\ Cardinality(upto(place(k))) = k
  <2> SUFFICES ASSUME NEW k \in 1 .. n
               PROVE  place(k) \in places /\ Cardinality(upto(place(k))) = k
    OBVIOUS
  <2>1. \E i \in places : Rank(places, i) = k
    BY <1>7 DEF Surjection, Rank
  <2> QED  BY <2>1 DEF Rank
<1> DEFINE from == [k \in 1 .. n |-> place(k)]
<1>9. from \in [1 .. n -> places] /\ \A k \in 1 .. n : from[k] = place(k)
  BY <1>8
<1>10. t = [k \in 1 .. n |-> s[place(k)]]
  BY DEF Kept
<1>11. t \in Seq(S) /\ Len(t) = n /\ \A k \in 1 .. n : t[k] = s[from[k]]
  <2>1. \A k \in 1 .. n : s[place(k)] \in S
    BY <1>1, <1>8, ElementOfSeq
  <2> HIDE DEF place
  <2> QED  BY <1>2, <1>9, <1>10, <2>1
<1>12. ASSUME NEW k \in 1 .. n, NEW l \in 1 .. n, k < l PROVE from[k] < from[l]
  <2>1. from[k] \in places /\ from[l] \in places /\ Cardinality(upto(from[k])) = k /\ Cardinality(upto(from[l])) = l
    BY <1>8, <1>9
  <2> HIDE DEF from, upto
  <2>2. k \in Nat /\ l \in Nat /\ from[k] \in Nat /\ from[l] \in Nat
    <3>1. k \in Nat /\ l \in Nat
      BY <1>2
    <3>2. from[k] \in Nat /\ from[l] \in Nat
      BY <1>1, <2>1
    <3> QED  BY <3>1, <3>2
  <2>3. from[l] < from[k] => FALSE
    <3>1. from[l] < from[k] => Cardinality(upto(from[l])) < Cardinality(upto(from[k]))
      BY <1>4, <2>1
    <3> QED  BY <1>12, <2>1, <2>2, <3>1
  <2>4. from[k] # from[l]
    BY <1>12, <2>1, <2>2
  <2> QED  BY <2>2, <2>3, <2>4
<1>13. ASSUME NEW i \in places PROVE \E k \in 1 .. n : from[k] = i
  <2>1. rank[i] \in 1 .. n /\ rank[i] = Cardinality(upto(i))
    BY <1>5
  <2>2. from[rank[i]] \in places /\ Cardinality(upto(from[rank[i]])) = rank[i]
    BY <1>8, <1>9, <2>1, SMTT(40), ZenonT(60)
  <2>3. rank[from[rank[i]]] = rank[i]
    BY <2>2
  <2> HIDE DEF rank, from, upto
  <2>4. from[rank[i]] = i
    BY <1>6, <2>2, <2>3 DEF Injection, IsInjective
  <2> QED  BY <2>1, <2>4
<1> HIDE DEF from, n
<1> QED  BY SMTT(40), <1>9, <1>11, <1>12, <1>13

(* Where the elements that stay come from.                                 *)
KeptFrom(s, places, t, from) ==
  /\ from \in [1 .. Len(t) -> places]
  /\ \A k \in 1 .. Len(t) : t[k] = s[from[k]]
  /\ \A k, l \in 1 .. Len(t) : k < l => from[k] < from[l]
  /\ \A i \in places : \E k \in 1 .. Len(t) : from[k] = i

(* The elements that stay, as one fact.                                    *)
LEMMA KeptPlaces ==
  ASSUME NEW S, NEW s \in Seq(S), NEW places \in SUBSET (1 .. Len(s)), NEW t, t = Kept(s, places)
  PROVE  t \in Seq(S) /\ \E from : KeptFrom(s, places, t, from)
BY KeptElements, SMTT(40), ZenonT(60) DEF KeptFrom

(* Two sequences one after the other, element by element.                  *)
LEMMA ConcatElements ==
  ASSUME NEW S, NEW a \in Seq(S), NEW b \in Seq(S), NEW t, t = a \o b
  PROVE  /\ t \in Seq(S) /\ Len(t) = Len(a) + Len(b)
         /\ \A k \in 1 .. Len(a) + Len(b) : t[k] = IF k <= Len(a) THEN a[k] ELSE b[k - Len(a)]
BY ConcatProperties

(* A property of all that comes before holds everywhere: induction on the  *)
(* places of a sequence, or on the size of a set.                          *)
LEMMA Upwards ==
  ASSUME NEW n \in Nat, NEW T, 0 \in T, \A i \in 1 .. n : i - 1 \in T => i \in T
  PROVE  0 .. n \subseteq T
<1> DEFINE bad == {i \in 0 .. n : i \notin T}
<1>1. SUFFICES ASSUME bad # {} PROVE FALSE
  OBVIOUS
<1>2. \A i \in bad : i \in Nat
  OBVIOUS
<1> DEFINE k == Min(bad)
<1>3. k \in bad /\ \A i \in bad : k <= i
  <2> HIDE DEF bad
  <2> QED  BY <1>1, <1>2, MinIsMember
<1> HIDE DEF k
<1>4. k \in 1 .. n /\ k - 1 \in 0 .. n /\ ~(k <= k - 1)
  BY <1>3
<1> QED  BY <1>3, <1>4

=============================================================================
