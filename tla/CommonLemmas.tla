---------------------------- MODULE CommonLemmas ----------------------------
(***************************************************************************)
(* What the proofs share: sets of ids in ascending order, for sets of      *)
(* every size; lists of any elements; induction over a set of numbers,     *)
(* the form of it that the provers can use, and what follows from it:      *)
(* inference node by node, counts of elements, offsets of elements, and    *)
(* the soundness of inference: a graph that it accepts is evaluated; then  *)
(* types and values as the solutions of equations, one per node, and any   *)
(* set of scalars that the arithmetic stays in.  The scalar arithmetic is  *)
(* a parameter of which nothing is assumed.                                *)
(***************************************************************************)
EXTENDS TensorEval, AscendingIds, FiniteSetTheorems, SequenceTheorems, TLAPS

-----------------------------------------------------------------------------
(* Ranks: the renumbering that pruning is made of.                          *)

\* The rank of a member grows with the member, from 1 to the size of the set.
LEMMA RankMonotone ==
  ASSUME NEW S \in SUBSET Nat, IsFiniteSet(S), NEW i \in Nat, NEW j \in S
  PROVE  /\ Rank(S, i) \in Nat
         /\ Rank(S, j) \in 1 .. Cardinality(S)
         /\ i < j => Rank(S, i) < Rank(S, j)
<1> DEFINE upto(m) == {x \in S : x <= m}
<1>1. ASSUME NEW m \in Nat
      PROVE  /\ IsFiniteSet(upto(m))
             /\ Cardinality(upto(m)) \in Nat
             /\ Cardinality(upto(m)) <= Cardinality(S)
  BY FS_Subset, FS_CardinalityType
<1>2. Cardinality(S) \in Nat
  BY FS_CardinalityType
<1>3. Cardinality(upto(j)) # 0
  <2>1. j \in Nat /\ j <= j
    OBVIOUS
  <2>2. upto(j) # {}
    BY <2>1
  <2> QED
    BY <1>1, <2>1, <2>2, FS_EmptySet
<1>4. ASSUME i < j PROVE Cardinality(upto(i)) < Cardinality(upto(j))
  <2> j \in Nat
    OBVIOUS
  <2>1. ASSUME NEW x \in S, x <= i PROVE x <= j
    <3>1. x \in Nat
      OBVIOUS
    <3> QED
      BY <1>4, <2>1, <3>1
  <2>2. j \in upto(j) /\ j \notin upto(i) /\ upto(i) \in SUBSET upto(j)
    <3>1. j \in upto(j) /\ j \notin upto(i)
      BY <1>4
    <3>2. \A x \in upto(i) : x \in upto(j)
      BY <2>1
    <3> QED
      BY <3>1, <3>2
  <2>3. /\ Cardinality(upto(i)) <= Cardinality(upto(j))
        /\ Cardinality(upto(j)) = Cardinality(upto(i)) => upto(j) = upto(i)
    BY <1>1, <2>2, FS_Subset
  <2>4. Cardinality(upto(j)) # Cardinality(upto(i))
    BY <2>2, <2>3
  <2> QED
    BY <1>1, <2>3, <2>4
<1> QED
  BY <1>1, <1>2, <1>3, <1>4 DEF Rank

\* Members with the same rank are the same.
LEMMA RankInjective ==
  ASSUME NEW S \in SUBSET Nat, IsFiniteSet(S), NEW i \in S, NEW j \in S,
         Rank(S, i) = Rank(S, j)
  PROVE  i = j
<1>1. /\ Rank(S, i) \in Nat
      /\ Rank(S, j) \in Nat
      /\ i < j => Rank(S, i) < Rank(S, j)
      /\ j < i => Rank(S, j) < Rank(S, i)
  BY RankMonotone
<1> QED
  BY <1>1

\* Every number up to the size of the set is the rank of a member.
LEMMA RankOnto ==
  ASSUME NEW S \in SUBSET Nat, IsFiniteSet(S), NEW k \in 1 .. Cardinality(S)
  PROVE  \E i \in S : Rank(S, i) = k
<1> DEFINE n == Cardinality(S)
           f == [i \in S |-> Rank(S, i)]
<1>1. n \in Nat
  BY FS_CardinalityType
<1>2. f \in [S -> 1 .. n]
  BY RankMonotone
<1>3. f \in Injection(S, 1 .. n)
  BY <1>2, RankInjective DEF Injection, IsInjective
<1>4. IsFiniteSet(1 .. n) /\ Cardinality(1 .. n) = n
  BY <1>1, FS_Interval
<1>5. f \in Surjection(S, 1 .. n)
  BY <1>3, <1>4, FS_Injection
<1> QED
  BY <1>5 DEF Surjection

\* Ascending lists each member once, in order, at the place of its rank.
LEMMA AscendingLists ==
  ASSUME NEW S \in SUBSET Nat, IsFiniteSet(S)
  PROVE  /\ Ascending(S) \in [1 .. Cardinality(S) -> S]
         /\ \A k \in 1 .. Cardinality(S) : Rank(S, Ascending(S)[k]) = k
         /\ \A i \in S : Ascending(S)[Rank(S, i)] = i
<1>1. ASSUME NEW k \in 1 .. Cardinality(S)
      PROVE  Ascending(S)[k] \in S /\ Rank(S, Ascending(S)[k]) = k
  <2>1. \E i \in S : Rank(S, i) = k
    BY RankOnto
  <2> QED
    BY <2>1 DEF Ascending
<1>2. Ascending(S) \in [1 .. Cardinality(S) -> S]
  BY <1>1 DEF Ascending
<1>3. ASSUME NEW i \in S PROVE Ascending(S)[Rank(S, i)] = i
  <2> DEFINE r == Rank(S, i)
  <2>1. r \in 1 .. Cardinality(S)
    BY RankMonotone
  <2>2. Ascending(S)[r] \in S /\ Rank(S, Ascending(S)[r]) = r
    <3> HIDE DEF r
    <3> QED
      BY <1>1, <2>1
  <2>3. ASSUME NEW j \in S, Rank(S, j) = Rank(S, i) PROVE j = i
    BY <2>3, RankInjective
  <2> QED
    BY <2>2, <2>3
<1> QED
  BY <1>1, <1>2, <1>3

\* An increasing sequence is the ascending list of its elements.
LEMMA AscendingUnique ==
  ASSUME NEW s \in Seq(Nat),
         \A j, k \in DOMAIN s : j < k => s[j] < s[k]
  PROVE  /\ IsFiniteSet(Range(s))
         /\ Range(s) \in SUBSET Nat
         /\ s = Ascending(Range(s))
<1> DEFINE S == Range(s)
           n == Len(s)
<1>1. /\ n \in Nat
      /\ DOMAIN s = 1 .. n
      /\ s \in [1 .. n -> S]
      /\ S \in SUBSET Nat
      /\ \A x \in S : \E k \in 1 .. n : s[k] = x
  BY DEF Range
<1>2. ASSUME NEW j \in 1 .. n, NEW k \in 1 .. n, s[j] = s[k] PROVE j = k
  <2>1. /\ j < k => s[j] < s[k]
        /\ k < j => s[k] < s[j]
        /\ s[j] \in Nat
    BY <1>1
  <2> QED
    BY <1>1, <1>2, <2>1
<1>3. ASSUME NEW m \in 0 .. n
      PROVE  LET T == {s[j] : j \in 1 .. m}
             IN  IsFiniteSet(T) /\ Cardinality(T) = m
  <2> DEFINE T == {s[j] : j \in 1 .. m}
             f == [j \in 1 .. m |-> s[j]]
  <2>1. m \in Nat /\ IsFiniteSet(1 .. m) /\ Cardinality(1 .. m) = m
    BY <1>1, FS_Interval
  <2>2. f \in Bijection(1 .. m, T)
    <3>1. f \in [1 .. m -> T]
      OBVIOUS
    <3>2. \A t \in T : \E j \in 1 .. m : f[j] = t
      OBVIOUS
    <3>3. \A j, k \in 1 .. m : f[j] = f[k] => j = k
      BY <1>1, <1>2, <2>1
    <3> QED
      BY <3>1, <3>2, <3>3 DEF Bijection, Injection, IsInjective, Surjection
  <2> QED
    BY <2>1, <2>2, FS_Bijection DEF ExistsBijection
<1>4. S = {s[j] : j \in 1 .. n}
  BY <1>1
<1>5. IsFiniteSet(S) /\ Cardinality(S) = n
  <2>1. n \in 0 .. n
    BY <1>1
  <2> HIDE DEF S
  <2> QED
    BY <1>3, <1>4, <2>1
<1>6. ASSUME NEW k \in 1 .. n PROVE Rank(S, s[k]) = k
  <2>1. ASSUME NEW j \in 1 .. n PROVE s[j] <= s[k] <=> j <= k
    <3>1. /\ j < k => s[j] < s[k]
          /\ k < j => s[k] < s[j]
          /\ s[j] \in Nat /\ s[k] \in Nat
      BY <1>1
    <3> QED
      BY <1>1, <3>1
  <2>2. {x \in S : x <= s[k]} = {s[j] : j \in 1 .. k}
    <3>1. \A j \in 1 .. k : j \in 1 .. n
      BY <1>1
    <3>2. ASSUME NEW x \in S, x <= s[k] PROVE x \in {s[j] : j \in 1 .. k}
      <4>1. PICK j \in 1 .. n : s[j] = x
        BY <1>1
      <4>2. j \in 1 .. k
        BY <1>1, <2>1, <3>2, <4>1
      <4> QED
        BY <4>1, <4>2
    <3>3. ASSUME NEW j \in 1 .. k PROVE s[j] \in S /\ s[j] <= s[k]
      BY <1>1, <2>1, <3>1, SMTT(30)
    <3> QED
      BY <3>2, <3>3
  <2>3. k \in 0 .. n
    BY <1>1
  <2>4. Cardinality({s[j] : j \in 1 .. k}) = k
    BY <1>3, <2>3
  <2> QED
    BY <2>2, <2>4 DEF Rank
<1>7. ASSUME NEW k \in 1 .. n PROVE Ascending(S)[k] = s[k]
  <2>1. s[k] \in S /\ Rank(S, s[k]) = k
    BY <1>1, <1>6
  <2> QED
    BY <1>1, <1>5, <2>1, AscendingLists
<1>8. Ascending(S) \in [1 .. n -> S]
  BY <1>1, <1>5, AscendingLists
<1> HIDE DEF S
<1>9. Ascending(S) = s
  BY <1>1, <1>7, <1>8
<1> QED
  BY <1>1, <1>5, <1>9 DEF S

\* Ascending lists are increasing sequences of the members.
LEMMA AscendingIncreases ==
  ASSUME NEW S \in SUBSET Nat, IsFiniteSet(S)
  PROVE  /\ Ascending(S) \in Seq(Nat)
         /\ Range(Ascending(S)) = S
         /\ \A j, k \in DOMAIN Ascending(S) :
               j < k => Ascending(S)[j] < Ascending(S)[k]
<1> DEFINE A == Ascending(S)
           n == Cardinality(S)
<1>1. n \in Nat
  BY FS_CardinalityType
<1>2. /\ A \in [1 .. n -> S]
      /\ \A k \in 1 .. n : Rank(S, A[k]) = k
      /\ \A i \in S : A[Rank(S, i)] = i
  BY AscendingLists
<1>3. \A i \in S : Rank(S, i) \in 1 .. n
  BY RankMonotone
<1> HIDE DEF A, n
<1>4. A \in Seq(Nat) /\ DOMAIN A = 1 .. n
  <2>1. A \in [1 .. n -> Nat]
    BY <1>2
  <2>2. DOMAIN A = 1 .. n
    BY <1>2
  <2>3. A \in Seq(Nat)
    BY <1>1, <2>1
  <2> QED
    BY <2>2, <2>3
<1>5. Range(A) = S
  BY <1>2, <1>3, <1>4, ZenonT(30) DEF Range
<1>6. ASSUME NEW j \in 1 .. n, NEW k \in 1 .. n, j < k PROVE A[j] < A[k]
  <2>1. A[j] \in S /\ A[k] \in S /\ A[j] \in Nat /\ A[k] \in Nat
    BY <1>2
  <2>2. A[k] < A[j] => Rank(S, A[k]) < Rank(S, A[j])
    BY <2>1, RankMonotone
  <2>3. Rank(S, A[j]) = j /\ Rank(S, A[k]) = k
    BY <1>2
  <2> QED
    BY <1>1, <1>6, <2>1, <2>2, <2>3
<1> QED
  BY <1>4, <1>5, <1>6 DEF A

-----------------------------------------------------------------------------
(* Lists, of whatever they are.                                             *)
IsList(s) == \E n \in Nat : s = [i \in 1 .. n |-> s[i]]

\* A list has its length as its domain, and grows at its end.
LEMMA Lists ==
  ASSUME NEW s, IsList(s)
  PROVE  Len(s) \in Nat /\ DOMAIN s = 1 .. Len(s)
<1>1. PICK n \in Nat : s = [i \in 1 .. n |-> s[i]]
  BY DEF IsList
<1> DEFINE S == {s[i] : i \in 1 .. n}
<1>2. s \in [1 .. n -> S]
  BY <1>1
<1> HIDE DEF S
<1>3. s \in Seq(S) /\ Len(s) = n
  BY <1>2
<1> QED
  BY <1>1, <1>3

\* Appending to a list.
LEMMA AppendToList ==
  ASSUME NEW s, IsList(s), NEW e
  PROVE  /\ IsList(Append(s, e))
         /\ Len(Append(s, e)) = Len(s) + 1
         /\ \A i \in 1 .. Len(s) : Append(s, e)[i] = s[i]
         /\ Append(s, e)[Len(s) + 1] = e
<1>1. PICK n \in Nat : s = [i \in 1 .. n |-> s[i]]
  BY DEF IsList
<1> DEFINE S == {s[i] : i \in 1 .. n} \cup {e}
<1>2. s \in [1 .. n -> S] /\ e \in S
  BY <1>1
<1> HIDE DEF S
<1>3. s \in Seq(S) /\ Len(s) = n
  BY <1>2
<1>4. /\ Append(s, e) \in Seq(S)
      /\ Len(Append(s, e)) = n + 1
      /\ \A i \in 1 .. n : Append(s, e)[i] = s[i]
      /\ Append(s, e)[n + 1] = e
  BY <1>2, <1>3, AppendProperties
<1>5. IsList(Append(s, e))
  BY <1>4, SMTT(30) DEF IsList
<1> QED
  BY <1>3, <1>4, <1>5

\* A list of elements of S is a sequence over S.
LEMMA ListInSeq ==
  ASSUME NEW s, IsList(s), NEW S, \A i \in 1 .. Len(s) : s[i] \in S
  PROVE  s \in Seq(S)
<1>1. PICK n \in Nat : s = [i \in 1 .. n |-> s[i]]
  BY DEF IsList
<1>2. Len(s) \in Nat /\ DOMAIN s = 1 .. Len(s)
  BY Lists
<1>3. n = Len(s)
  BY <1>1, <1>2
<1>4. s \in [1 .. n -> S]
  BY <1>1, <1>3
<1> QED
  BY <1>4

\* A sequence is a list.
LEMMA SeqIsList ==
  ASSUME NEW S, NEW s \in Seq(S)
  PROVE  IsList(s)
BY DEF IsList

\* One list after another.
LEMMA ConcatLists ==
  ASSUME NEW s, IsList(s), NEW t, IsList(t)
  PROVE  /\ IsList(s \o t)
         /\ Len(s \o t) = Len(s) + Len(t)
         /\ \A i \in 1 .. Len(s) : (s \o t)[i] = s[i]
         /\ \A i \in 1 .. Len(t) : (s \o t)[Len(s) + i] = t[i]
<1> DEFINE S == {s[i] : i \in 1 .. Len(s)} \cup {t[i] : i \in 1 .. Len(t)}
<1>1. Len(s) \in Nat /\ Len(t) \in Nat
  BY Lists
<1>2. /\ \A i \in 1 .. Len(s) : s[i] \in S
      /\ \A i \in 1 .. Len(t) : t[i] \in S
  OBVIOUS
<1> HIDE DEF S
<1>3. s \in Seq(S) /\ t \in Seq(S)
  BY <1>2, ListInSeq
<1>4. /\ s \o t \in Seq(S)
      /\ Len(s \o t) = Len(s) + Len(t)
      /\ \A i \in 1 .. Len(s) + Len(t) :
            (s \o t)[i] = IF i <= Len(s) THEN s[i] ELSE t[i - Len(s)]
  BY <1>3, ConcatProperties
<1>5. IsList(s \o t)
  BY <1>4, SeqIsList
<1> QED
  BY <1>1, <1>4, <1>5

\* What is in a concatenation was in one of its parts.
LEMMA ConcatElements ==
  ASSUME NEW s, IsList(s), NEW t, IsList(t), NEW i \in DOMAIN (s \o t)
  PROVE  \/ \E j \in DOMAIN s : (s \o t)[i] = s[j]
         \/ \E j \in DOMAIN t : (s \o t)[i] = t[j]
<1> DEFINE c == s \o t
<1>1. /\ IsList(c) /\ Len(c) = Len(s) + Len(t)
      /\ \A k \in 1 .. Len(s) : c[k] = s[k]
      /\ \A k \in 1 .. Len(t) : c[Len(s) + k] = t[k]
  BY ConcatLists
<1> HIDE DEF c
<1>2. /\ Len(s) \in Nat /\ DOMAIN s = 1 .. Len(s)
      /\ Len(t) \in Nat /\ DOMAIN t = 1 .. Len(t)
      /\ DOMAIN c = 1 .. Len(c)
  BY <1>1, Lists
<1>3. i \in 1 .. Len(c)
  BY <1>2 DEF c
<1>4. CASE i \in 1 .. Len(s)
  BY <1>1, <1>2, <1>4 DEF c
<1>5. CASE i \notin 1 .. Len(s)
  <2>1. i - Len(s) \in DOMAIN t /\ Len(s) + (i - Len(s)) = i
    BY <1>1, <1>2, <1>3, <1>5
  <2>2. c[Len(s) + (i - Len(s))] = t[i - Len(s)]
    BY <1>1, <1>2, <2>1
  <2>3. c[i] = t[i - Len(s)]
    BY <2>1, <2>2
  <2> QED
    BY <2>1, <2>3 DEF c
<1> QED
  BY <1>4, <1>5

\* A part of a list.
LEMMA SubList ==
  ASSUME NEW s, IsList(s), NEW m \in 1 .. Len(s) + 1, NEW n \in (m - 1) .. Len(s)
  PROVE  /\ IsList(SubSeq(s, m, n))
         /\ Len(SubSeq(s, m, n)) = n - m + 1
         /\ \A i \in 1 .. n - m + 1 : SubSeq(s, m, n)[i] = s[m + i - 1]
<1> DEFINE S == {s[i] : i \in 1 .. Len(s)}
<1>1. Len(s) \in Nat
  BY Lists
<1>2. m \in Int /\ n \in Int /\ \A i \in m .. n : s[i] \in S
  BY <1>1
<1> HIDE DEF S
<1>3. /\ SubSeq(s, m, n) \in Seq(S)
      /\ Len(SubSeq(s, m, n)) = IF m <= n THEN n - m + 1 ELSE 0
      /\ \A i \in 1 .. n - m + 1 : SubSeq(s, m, n)[i] = s[m + i - 1]
  BY <1>2, SubSeqProperties
<1>4. Len(SubSeq(s, m, n)) = n - m + 1
  BY <1>1, <1>3
<1> QED
  BY <1>3, <1>4, SeqIsList

-----------------------------------------------------------------------------
(* Induction over a set of numbers: sets of numbers are ordered by strict   *)
(* inclusion of the intervals below them.                                   *)
LEMMA SetInduction ==
  ASSUME NEW S, 0 \in S, \A n \in Nat : n \in S => n + 1 \in S
  PROVE  \A n \in Nat : n \in S
<1> DEFINE R == StrictSubsetOrdering(Nat)
           T == {1 .. n : n \in Nat \ S}
<1>1. IsWellFoundedOn(R, FiniteSubsetsOf(Nat))
  BY FS_StrictSubsetOrderingWellFounded
<1>2. T \subseteq FiniteSubsetsOf(Nat)
  <2>1. ASSUME NEW n \in Nat
        PROVE  1 .. n \in FiniteSubsetsOf(Nat)
    <3>1. IsFiniteSet(1 .. n) /\ 1 .. n \in SUBSET Nat
      BY FS_Interval
    <3>. QED
      BY <3>1 DEF FiniteSubsetsOf
  <2>. QED
    BY <2>1
<1>3. ASSUME T # {} PROVE FALSE
  <2> HIDE DEF R, T
  <2>1. PICK x \in T : \A y \in T : ~ (<<y, x>> \in R)
    BY <1>1, <1>2, <1>3, WFMin
  <2>2. PICK n \in Nat \ S : x = 1 .. n
    BY DEF T
  <2>3. n # 0 /\ n - 1 \in Nat /\ n - 1 \in Nat \ S
    BY <2>2
  <2>4. <<1 .. (n - 1), 1 .. n>> \in R
    <3>1. /\ 1 .. (n - 1) \in SUBSET Nat /\ 1 .. n \in SUBSET Nat
          /\ 1 .. (n - 1) \subseteq 1 .. n
      BY <2>3
    <3>2. n \in 1 .. n /\ n \notin 1 .. (n - 1)
      BY <2>3
    <3>. QED
      BY <3>1, <3>2, Zenon DEF R, StrictSubsetOrdering
  <2>5. 1 .. (n - 1) \in T
    BY <2>3 DEF T
  <2>. QED
    BY <2>1, <2>2, <2>4, <2>5
<1> QED
  BY <1>3

\* A set of numbers with a bound has a greatest member.
LEMMA BoundedHasMax ==
  ASSUME NEW N \in Nat, NEW S \in SUBSET (0 .. N), S # {}
  PROVE  \E x \in S : \A y \in S : x >= y
<1> DEFINE Good(n) == \A T \in SUBSET (0 .. n) : T # {} => \E x \in T : \A y \in T : x >= y
           G == {n \in Nat : Good(n)}
<1>1. 0 \in G
  <2>1. ASSUME NEW T \in SUBSET (0 .. 0), T # {}
        PROVE  \E x \in T : \A y \in T : x >= y
    <3>1. \A y \in T : y = 0
      BY <2>1
    <3>2. PICK x \in T : TRUE
      BY <2>1
    <3>. QED
      BY <3>1, <3>2
  <2>. QED
    BY <2>1
<1>2. ASSUME NEW n \in Nat, n \in G
      PROVE  n + 1 \in G
  <2> SUFFICES ASSUME NEW T \in SUBSET (0 .. (n + 1)), T # {}
               PROVE  \E x \in T : \A y \in T : x >= y
    OBVIOUS
  <2>1. CASE n + 1 \in T
    BY <2>1
  <2>2. CASE n + 1 \notin T
    <3>1. T \in SUBSET (0 .. n)
      BY <2>2
    <3>. QED
      BY <1>2, <3>1
  <2>. QED
    BY <2>1, <2>2
<1>3. N \in G
  <2> HIDE DEF G
  <2>. QED
    BY <1>1, <1>2, SetInduction
<1> QED
  BY <1>3

\* And, when it is not empty, a least one.
LEMMA HasMin ==
  ASSUME NEW S \in SUBSET Nat, NEW z \in S
  PROVE  \E x \in S : \A y \in S : x <= y
<1> DEFINE T == {x \in 0 .. z : \A y \in S : x <= y}
<1>1. z \in Nat /\ 0 \in T
  OBVIOUS
<1>2. PICK m \in T : \A y \in T : m >= y
  <2>1. T \in SUBSET (0 .. z) /\ T # {}
    BY <1>1
  <2> HIDE DEF T
  <2> QED
    BY <1>1, <2>1, BoundedHasMax
<1>3. m \in S
  <2>1. CASE m \notin S
    <3>1. \A y \in S : y \in Nat /\ m <= y /\ m # y /\ m \in Nat
      BY <1>2, <2>1
    <3>2. \A y \in S : m + 1 <= y
      BY <3>1
    <3>3. m + 1 \in T
      BY <1>1, <3>1, <3>2
    <3> QED
      BY <1>2, <3>1, <3>3
  <2> QED
    BY <2>1
<1> QED
  BY <1>2, <1>3

-----------------------------------------------------------------------------
(* Graphs: validation, and type inference node by node.                     *)

\* A graph that is not valid has an error with a name.
LEMMA StructureErrorNamed ==
  ASSUME NEW g, Len(g.nodes) \in Nat, ~ Valid(g)
  PROVE  StructureError(g) # "None"
<1> DEFINE bad == {i \in Ids(g) : ConstError(g.nodes[i]) # "None"}
           badConst == CHOOSE i \in Ids(g) :
                         /\ ConstError(g.nodes[i]) # "None"
                         /\ \A j \in 1 .. (i - 1) : ConstError(g.nodes[j]) = "None"
<1>1. ASSUME ~ ConstsFit(g)
      PROVE  ConstError(g.nodes[badConst]) # "None"
  <2>1. PICK z \in bad : TRUE
    BY <1>1 DEF ConstsFit
  <2>2. PICK x \in bad : \A y \in bad : x <= y
    <3>1. bad \in SUBSET Nat
      BY DEF Ids
    <3> HIDE DEF bad
    <3> QED
      BY <2>1, <3>1, HasMin
  <2>3. \A j \in 1 .. (x - 1) : ConstError(g.nodes[j]) = "None"
    <3>1. \A j \in 1 .. (x - 1) : j \in Ids(g) /\ ~ (x <= j)
      BY DEF Ids
    <3> QED
      BY <2>2, <3>1
  <2> QED
    BY <2>2, <2>3
<1> HIDE DEF badConst
<1> QED
  BY <1>1 DEF Valid, StructureError, badConst

\* Inference, as a recursion over the nodes.
LEMMA InferencesDef ==
  ASSUME NEW g, Len(g.nodes) \in Nat
  PROVE  Inferences(g) =
           [n \in 0 .. Len(g.nodes) |->
              IF n = 0 THEN [err |-> "None", types |-> << >>]
              ELSE InferNext(Inferences(g)[n - 1], g.nodes[n])]
<1> DEFINE N == Len(g.nodes)
           start == [err |-> "None", types |-> << >>]
           Upto(m, f) == f = [n \in 0 .. m |-> IF n = 0 THEN start
                                               ELSE InferNext(f[n - 1], g.nodes[n])]
           S == {m \in Nat : \E f : Upto(m, f)}
<1>1. Inferences(g) = CHOOSE f : Upto(N, f)
  BY DEF Inferences
<1> HIDE DEF start
<1>2. 0 \in S
  <2> DEFINE f == [n \in 0 .. 0 |-> start]
  <2>1. Upto(0, f)
    OBVIOUS
  <2> QED
    BY <2>1
<1>3. ASSUME NEW m \in Nat, m \in S
      PROVE  m + 1 \in S
  <2>1. PICK f : Upto(m, f)
    BY <1>3
  <2> DEFINE h == [n \in 0 .. (m + 1) |-> IF n = m + 1 THEN InferNext(f[m], g.nodes[n])
                                                       ELSE f[n]]
  <2>2. ASSUME NEW n \in 0 .. (m + 1)
        PROVE  h[n] = IF n = 0 THEN start ELSE InferNext(h[n - 1], g.nodes[n])
    <3>1. CASE n = 0
      BY <2>1, <3>1
    <3>2. CASE n = m + 1
      BY <3>2
    <3>3. CASE n # 0 /\ n # m + 1
      <4>1. n \in 0 .. m /\ n - 1 \in 0 .. m
        BY <3>3
      <4>2. h[n] = f[n] /\ h[n - 1] = f[n - 1]
        BY <4>1, <3>3
      <4>3. f[n] = InferNext(f[n - 1], g.nodes[n])
        BY <2>1, <4>1, <3>3
      <4> QED
        BY <4>2, <4>3, <3>3
    <3> QED
      BY <3>1, <3>2, <3>3
  <2>3. Upto(m + 1, h)
    <3> HIDE DEF h
    <3>1. h = [n \in 0 .. (m + 1) |-> h[n]]
      BY DEF h
    <3> QED
      BY <2>2, <3>1
  <2> HIDE DEF Upto, h
  <2> QED
    BY <2>3
<1>4. N \in S
  <2> HIDE DEF S
  <2> QED
    BY <1>2, <1>3, SetInduction
<1>5. Upto(N, Inferences(g))
  BY <1>1, <1>4
<1> QED
  BY <1>5 DEF start

\* A state of inference.
IsInference(acc) == \E err, types : acc = [err |-> err, types |-> types]

\* What a type adds to a state of inference: itself, or its error.
LEMMA TypedOf ==
  ASSUME NEW e, NEW ty, NEW t
  PROVE  Typed([err |-> e, types |-> ty], t) =
           IF e # "None" THEN [err |-> e, types |-> ty]
           ELSE IF t.err # "None" THEN [err |-> t.err, types |-> ty]
           ELSE [err |-> e, types |-> Append(ty, t)]
BY SMTT(30) DEF Typed

\* The same, of states.
LEMMA TypedIs ==
  ASSUME NEW acc, IsInference(acc), NEW t
  PROVE  LET next == Typed(acc, t)
         IN  /\ IsInference(next)
             /\ acc.err # "None" => next = acc
             /\ acc.err = "None" /\ t.err # "None" =>
                   next.err = t.err /\ next.types = acc.types
             /\ acc.err = "None" /\ t.err = "None" =>
                   next.err = "None" /\ next.types = Append(acc.types, t)
<1>1. PICK e, ty : acc = [err |-> e, types |-> ty]
  BY DEF IsInference
<1>2. acc.err = e /\ acc.types = ty
  BY <1>1
<1>3. Typed(acc, t) = IF e # "None" THEN acc
                      ELSE IF t.err # "None" THEN [err |-> t.err, types |-> ty]
                      ELSE [err |-> e, types |-> Append(ty, t)]
  BY <1>1, TypedOf
<1>4. \A x, y : IsInference([err |-> x, types |-> y])
  BY DEF IsInference
<1> QED
  BY <1>1, <1>2, <1>3, <1>4

\* A sum has the shape of a tensor.
LEMMA ReducedShapeIsShape ==
  ASSUME NEW shape \in Seq(Nat), NEW axes, NEW keepdim \in BOOLEAN
  PROVE  ReducedShape(shape, axes, keepdim) \in Seq(Nat)
<1> DEFINE K == {a \in DOMAIN shape : a \notin Range(axes)}
           n == Len(shape)
<1>1. n \in Nat /\ DOMAIN shape = 1 .. n
  OBVIOUS
<1>2. K \in SUBSET Nat /\ IsFiniteSet(K)
  <2>1. IsFiniteSet(1 .. n) /\ K \in SUBSET (1 .. n)
    BY <1>1, FS_Interval
  <2>2. IsFiniteSet(K)
    BY <2>1, FS_Subset
  <2> QED
    BY <2>1, <2>2
<1>3. CASE keepdim
  <2> DEFINE f == [a \in DOMAIN shape |-> IF a \in K THEN shape[a] ELSE 1]
  <2>1. ReducedShape(shape, axes, keepdim) = f
    BY <1>3 DEF ReducedShape
  <2>2. f \in [1 .. n -> Nat]
    BY <1>1
  <2> QED
    BY <1>1, <2>1, <2>2
<1>4. CASE ~ keepdim
  <2> DEFINE axis(k) == CHOOSE a \in K : Cardinality({b \in K : b <= a}) = k
             f == [k \in 1 .. Cardinality(K) |-> shape[axis(k)]]
  <2>1. ReducedShape(shape, axes, keepdim) = f
    BY <1>4 DEF ReducedShape
  <2>2. ASSUME NEW k \in 1 .. Cardinality(K)
        PROVE  shape[axis(k)] \in Nat
    <3> HIDE DEF K
    <3>1. \E a \in K : Cardinality({b \in K : b <= a}) = k
      BY <1>2, RankOnto DEF Rank
    <3>2. axis(k) \in K
      BY <3>1
    <3> HIDE DEF axis
    <3>3. axis(k) \in DOMAIN shape
      BY <3>2 DEF K
    <3> QED
      BY <3>3
  <2> HIDE DEF axis
  <2>3. Cardinality(K) \in Nat
    BY <1>2, FS_CardinalityType
  <2>4. f \in [1 .. Cardinality(K) -> Nat]
    BY <2>2
  <2> HIDE DEF f, K
  <2> QED
    BY <2>1, <2>3, <2>4
<1> QED
  BY <1>3, <1>4

\* What is inferred of a node depends on the nodes up to it only.
LEMMA SameInferences ==
  ASSUME NEW g, Len(g.nodes) \in Nat, NEW h, Len(h.nodes) \in Nat,
         NEW N \in Nat, N <= Len(g.nodes), N <= Len(h.nodes),
         \A i \in 1 .. N : g.nodes[i] = h.nodes[i]
  PROVE  Inferences(g)[N] = Inferences(h)[N]
<1> DEFINE f == Inferences(g)
           e == Inferences(h)
           S == {n \in Nat : n <= N => f[n] = e[n]}
<1>1. /\ f = [n \in 0 .. Len(g.nodes) |->
                IF n = 0 THEN [err |-> "None", types |-> << >>]
                         ELSE InferNext(f[n - 1], g.nodes[n])]
      /\ e = [n \in 0 .. Len(h.nodes) |->
                IF n = 0 THEN [err |-> "None", types |-> << >>]
                         ELSE InferNext(e[n - 1], h.nodes[n])]
  BY InferencesDef
<1> HIDE DEF f, e
<1>2. 0 \in S
  BY <1>1
<1>3. ASSUME NEW n \in Nat, n \in S
      PROVE  n + 1 \in S
  <2> SUFFICES ASSUME n + 1 <= N
               PROVE  f[n + 1] = e[n + 1]
    OBVIOUS
  <2>1. f[n] = e[n] /\ g.nodes[n + 1] = h.nodes[n + 1]
    BY <1>3
  <2>2. /\ n + 1 \in 0 .. Len(g.nodes) /\ n + 1 \in 0 .. Len(h.nodes)
        /\ n + 1 # 0 /\ (n + 1) - 1 = n
    OBVIOUS
  <2>3. f[n + 1] = InferNext(f[n], g.nodes[n + 1])
    BY <1>1, <2>2
  <2>4. e[n + 1] = InferNext(e[n], h.nodes[n + 1])
    BY <1>1, <2>2
  <2> QED
    BY <2>1, <2>3, <2>4
<1>4. N \in S
  <2> HIDE DEF S
  <2> QED
    BY <1>2, <1>3, SetInduction
<1> QED
  BY <1>4 DEF f, e

\* The inference of a graph goes on with a node that is pushed.
LEMMA PushInfers ==
  ASSUME NEW g, IsList(g.nodes), NEW node
  PROVE  LET h == Push(g, node)
         IN  Inferences(h)[Len(h.nodes)] =
               InferNext(Inferences(g)[Len(g.nodes)], node)
<1> DEFINE h == Push(g, node)
           N == Len(g.nodes)
<1>1. h.nodes = Append(g.nodes, node)
  BY DEF Push
<1> HIDE DEF h
<1>2. /\ Len(h.nodes) = N + 1 /\ N \in Nat
      /\ \A i \in 1 .. N : h.nodes[i] = g.nodes[i]
      /\ h.nodes[N + 1] = node
  BY <1>1, AppendToList, Lists
<1>3. Inferences(g)[N] = Inferences(h)[N]
  <2>1. /\ Len(g.nodes) \in Nat /\ Len(h.nodes) \in Nat
        /\ N \in Nat /\ N <= Len(g.nodes) /\ N <= Len(h.nodes)
        /\ \A i \in 1 .. N : g.nodes[i] = h.nodes[i]
    BY <1>2
  <2> HIDE DEF N
  <2> QED
    BY <2>1, SameInferences
<1>4. Inferences(h)[N + 1] = InferNext(Inferences(h)[N], h.nodes[N + 1])
  <2>1. N + 1 \in 0 .. Len(h.nodes) /\ N + 1 # 0 /\ (N + 1) - 1 = N
    BY <1>2
  <2> DEFINE f == Inferences(h)
  <2>2. f = [n \in 0 .. Len(h.nodes) |->
               IF n = 0 THEN [err |-> "None", types |-> << >>]
                        ELSE InferNext(f[n - 1], h.nodes[n])]
    BY <1>2, InferencesDef
  <2> HIDE DEF f
  <2>3. f[N + 1] = InferNext(f[N], h.nodes[N + 1])
    BY <2>1, <2>2
  <2> QED
    BY <2>3 DEF f
<1> QED
  BY <1>2, <1>3, <1>4 DEF h

\* What infer_types starts from.
LEMMA NothingInferred ==
  ASSUME NEW g, Len(g.nodes) \in Nat
  PROVE  Inferences(g)[0] = [err |-> "None", types |-> << >>]
<1> DEFINE f == Inferences(g)
<1>1. f = [n \in 0 .. Len(g.nodes) |->
             IF n = 0 THEN [err |-> "None", types |-> << >>]
                      ELSE InferNext(f[n - 1], g.nodes[n])]
  BY InferencesDef
<1> HIDE DEF f
<1>2. f[0] = [err |-> "None", types |-> << >>]
  BY <1>1
<1> QED
  BY <1>2 DEF f

-----------------------------------------------------------------------------
(* Type inference: every node that it types fits its operation.             *)
\* What inference promises of a node's type and of its operands'.
TypeFits(node, shape, shapes) ==
  /\ shape \in Seq(Nat)
  /\ node.op = "Matmul" =>
        /\ shapes[1] \in Seq(Nat) /\ Len(shapes[1]) = 2
        /\ shapes[2] \in Seq(Nat) /\ Len(shapes[2]) = 2
  /\ node.op = "Sum" =>
        /\ shapes[1] \in Seq(Nat)
        /\ shape = ReducedShape(shapes[1], node.attr.axes, node.attr.keepdim)

Operations == {"Input", "Const", "Sum", "Reshape"} \cup BinaryOps \cup UnaryOps

ShapesOf(node, types) == [k \in DOMAIN node.args |-> types[node.args[k]].shape]

\* Every node typed so far has the type of its operation.
Typing(g, types) ==
  /\ IsList(types) /\ Len(types) <= Len(g.nodes)
  /\ \A i \in 1 .. Len(types) :
        /\ types[i] = InferNode(g.nodes[i], types) /\ types[i].err = "None"
        /\ TypeFits(g.nodes[i], types[i].shape, ShapesOf(g.nodes[i], types))

\* What the structure of a graph promises of its nodes.
NodesFit(g) ==
  /\ Len(g.nodes) \in Nat
  /\ \A i \in Ids(g) :
        /\ g.nodes[i].op \in Operations
        /\ g.nodes[i].args \in Seq(Nat)
        /\ Len(g.nodes[i].args) = Arity(g.nodes[i].op)
        /\ \A k \in DOMAIN g.nodes[i].args : g.nodes[i].args[k] \in 1 .. (i - 1)
        /\ AttrFits(g.nodes[i])

\* A valid graph whose attributes fit is one that inference is about.
LEMMA FitsOver ==
  ASSUME NEW attrs, NEW g \in GraphsOver(attrs), Valid(g),
         \A i \in Ids(g) : AttrFits(g.nodes[i])
  PROVE  NodesFit(g)
<1>1. ASSUME NEW i \in Ids(g)
      PROVE  /\ g.nodes[i].op \in Operations
             /\ g.nodes[i].args \in Seq(Nat)
             /\ Len(g.nodes[i].args) = Arity(g.nodes[i].op)
  <2>1. g.nodes[i] \in NodesOver(attrs)
    BY DEF GraphsOver, Ids
  <2> QED
    BY <2>1 DEF NodesOver, Operations
<1>2. ASSUME NEW i \in Ids(g), NEW k \in DOMAIN g.nodes[i].args
      PROVE  g.nodes[i].args[k] \in 1 .. (i - 1)
  BY DEF Valid, OperandsEarlier, Operands, Range
<1>3. Len(g.nodes) \in Nat
  BY DEF GraphsOver
<1> QED
  BY <1>1, <1>2, <1>3 DEF NodesFit

\* So a graph of the model's is.
LEMMA ValidNodesFit ==
  ASSUME NEW g, IsGraph(g), Valid(g)
  PROVE  NodesFit(g)
BY FitsOver DEF IsGraph

\* A type that inference gives without an error fits its node.
LEMMA InferNodeFits ==
  ASSUME NEW node, node.op \in Operations, node.args \in Seq(Nat),
         Len(node.args) = Arity(node.op), AttrFits(node),
         NEW types, \A k \in DOMAIN node.args : /\ node.args[k] \in DOMAIN types
                                                /\ types[node.args[k]].shape \in Seq(Nat),
         InferNode(node, types).err = "None"
  PROVE  TypeFits(node, InferNode(node, types).shape, ShapesOf(node, types))
<1> DEFINE t == InferNode(node, types)
           l == types[node.args[1]]
           r == types[node.args[2]]
           shapes == ShapesOf(node, types)
<1> SUFFICES TypeFits(node, t.shape, shapes)
  OBVIOUS
<1>1. ~ (\E k \in DOMAIN node.args : node.args[k] \notin DOMAIN types) /\ t.err = "None"
  OBVIOUS
<1>2. \A kind : TypeErr(kind).err = kind
  BY DEF TypeErr
<1>3. \A dtype, shape : TypeOf(dtype, shape).shape = shape
  BY DEF TypeOf
<1>4. ASSUME Arity(node.op) \in {1, 2}
      PROVE  shapes[1] = l.shape /\ l.shape \in Seq(Nat)
  BY <1>4 DEF ShapesOf
<1>5. ASSUME Arity(node.op) = 2
      PROVE  shapes[2] = r.shape /\ r.shape \in Seq(Nat)
  BY <1>5 DEF ShapesOf
<1> HIDE DEF t, shapes, l, r
<1>6. CASE node.op \in {"Input", "Const"}
  <2>1. t = TypeOf(node.attr.dtype, node.attr.shape)
    BY <1>1, <1>6 DEF InferNode, t, UnaryOps
  <2> QED
    BY <1>3, <1>6, <2>1 DEF TypeFits, AttrFits
<1>7. CASE node.op \in {"Add", "Sub", "Mul"}
  <2>1. t = InferElementwise(l, r)
    BY <1>1, <1>7 DEF InferNode, t, l, r, UnaryOps
  <2>2. t = l
    BY <1>1, <1>2, <2>1 DEF InferElementwise
  <2>3. Arity(node.op) = 2
    BY <1>7 DEF Arity, UnaryOps, BinaryOps
  <2> QED
    BY <1>4, <1>7, <2>2, <2>3 DEF TypeFits
<1>8. CASE node.op \in UnaryOps
  <2>1. t = InferUnary(l)
    BY <1>1, <1>8 DEF InferNode, t, l, UnaryOps
  <2>2. t = l
    BY <1>1, <1>2, <2>1 DEF InferUnary
  <2>3. Arity(node.op) = 1
    BY <1>8 DEF Arity, UnaryOps, BinaryOps
  <2> QED
    BY <1>4, <1>8, <2>2, <2>3 DEF TypeFits, UnaryOps
<1>9. CASE node.op = "Matmul"
  <2>1. t = InferMatmul(l, r)
    BY <1>1, <1>9 DEF InferNode, t, l, r, UnaryOps
  <2>2. /\ Len(l.shape) = 2 /\ Len(r.shape) = 2
        /\ t = TypeOf(l.dtype, <<l.shape[1], r.shape[2]>>)
    BY <1>1, <1>2, <2>1 DEF InferMatmul
  <2>3. Arity(node.op) = 2
    BY <1>9 DEF Arity, UnaryOps, BinaryOps
  <2>4. l.shape[1] \in Nat /\ r.shape[2] \in Nat
    BY <1>4, <1>5, <2>2, <2>3, SMTT(30)
  <2>5. \A m, n \in Nat : <<m, n>> \in Seq(Nat)
    OBVIOUS
  <2>6. t.shape \in Seq(Nat)
    <3>1. t.shape = <<l.shape[1], r.shape[2]>>
      BY <1>3, <2>2
    <3>2. <<l.shape[1], r.shape[2]>> \in Seq(Nat)
      BY <2>4, <2>5
    <3> QED
      BY <3>1, <3>2
  <2> QED
    BY <1>4, <1>5, <1>9, <2>2, <2>3, <2>6 DEF TypeFits
<1>10. CASE node.op = "Sum"
  <2>1. t = InferSum(l, node.attr.axes, node.attr.keepdim)
    BY <1>1, <1>10 DEF InferNode, t, l, UnaryOps
  <2>2. t = TypeOf(l.dtype, ReducedShape(l.shape, node.attr.axes, node.attr.keepdim))
    BY <1>1, <1>2, <2>1 DEF InferSum
  <2>3. Arity(node.op) = 1
    BY <1>10 DEF Arity, UnaryOps, BinaryOps
  <2>4. t.shape \in Seq(Nat)
    BY <1>3, <1>4, <1>10, <2>2, <2>3, ReducedShapeIsShape DEF AttrFits
  <2> QED
    BY <1>3, <1>4, <1>10, <2>2, <2>3, <2>4 DEF TypeFits
<1>11. CASE node.op = "Reshape"
  <2>1. t = InferReshape(l, node.attr.shape)
    BY <1>1, <1>11 DEF InferNode, t, l, UnaryOps
  <2>2. t = TypeOf(l.dtype, node.attr.shape)
    BY <1>1, <1>2, <2>1 DEF InferReshape
  <2> QED
    BY <1>3, <1>11, <2>2 DEF TypeFits, AttrFits
<1> QED
  BY <1>6, <1>7, <1>8, <1>9, <1>10, <1>11 DEF Operations, BinaryOps, UnaryOps

\* The type of a node depends on those of its operands only.
LEMMA InferNodeLocal ==
  ASSUME NEW node, node.op \in Operations, Len(node.args) = Arity(node.op),
         node.args \in Seq(Nat), NEW types, NEW more,
         \A k \in DOMAIN node.args :
            /\ node.args[k] \in DOMAIN types /\ node.args[k] \in DOMAIN more
            /\ more[node.args[k]] = types[node.args[k]]
  PROVE  InferNode(node, more) = InferNode(node, types)
<1>1. CASE node.op \in {"Input", "Const"}
  BY <1>1 DEF InferNode, UnaryOps
<1>2. CASE node.op \in BinaryOps
  <2>1. 1 \in DOMAIN node.args /\ 2 \in DOMAIN node.args
    BY <1>2 DEF Arity, BinaryOps, UnaryOps
  <2> QED
    BY <1>2, <2>1 DEF InferNode, BinaryOps, UnaryOps
<1>3. CASE node.op \in UnaryOps \cup {"Sum", "Reshape"}
  <2>1. 1 \in DOMAIN node.args
    BY <1>3 DEF Arity, BinaryOps, UnaryOps
  <2> QED
    BY <1>3, <2>1 DEF InferNode, BinaryOps, UnaryOps
<1> QED
  BY <1>1, <1>2, <1>3 DEF Operations

\* Types that solve the first equations, and one more.
LEMMA TypingGrows ==
  ASSUME NEW g, NodesFit(g), NEW types, Typing(g, types), NEW n \in Nat,
         n = Len(types), n + 1 <= Len(g.nodes), NEW t,
         t = InferNode(g.nodes[n + 1], types), t.err = "None",
         TypeFits(g.nodes[n + 1], t.shape, ShapesOf(g.nodes[n + 1], types))
  PROVE  Typing(g, Append(types, t))
<1> DEFINE more == Append(types, t)
<1>1. /\ IsList(more) /\ Len(more) = n + 1
      /\ \A i \in 1 .. n : more[i] = types[i]
      /\ more[n + 1] = t
  BY AppendToList DEF Typing
<1> HIDE DEF more
<1>2. ASSUME NEW i \in 1 .. (n + 1)
      PROVE  /\ ShapesOf(g.nodes[i], more) = ShapesOf(g.nodes[i], types)
             /\ InferNode(g.nodes[i], more) = InferNode(g.nodes[i], types)
  <2>1. i \in Ids(g)
    BY DEF NodesFit, Ids
  <2>2. \A k \in DOMAIN g.nodes[i].args : g.nodes[i].args[k] \in 1 .. n
    <3>1. \A k \in DOMAIN g.nodes[i].args : g.nodes[i].args[k] \in 1 .. (i - 1)
      BY <2>1 DEF NodesFit
    <3> QED
      BY <3>1
  <2>3. /\ g.nodes[i].op \in Operations /\ g.nodes[i].args \in Seq(Nat)
        /\ Len(g.nodes[i].args) = Arity(g.nodes[i].op)
    BY <2>1 DEF NodesFit
  <2>4. DOMAIN types = 1 .. n /\ DOMAIN more = 1 .. (n + 1)
    BY <1>1, Lists DEF Typing
  <2>5. \A k \in DOMAIN g.nodes[i].args :
           /\ g.nodes[i].args[k] \in DOMAIN types /\ g.nodes[i].args[k] \in DOMAIN more
           /\ more[g.nodes[i].args[k]] = types[g.nodes[i].args[k]]
    BY <1>1, <2>2, <2>4
  <2>6. InferNode(g.nodes[i], more) = InferNode(g.nodes[i], types)
    BY <2>3, <2>5, InferNodeLocal
  <2> QED
    BY <1>1, <2>2, <2>6 DEF ShapesOf
<1>3. ASSUME NEW i \in 1 .. (n + 1)
      PROVE  /\ more[i] = InferNode(g.nodes[i], more) /\ more[i].err = "None"
             /\ TypeFits(g.nodes[i], more[i].shape, ShapesOf(g.nodes[i], more))
  <2>1. CASE i = n + 1
    BY <1>1, <1>2, <2>1
  <2>2. CASE i # n + 1
    <3>1. i \in 1 .. n
      BY <2>2
    <3>2. /\ types[i] = InferNode(g.nodes[i], types) /\ types[i].err = "None"
          /\ TypeFits(g.nodes[i], types[i].shape, ShapesOf(g.nodes[i], types))
      BY <3>1 DEF Typing
    <3> QED
      BY <1>1, <1>2, <3>1, <3>2
  <2> QED
    BY <2>1, <2>2
<1>4. Typing(g, more)
  BY <1>1, <1>3 DEF Typing
<1> QED
  BY <1>4 DEF more

\* infer_types has errors of its own kinds only.
LEMMA InferNodeErrors ==
  ASSUME NEW node, node.op \in Operations, node.args \in Seq(Nat),
         Len(node.args) = Arity(node.op),
         NEW types, \A k \in DOMAIN node.args : /\ node.args[k] \in DOMAIN types
                                                /\ types[node.args[k]].err = "None"
  PROVE  InferNode(node, types).err # "Internal"
<1> DEFINE t == InferNode(node, types)
           l == types[node.args[1]]
           r == types[node.args[2]]
<1>1. ~ (\E k \in DOMAIN node.args : node.args[k] \notin DOMAIN types)
  OBVIOUS
<1>2. \A kind : TypeErr(kind).err = kind
  BY DEF TypeErr
<1>3. \A dtype, shape : TypeOf(dtype, shape).err = "None"
  BY DEF TypeOf
<1>4. ASSUME Arity(node.op) \in {1, 2}
      PROVE  l.err = "None"
  BY <1>4
<1> HIDE DEF t, l, r
<1>5. CASE node.op \in {"Input", "Const"}
  BY <1>1, <1>3, <1>5 DEF InferNode, UnaryOps
<1>6. CASE node.op \in {"Add", "Sub", "Mul"}
  <2>1. t = InferElementwise(l, r)
    BY <1>1, <1>6 DEF InferNode, t, l, r, UnaryOps
  <2>2. Arity(node.op) = 2
    BY <1>6 DEF Arity, UnaryOps, BinaryOps
  <2> QED
    BY <1>2, <1>4, <2>1, <2>2 DEF InferElementwise, t
<1>7. CASE node.op \in UnaryOps
  <2>1. t = InferUnary(l)
    BY <1>1, <1>7 DEF InferNode, t, l, UnaryOps
  <2>2. Arity(node.op) = 1
    BY <1>7 DEF Arity, UnaryOps, BinaryOps
  <2> QED
    BY <1>2, <1>4, <2>1, <2>2 DEF InferUnary, t
<1>8. CASE node.op = "Matmul"
  <2>1. t = InferMatmul(l, r)
    BY <1>1, <1>8 DEF InferNode, t, l, r, UnaryOps
  <2> QED
    BY <1>2, <1>3, <2>1 DEF InferMatmul, t
<1>9. CASE node.op = "Sum"
  <2>1. t = InferSum(l, node.attr.axes, node.attr.keepdim)
    BY <1>1, <1>9 DEF InferNode, t, l, UnaryOps
  <2> QED
    BY <1>2, <1>3, <2>1, SMTT(30) DEF InferSum, t
<1>10. CASE node.op = "Reshape"
  <2>1. t = InferReshape(l, node.attr.shape)
    BY <1>1, <1>10 DEF InferNode, t, l, UnaryOps
  <2> QED
    BY <1>2, <1>3, <2>1 DEF InferReshape, t
<1> QED
  BY <1>5, <1>6, <1>7, <1>8, <1>9, <1>10 DEF Operations, BinaryOps, UnaryOps

\* A step of inference keeps a solution a solution, and is never an internal error.
LEMMA InferNextFits ==
  ASSUME NEW g, NodesFit(g), NEW acc, IsInference(acc),
         Typing(g, acc.types), NEW n \in Nat, n + 1 <= Len(g.nodes),
         acc.err # "Internal", acc.err = "None" => Len(acc.types) = n
  PROVE  LET next == InferNext(acc, g.nodes[n + 1])
         IN  /\ IsInference(next) /\ next.err # "Internal"
             /\ Typing(g, next.types)
             /\ next.err = "None" => Len(next.types) = n + 1
<1> DEFINE node == g.nodes[n + 1]
           types == acc.types
           t == InferNode(node, types)
           next == InferNext(acc, node)
<1>1. next = Typed(acc, t)
  BY DEF InferNext
<1> HIDE DEF t, next
<1> SUFFICES /\ IsInference(next) /\ next.err # "Internal"
             /\ Typing(g, next.types)
             /\ next.err = "None" => Len(next.types) = n + 1
  BY DEF next
<1>2. /\ IsInference(next)
      /\ acc.err # "None" => next = acc
      /\ acc.err = "None" /\ t.err # "None" => next.err = t.err /\ next.types = types
      /\ acc.err = "None" /\ t.err = "None" =>
            next.err = "None" /\ next.types = Append(types, t)
  BY <1>1, TypedIs
<1>3. CASE acc.err # "None"
  BY <1>2, <1>3
<1>4. CASE acc.err = "None"
  <2>1. n + 1 \in Ids(g)
    BY DEF NodesFit, Ids
  <2>2. IsList(types) /\ Len(types) = n /\ DOMAIN types = 1 .. n
    BY <1>4, Lists DEF Typing
  <2>3. /\ node.op \in Operations /\ node.args \in Seq(Nat)
        /\ Len(node.args) = Arity(node.op) /\ AttrFits(node)
        /\ \A k \in DOMAIN node.args : node.args[k] \in 1 .. n
    <3>1. (n + 1) - 1 = n
      OBVIOUS
    <3> QED
      BY <2>1, <3>1 DEF NodesFit
  <2>4. \A k \in DOMAIN node.args : /\ node.args[k] \in DOMAIN types
                                    /\ types[node.args[k]].shape \in Seq(Nat)
                                    /\ types[node.args[k]].err = "None"
    BY <2>2, <2>3 DEF Typing, TypeFits
  <2>5. t.err # "Internal"
    <3> HIDE DEF node, types
    <3> QED
      BY <2>3, <2>4, InferNodeErrors DEF t
  <2>6. CASE t.err # "None"
    BY <1>2, <1>4, <2>5, <2>6
  <2>7. CASE t.err = "None"
    <3>1. TypeFits(node, t.shape, ShapesOf(node, types))
      <4>1. InferNode(node, types).err = "None"
        BY <2>7 DEF t
      <4> HIDE DEF node, types
      <4> QED
        BY <2>3, <2>4, <4>1, InferNodeFits DEF t
    <3>2. Typing(g, Append(types, t))
      <4>1. t = InferNode(node, types) /\ t.err = "None"
        BY <2>7 DEF t
      <4> QED
        BY <2>2, <3>1, <4>1, TypingGrows
    <3>3. Len(Append(types, t)) = n + 1
      BY <2>2, AppendToList
    <3> QED
      BY <1>2, <1>4, <2>7, <3>2, <3>3
  <2> QED
    BY <2>6, <2>7
<1> QED
  BY <1>3, <1>4

\* So inference ends with a solution, or with an error that is not internal.
LEMMA InferencesFit ==
  ASSUME NEW g, NodesFit(g)
  PROVE  LET acc == Inferences(g)[Len(g.nodes)]
         IN  /\ IsInference(acc) /\ acc.err # "Internal"
             /\ Typing(g, acc.types)
             /\ acc.err = "None" => Len(acc.types) = Len(g.nodes)
<1> DEFINE N == Len(g.nodes)
           f == Inferences(g)
           Fits(n, acc) == /\ IsInference(acc) /\ acc.err # "Internal"
                           /\ Typing(g, acc.types)
                           /\ acc.err = "None" => Len(acc.types) = n
           S == {n \in Nat : n <= N => Fits(n, f[n])}
<1>1. N \in Nat
  BY DEF NodesFit
<1>2. f = [n \in 0 .. N |-> IF n = 0 THEN [err |-> "None", types |-> << >>]
                                     ELSE InferNext(f[n - 1], g.nodes[n])]
  BY <1>1, InferencesDef
<1> HIDE DEF f
<1>3. 0 \in S
  <2>1. f[0] = [err |-> "None", types |-> << >>]
    BY <1>1, <1>2
  <2>2. Typing(g, << >>)
    <3> DEFINE none == << >>
    <3>1. none \in Seq({}) /\ Len(none) = 0
      OBVIOUS
    <3> HIDE DEF none
    <3>2. IsList(none)
      BY <3>1, SeqIsList
    <3>3. Len(none) <= Len(g.nodes) /\ \A i \in 1 .. Len(none) : FALSE
      BY <1>1, <3>1
    <3>4. Typing(g, none)
      BY <3>2, <3>3 DEF Typing
    <3> QED
      BY <3>4 DEF none
  <2>3. IsInference(f[0]) /\ f[0].types = << >> /\ f[0].err # "Internal"
    <3>1. IsInference(f[0])
      BY <2>1, Zenon DEF IsInference
    <3>2. f[0].types = << >> /\ f[0].err # "Internal"
      BY <2>1
    <3> QED
      BY <3>1, <3>2
  <2>4. Len(<< >>) = 0
    OBVIOUS
  <2> QED
    BY <2>2, <2>3, <2>4
<1>4. ASSUME NEW n \in Nat, n \in S
      PROVE  n + 1 \in S
  <2> SUFFICES ASSUME n + 1 <= N
               PROVE  Fits(n + 1, f[n + 1])
    BY <1>4
  <2>1. n + 1 \in 0 .. N /\ n + 1 # 0 /\ (n + 1) - 1 = n /\ n <= N
    BY <1>1
  <2>2. f[n + 1] = InferNext(f[n], g.nodes[n + 1])
    BY <1>2, <2>1
  <2>3. Fits(n, f[n])
    BY <1>4, <2>1
  <2> QED
    BY <2>2, <2>3, InferNextFits
<1>5. Fits(N, f[N])
  <2>1. N \in S
    <3> HIDE DEF S
    <3> QED
      BY <1>1, <1>3, <1>4, SetInduction
  <2> QED
    BY <1>1, <2>1
<1> QED
  BY <1>5 DEF f

\* infer_types gives each node of a graph that it accepts a fitting type.
LEMMA InferTypesFit ==
  ASSUME NEW g, IsGraph(g), InferTypes(g).err = "None"
  PROVE  /\ NodesFit(g) /\ Valid(g)
         /\ Typing(g, InferTypes(g).types)
         /\ Len(InferTypes(g).types) = Len(g.nodes)
         /\ \A i \in Ids(g) : TypeFits(g.nodes[i], InferTypes(g).types[i].shape,
                                       ShapesOf(g.nodes[i], InferTypes(g).types))
<1>1. Valid(g)
  <2>1. CASE ~ Valid(g)
    <3>1. StructureError(g) = "None"
      BY <2>1 DEF InferTypes
    <3> QED
      BY <2>1, <3>1, StructureErrorNamed
  <2> QED
    BY <2>1
<1>2. NodesFit(g) /\ InferTypes(g) = Inferences(g)[Len(g.nodes)]
  BY <1>1, ValidNodesFit DEF InferTypes
<1>3. Len(InferTypes(g).types) = Len(g.nodes) /\ Typing(g, InferTypes(g).types)
  BY <1>2, InferencesFit
<1> QED
  BY <1>1, <1>2, <1>3 DEF Typing, Ids

\* Its errors are of its own kinds.
LEMMA InferTypesErrors ==
  ASSUME NEW g, IsGraph(g), Valid(g)
  PROVE  InferTypes(g).err # "Internal"
<1>1. NodesFit(g) /\ InferTypes(g) = Inferences(g)[Len(g.nodes)]
  BY ValidNodesFit DEF InferTypes
<1> QED
  BY <1>1, InferencesFit

-----------------------------------------------------------------------------
(* Element counts.                                                          *)
LEMMA ExtentProductsDef ==
  ASSUME NEW shape, Len(shape) \in Nat
  PROVE  ExtentProducts(shape) =
           [n \in 0 .. Len(shape) |->
              IF n = 0 THEN 1 ELSE CheckedMul(ExtentProducts(shape)[n - 1], shape[n])]
<1> DEFINE N == Len(shape)
           Upto(m, f) == f = [n \in 0 .. m |-> IF n = 0 THEN 1
                                               ELSE CheckedMul(f[n - 1], shape[n])]
           S == {m \in Nat : \E f : Upto(m, f)}
<1>1. ExtentProducts(shape) = CHOOSE f : Upto(N, f)
  BY DEF ExtentProducts
<1>2. 0 \in S
  <2> DEFINE f == [n \in 0 .. 0 |-> 1]
  <2>1. Upto(0, f)
    OBVIOUS
  <2> QED
    BY <2>1
<1>3. ASSUME NEW m \in Nat, m \in S
      PROVE  m + 1 \in S
  <2>1. PICK f : Upto(m, f)
    BY <1>3
  <2> DEFINE h == [n \in 0 .. (m + 1) |-> IF n = m + 1 THEN CheckedMul(f[m], shape[n])
                                                       ELSE f[n]]
  <2>2. ASSUME NEW n \in 0 .. (m + 1)
        PROVE  h[n] = IF n = 0 THEN 1 ELSE CheckedMul(h[n - 1], shape[n])
    <3>1. CASE n = 0
      BY <2>1, <3>1
    <3>2. CASE n = m + 1
      BY <3>2
    <3>3. CASE n # 0 /\ n # m + 1
      <4>1. n \in 0 .. m /\ n - 1 \in 0 .. m
        BY <3>3
      <4>2. h[n] = f[n] /\ h[n - 1] = f[n - 1]
        BY <4>1, <3>3
      <4>3. f[n] = CheckedMul(f[n - 1], shape[n])
        BY <2>1, <4>1, <3>3
      <4> QED
        BY <4>2, <4>3, <3>3
    <3> QED
      BY <3>1, <3>2, <3>3
  <2>3. Upto(m + 1, h)
    <3> HIDE DEF h
    <3>1. h = [n \in 0 .. (m + 1) |-> h[n]]
      BY DEF h
    <3> QED
      BY <2>2, <3>1
  <2> HIDE DEF Upto, h
  <2> QED
    BY <2>3
<1>4. N \in S
  <2> HIDE DEF S
  <2> QED
    BY <1>2, <1>3, SetInduction
<1>5. Upto(N, ExtentProducts(shape))
  BY <1>1, <1>4
<1> QED
  BY <1>5

\* An element count fits a usize, or is an overflow.
LEMMA NumelFits ==
  ASSUME NEW shape \in Seq(Nat)
  PROVE  Numel(shape) = Overflow \/ Numel(shape) \in 0 .. MaxUsize
<1> DEFINE N == Len(shape)
           f == ExtentProducts(shape)
           S == {n \in Nat : n <= N => f[n] = Overflow \/ f[n] \in 0 .. MaxUsize}
<1>1. N \in Nat /\ \A n \in 1 .. N : shape[n] \in Nat
  OBVIOUS
<1>2. f = [n \in 0 .. N |-> IF n = 0 THEN 1 ELSE CheckedMul(f[n - 1], shape[n])]
  BY <1>1, ExtentProductsDef
<1> HIDE DEF f
<1>3. 0 \in S
  BY <1>1, <1>2, MaxUsizeAssumption
<1>4. ASSUME NEW n \in Nat, n \in S
      PROVE  n + 1 \in S
  <2> SUFFICES ASSUME n + 1 <= N
               PROVE  f[n + 1] = Overflow \/ f[n + 1] \in 0 .. MaxUsize
    OBVIOUS
  <2>1. f[n] = Overflow \/ f[n] \in 0 .. MaxUsize
    BY <1>4
  <2>2. n + 1 \in 0 .. N /\ n + 1 # 0 /\ (n + 1) - 1 = n
    BY <1>1
  <2>3. f[n + 1] = CheckedMul(f[n], shape[n + 1])
    BY <1>2, <2>2
  <2>4. ASSUME f[n] \in 0 .. MaxUsize
        PROVE  f[n] * shape[n + 1] \in Nat
    <3>1. \A a, b \in Nat : a * b \in Nat
      OBVIOUS
    <3> QED
      BY <1>1, <2>4, <3>1, MaxUsizeAssumption
  <2> QED
    BY <2>1, <2>3, <2>4, MaxUsizeAssumption DEF CheckedMul
<1>5. N \in S
  <2> HIDE DEF S
  <2> QED
    BY <1>1, <1>3, <1>4, SetInduction
<1> QED
  BY <1>1, <1>5 DEF f, Numel

\* The element count of a vector.
LEMMA NumelOfOne ==
  ASSUME NEW m \in 0 .. MaxUsize
  PROVE  Numel(<<m>>) = m
<1> DEFINE shape == <<m>>
           f == ExtentProducts(shape)
<1>1. Len(shape) = 1 /\ shape[1] = m
  OBVIOUS
<1> HIDE DEF shape
<1>2. f = [n \in 0 .. 1 |-> IF n = 0 THEN 1 ELSE CheckedMul(f[n - 1], shape[n])]
  BY <1>1, ExtentProductsDef
<1> HIDE DEF f
<1>3. f[0] = 1 /\ f[1] = CheckedMul(f[0], m)
  BY <1>1, <1>2
<1>4. f[1] = m
  BY <1>3, MaxUsizeAssumption DEF CheckedMul, Overflow
<1> QED
  BY <1>1, <1>4 DEF Numel, f, shape

\* The element count of a matrix.
LEMMA NumelOfTwo ==
  ASSUME NEW m \in Nat, NEW n \in Nat, m <= MaxUsize, m * n <= MaxUsize
  PROVE  Numel(<<m, n>>) = m * n
<1> DEFINE shape == <<m, n>>
           f == ExtentProducts(shape)
<1>1. Len(shape) = 2 /\ shape[1] = m /\ shape[2] = n
  OBVIOUS
<1> HIDE DEF shape
<1>2. f = [k \in 0 .. 2 |-> IF k = 0 THEN 1 ELSE CheckedMul(f[k - 1], shape[k])]
  BY <1>1, ExtentProductsDef
<1> HIDE DEF f
<1>3. f[0] = 1 /\ f[1] = CheckedMul(f[0], m) /\ f[2] = CheckedMul(f[1], n)
  BY <1>1, <1>2
<1>4. f[1] = m
  BY <1>3, MaxUsizeAssumption DEF CheckedMul, Overflow
<1>5. f[2] = m * n
  BY <1>3, <1>4, MaxUsizeAssumption DEF CheckedMul, Overflow
<1> QED
  BY <1>1, <1>5 DEF Numel, f, shape

-----------------------------------------------------------------------------
(* The interpreter: its results are tensors of the shapes inferred, and     *)
(* every index that it computes is in range.                                *)
LEMMA KeptEntriesDef ==
  ASSUME NEW list, Len(list) \in Nat, NEW axes
  PROVE  KeptEntries(list, axes) =
           [n \in 0 .. Len(list) |->
              IF n = 0 THEN << >>
              ELSE IF n \in Range(axes) THEN KeptEntries(list, axes)[n - 1]
              ELSE Append(KeptEntries(list, axes)[n - 1], list[n])]
<1> DEFINE N == Len(list)
           Next1(n, old) == IF n \in Range(axes) THEN old ELSE Append(old, list[n])
           Upto(m, f) == f = [n \in 0 .. m |-> IF n = 0 THEN << >> ELSE Next1(n, f[n - 1])]
           S == {m \in Nat : \E f : Upto(m, f)}
<1>1. KeptEntries(list, axes) = CHOOSE f : Upto(N, f)
  BY DEF KeptEntries
<1> HIDE DEF Next1
<1>2. 0 \in S
  <2> DEFINE f == [n \in 0 .. 0 |-> << >>]
  <2>1. Upto(0, f)
    OBVIOUS
  <2> QED
    BY <2>1
<1>3. ASSUME NEW m \in Nat, m \in S
      PROVE  m + 1 \in S
  <2>1. PICK f : Upto(m, f)
    BY <1>3
  <2> DEFINE h == [n \in 0 .. (m + 1) |-> IF n = m + 1 THEN Next1(n, f[m]) ELSE f[n]]
  <2>2. ASSUME NEW n \in 0 .. (m + 1)
        PROVE  h[n] = IF n = 0 THEN << >> ELSE Next1(n, h[n - 1])
    <3>1. CASE n = 0
      BY <2>1, <3>1
    <3>2. CASE n = m + 1
      BY <3>2
    <3>3. CASE n # 0 /\ n # m + 1
      <4>1. n \in 0 .. m /\ n - 1 \in 0 .. m
        BY <3>3
      <4>2. h[n] = f[n] /\ h[n - 1] = f[n - 1]
        BY <4>1, <3>3
      <4>3. f[n] = Next1(n, f[n - 1])
        BY <2>1, <4>1, <3>3
      <4> QED
        BY <4>2, <4>3, <3>3
    <3> QED
      BY <3>1, <3>2, <3>3
  <2>3. Upto(m + 1, h)
    <3> HIDE DEF h
    <3>1. h = [n \in 0 .. (m + 1) |-> h[n]]
      BY DEF h
    <3> QED
      BY <2>2, <3>1
  <2> HIDE DEF Upto, h
  <2> QED
    BY <2>3
<1>4. N \in S
  <2> HIDE DEF S
  <2> QED
    BY <1>2, <1>3, SetInduction
<1>5. Upto(N, KeptEntries(list, axes))
  BY <1>1, <1>4
<1> QED
  BY <1>5 DEF Next1

\* sum_output_shape of the interpreter filters as infer_types does.
LEMMA SumShapeIsReduced ==
  ASSUME NEW shape \in Seq(Nat), NEW axes, NEW keepdim \in BOOLEAN
  PROVE  SumOutputShape(shape, axes, keepdim) = ReducedShape(shape, axes, keepdim)
<1> DEFINE N == Len(shape)
           K(n) == {a \in 1 .. n : a \notin Range(axes)}
           Listed(n) == [k \in 1 .. Cardinality(K(n)) |-> shape[Ascending(K(n))[k]]]
           f == KeptEntries(shape, axes)
           S == {n \in Nat : n <= N => f[n] = Listed(n)}
<1>1. N \in Nat /\ DOMAIN shape = 1 .. N
  OBVIOUS
<1>2. CASE keepdim
  BY <1>1, <1>2 DEF SumOutputShape, ReducedShape
<1>3. CASE ~ keepdim
  <2>1. f = [n \in 0 .. N |->
               IF n = 0 THEN << >>
               ELSE IF n \in Range(axes) THEN f[n - 1]
               ELSE Append(f[n - 1], shape[n])]
    BY <1>1, KeptEntriesDef
  <2> HIDE DEF f
  <2>2. ASSUME NEW n \in Nat
        PROVE  /\ K(n) \in SUBSET Nat /\ IsFiniteSet(K(n))
               /\ Cardinality(K(n)) \in Nat
    <3>1. IsFiniteSet(1 .. n) /\ K(n) \in SUBSET (1 .. n)
      BY FS_Interval
    <3>2. IsFiniteSet(K(n))
      BY <3>1, FS_Subset
    <3> QED
      BY <3>1, <3>2, FS_CardinalityType
  <2>3. 0 \in S
    <3>1. K(0) = {}
      OBVIOUS
    <3>2. Cardinality(K(0)) = 0
      BY <3>1, FS_EmptySet
    <3>3. Listed(0) = << >>
      BY <3>2
    <3> QED
      BY <1>1, <2>1, <3>3
  <2>4. ASSUME NEW n \in Nat, n \in S
        PROVE  n + 1 \in S
    <3> SUFFICES ASSUME n + 1 <= N
                 PROVE  f[n + 1] = Listed(n + 1)
      OBVIOUS
    <3>1. f[n] = Listed(n)
      BY <2>4, <1>1
    <3>2. n + 1 \in 0 .. N /\ n + 1 # 0 /\ (n + 1) - 1 = n
      BY <1>1
    <3>3. f[n + 1] = IF n + 1 \in Range(axes) THEN f[n] ELSE Append(f[n], shape[n + 1])
      BY <2>1, <3>2
    <3>4. CASE n + 1 \in Range(axes)
      <4>1. K(n + 1) = K(n)
        BY <3>4
      <4> QED
        BY <3>1, <3>3, <3>4, <4>1
    <3>5. CASE n + 1 \notin Range(axes)
      <4> DEFINE A == Ascending(K(n))
                 c == Cardinality(K(n))
                 s == Append(A, n + 1)
      <4>1. K(n + 1) = K(n) \cup {n + 1} /\ n + 1 \notin K(n)
        BY <3>5
      <4>2. c \in Nat /\ Cardinality(K(n + 1)) = c + 1
        <5> HIDE DEF K
        <5> QED
          BY <2>2, <4>1, FS_AddElement
      <4>3. /\ A \in [1 .. c -> K(n)] /\ A \in Seq(Nat) /\ Range(A) = K(n)
            /\ \A j, k \in DOMAIN A : j < k => A[j] < A[k]
        <5> HIDE DEF K
        <5> QED
          BY <2>2, AscendingLists, AscendingIncreases
      <4>4. Len(A) = c /\ DOMAIN A = 1 .. c
        BY <4>2, <4>3
      <4>5. \A k \in 1 .. c : A[k] \in 1 .. n
        BY <4>3
      <4> HIDE DEF A, c
      <4>6. /\ s \in Seq(Nat) /\ Len(s) = c + 1 /\ DOMAIN s = 1 .. (c + 1)
            /\ \A k \in 1 .. c : s[k] = A[k]
            /\ s[c + 1] = n + 1
        BY <4>2, <4>3, <4>4
      <4> HIDE DEF s
      <4>7. \A j, k \in DOMAIN s : j < k => s[j] < s[k]
        <5> SUFFICES ASSUME NEW j \in 1 .. (c + 1), NEW k \in 1 .. (c + 1), j < k
                     PROVE  s[j] < s[k]
          BY <4>6
        <5>1. j \in 1 .. c /\ s[j] = A[j] /\ A[j] \in 1 .. n
          BY <4>2, <4>5, <4>6
        <5>2. CASE k = c + 1
          BY <4>6, <5>1, <5>2
        <5>3. CASE k \in 1 .. c
          BY <4>3, <4>4, <4>6, <5>1, <5>3
        <5> QED
          BY <4>2, <5>2, <5>3
      <4>8. Range(s) = K(n + 1)
        <5>1. Range(s) = {s[k] : k \in 1 .. (c + 1)}
          BY <4>6 DEF Range
        <5>2. Range(A) = {A[k] : k \in 1 .. c}
          BY <4>4 DEF Range
        <5>3. 1 .. (c + 1) = (1 .. c) \cup {c + 1}
          BY <4>2
        <5>4. {s[k] : k \in 1 .. (c + 1)} = {A[k] : k \in 1 .. c} \cup {n + 1}
          <6>1. {s[k] : k \in 1 .. (c + 1)} = {s[k] : k \in 1 .. c} \cup {s[c + 1]}
            BY <5>3
          <6>2. {s[k] : k \in 1 .. c} = {A[k] : k \in 1 .. c}
            BY <4>6
          <6> QED
            BY <4>6, <6>1, <6>2
        <5> HIDE DEF K
        <5> QED
          BY <4>1, <4>3, <5>1, <5>2, <5>4
      <4>9. s = Ascending(K(n + 1))
        <5> HIDE DEF K
        <5> QED
          BY <4>6, <4>7, <4>8, AscendingUnique
      <4>10. f[n] = [k \in 1 .. c |-> shape[A[k]]]
        BY <3>1 DEF A, c
      <4>11. Listed(n + 1) = [k \in 1 .. (c + 1) |-> shape[s[k]]]
        BY <4>2, <4>9
      <4>12. Append(f[n], shape[n + 1]) = [k \in 1 .. (c + 1) |-> shape[s[k]]]
        <5> DEFINE l == [k \in 1 .. c |-> shape[A[k]]]
        <5>1. IsList(l) /\ Len(l) = c
          <6>1. l \in [1 .. c -> Nat]
            <7>1. \A k \in 1 .. c : A[k] \in DOMAIN shape
              BY <1>1, <4>5
            <7> QED
              BY <7>1
          <6> HIDE DEF l
          <6>2. l \in Seq(Nat) /\ Len(l) = c
            BY <4>2, <6>1
          <6> QED
            BY <6>2, SeqIsList
        <5>2. \A k \in 1 .. c : l[k] = shape[s[k]]
          BY <4>6
        <5> HIDE DEF l
        <5>3. /\ IsList(Append(l, shape[n + 1])) /\ Len(Append(l, shape[n + 1])) = c + 1
              /\ \A k \in 1 .. c : Append(l, shape[n + 1])[k] = l[k]
              /\ Append(l, shape[n + 1])[c + 1] = shape[n + 1]
          BY <5>1, AppendToList
        <5> DEFINE m == Append(l, shape[n + 1])
        <5>4. m = [k \in 1 .. (c + 1) |-> m[k]]
          <6>1. DOMAIN m = 1 .. (c + 1)
            BY <5>3, Lists
          <6>2. PICK q \in Nat : m = [i \in 1 .. q |-> m[i]]
            BY <5>3 DEF IsList
          <6> HIDE DEF m
          <6> QED
            BY <6>1, <6>2
        <5>5. \A k \in 1 .. (c + 1) : m[k] = shape[s[k]]
          BY <4>2, <4>6, <5>2, <5>3
        <5> HIDE DEF m
        <5>6. m = [k \in 1 .. (c + 1) |-> shape[s[k]]]
          BY <5>4, <5>5
        <5> QED
          BY <4>10, <5>6 DEF m, l
      <4> QED
        BY <3>3, <3>5, <4>11, <4>12
    <3> QED
      BY <3>4, <3>5
  <2>5. N \in S
    <3> HIDE DEF S
    <3> QED
      BY <1>1, <2>3, <2>4, SetInduction
  <2>6. f[N] = Listed(N)
    BY <1>1, <2>5
  <2>7. ReducedShape(shape, axes, keepdim) = Listed(N)
    BY <1>1, <1>3 DEF ReducedShape, Ascending, Rank
  <2> QED
    BY <1>3, <2>6, <2>7 DEF SumOutputShape, f
<1> QED
  BY <1>2, <1>3

\* Extents multiplied from the right, as a recursion.
LEMMA ExtentsFromRightDef ==
  ASSUME NEW shape, Len(shape) \in Nat
  PROVE  ExtentsFromRight(shape) =
           [n \in 0 .. Len(shape) |->
              IF n = 0 THEN 1
              ELSE ExtentsFromRight(shape)[n - 1] * shape[(Len(shape) - n) + 1]]
<1> DEFINE N == Len(shape)
           zero == 1
           next(n, old) == old * shape[(Len(shape) - n) + 1]
           Upto(m, f) == f = [n \in 0 .. m |-> IF n = 0 THEN zero ELSE next(n, f[n - 1])]
           S == {m \in Nat : \E f : Upto(m, f)}
<1>0. N \in Nat
  OBVIOUS
<1>1. ExtentsFromRight(shape) = CHOOSE f : Upto(N, f)
  BY DEF ExtentsFromRight
<1> HIDE DEF next, zero
<1>2. 0 \in S
  <2> DEFINE f == [n \in 0 .. 0 |-> zero]
  <2>1. Upto(0, f)
    OBVIOUS
  <2> QED
    BY <2>1
<1>3. ASSUME NEW m \in Nat, m \in S
      PROVE  m + 1 \in S
  <2>1. PICK f : Upto(m, f)
    BY <1>3
  <2> DEFINE h == [n \in 0 .. (m + 1) |-> IF n = m + 1 THEN next(n, f[m]) ELSE f[n]]
  <2>2. ASSUME NEW n \in 0 .. (m + 1)
        PROVE  h[n] = IF n = 0 THEN zero ELSE next(n, h[n - 1])
    <3>1. CASE n = 0
      BY <2>1, <3>1
    <3>2. CASE n = m + 1
      BY <3>2
    <3>3. CASE n # 0 /\ n # m + 1
      <4>1. n \in 0 .. m /\ n - 1 \in 0 .. m
        BY <3>3
      <4>2. h[n] = f[n] /\ h[n - 1] = f[n - 1]
        BY <4>1, <3>3
      <4>3. f[n] = next(n, f[n - 1])
        BY <2>1, <4>1, <3>3
      <4> QED
        BY <4>2, <4>3, <3>3
    <3> QED
      BY <3>1, <3>2, <3>3
  <2>3. Upto(m + 1, h)
    <3> HIDE DEF h
    <3>1. h = [n \in 0 .. (m + 1) |-> h[n]]
      BY DEF h
    <3> QED
      BY <2>2, <3>1
  <2> HIDE DEF Upto, h
  <2> QED
    BY <2>3
<1>4. N \in S
  <2> HIDE DEF N, S
  <2> QED
    BY <1>0, <1>2, <1>3, SetInduction
<1>5. Upto(N, ExtentsFromRight(shape))
  <2> HIDE DEF Upto
  <2>1. \E f : Upto(N, f)
    BY <1>4
  <2> QED
    BY <1>1, <2>1
<1> QED
  BY <1>5 DEF next, zero

\* The offset of an index, as a recursion over the axes.
LEMMA OffsetsDef ==
  ASSUME NEW multi, Len(multi) \in Nat, NEW shape
  PROVE  Offsets(multi, shape) =
           [n \in 0 .. Len(multi) |->
              IF n = 0 THEN 0
              ELSE Offsets(multi, shape)[n - 1] + multi[n] * RowStride(shape, n)]
<1> DEFINE N == Len(multi)
           zero == 0
           next(n, old) == old + multi[n] * RowStride(shape, n)
           Upto(m, f) == f = [n \in 0 .. m |-> IF n = 0 THEN zero ELSE next(n, f[n - 1])]
           S == {m \in Nat : \E f : Upto(m, f)}
<1>0. N \in Nat
  OBVIOUS
<1>1. Offsets(multi, shape) = CHOOSE f : Upto(N, f)
  BY DEF Offsets
<1> HIDE DEF next, zero
<1>2. 0 \in S
  <2> DEFINE f == [n \in 0 .. 0 |-> zero]
  <2>1. Upto(0, f)
    OBVIOUS
  <2> QED
    BY <2>1
<1>3. ASSUME NEW m \in Nat, m \in S
      PROVE  m + 1 \in S
  <2>1. PICK f : Upto(m, f)
    BY <1>3
  <2> DEFINE h == [n \in 0 .. (m + 1) |-> IF n = m + 1 THEN next(n, f[m]) ELSE f[n]]
  <2>2. ASSUME NEW n \in 0 .. (m + 1)
        PROVE  h[n] = IF n = 0 THEN zero ELSE next(n, h[n - 1])
    <3>1. CASE n = 0
      BY <2>1, <3>1
    <3>2. CASE n = m + 1
      BY <3>2
    <3>3. CASE n # 0 /\ n # m + 1
      <4>1. n \in 0 .. m /\ n - 1 \in 0 .. m
        BY <3>3
      <4>2. h[n] = f[n] /\ h[n - 1] = f[n - 1]
        BY <4>1, <3>3
      <4>3. f[n] = next(n, f[n - 1])
        BY <2>1, <4>1, <3>3
      <4> QED
        BY <4>2, <4>3, <3>3
    <3> QED
      BY <3>1, <3>2, <3>3
  <2>3. Upto(m + 1, h)
    <3> HIDE DEF h
    <3>1. h = [n \in 0 .. (m + 1) |-> h[n]]
      BY DEF h
    <3> QED
      BY <2>2, <3>1
  <2> HIDE DEF Upto, h
  <2> QED
    BY <2>3
<1>4. N \in S
  <2> HIDE DEF N, S
  <2> QED
    BY <1>0, <1>2, <1>3, SetInduction
<1>5. Upto(N, Offsets(multi, shape))
  <2> HIDE DEF Upto
  <2>1. \E f : Upto(N, f)
    BY <1>4
  <2> QED
    BY <1>1, <2>1
<1> QED
  BY <1>5 DEF next, zero


\* An overflow stays one, so no product of the first extents of a shape that can be
\* sized overflows; and if no extent is zero neither is any product.
LEMMA ExtentProductsPositive ==
  ASSUME NEW shape \in Seq(Nat), Numel(shape) # Overflow,
         \A a \in 1 .. Len(shape) : shape[a] # 0
  PROVE  LET f == ExtentProducts(shape)
         IN  /\ f[0] = 1
             /\ \A n \in 0 .. Len(shape) : f[n] \in Nat \ {0}
             /\ \A n \in 0 .. Len(shape) - 1 : f[n + 1] = f[n] * shape[n + 1]
<1> DEFINE N == Len(shape)
           f == ExtentProducts(shape)
           S == {j \in Nat : j <= N => f[N - j] # Overflow}
           T == {n \in Nat : n <= N => f[n] \in Nat \ {0}}
<1>1. N \in Nat /\ \A a \in 1 .. N : shape[a] \in Nat \ {0}
  OBVIOUS
<1>2. f = [n \in 0 .. N |-> IF n = 0 THEN 1 ELSE CheckedMul(f[n - 1], shape[n])]
  BY <1>1, ExtentProductsDef
<1>3. f[N] # Overflow
  BY DEF Numel
<1> HIDE DEF f, N
<1> SUFFICES /\ f[0] = 1
             /\ \A n \in 0 .. N : f[n] \in Nat \ {0}
             /\ \A n \in 0 .. N - 1 : f[n + 1] = f[n] * shape[n + 1]
  BY DEF f, N
<1>4. f[0] = 1
  BY <1>1, <1>2
<1>5. ASSUME NEW n \in 0 .. N - 1
      PROVE  f[n + 1] = CheckedMul(f[n], shape[n + 1])
  <2>1. n + 1 \in 0 .. N /\ n + 1 # 0 /\ (n + 1) - 1 = n
    BY <1>1
  <2> QED
    BY <1>2, <2>1
<1>6. 0 \in S
  BY <1>1, <1>3
<1>7. ASSUME NEW j \in Nat, j \in S
      PROVE  j + 1 \in S
  <2> SUFFICES ASSUME j + 1 <= N
               PROVE  f[N - (j + 1)] # Overflow
    OBVIOUS
  <2> DEFINE n == N - (j + 1)
  <2>1. n \in 0 .. N - 1 /\ N - j = n + 1 /\ j <= N
    BY <1>1
  <2>2. f[n + 1] # Overflow
    BY <1>7, <2>1
  <2> HIDE DEF n
  <2>3. f[n] # Overflow
    BY <1>5, <2>1, <2>2 DEF CheckedMul
  <2> QED
    BY <2>3 DEF n
<1>8. \A j \in Nat : j \in S
  <2> HIDE DEF S
  <2> QED
    BY <1>6, <1>7, SetInduction
<1>9. ASSUME NEW n \in 0 .. N
      PROVE  f[n] # Overflow
  <2>1. N - n \in Nat /\ N - n <= N /\ N - (N - n) = n
    BY <1>1
  <2> QED
    BY <1>8, <2>1
<1>10. ASSUME NEW n \in 0 .. N - 1
       PROVE  f[n + 1] = f[n] * shape[n + 1]
  <2>1. n \in 0 .. N /\ n + 1 \in 0 .. N
    BY <1>1
  <2> QED
    BY <1>5, <1>9, <2>1 DEF CheckedMul
<1>11. 0 \in T
  BY <1>4
<1>12. ASSUME NEW n \in Nat, n \in T
       PROVE  n + 1 \in T
  <2> SUFFICES ASSUME n + 1 <= N
               PROVE  f[n + 1] \in Nat \ {0}
    OBVIOUS
  <2>1. n \in 0 .. N - 1 /\ n + 1 \in 1 .. N /\ f[n] \in Nat \ {0}
    BY <1>1, <1>12
  <2>2. shape[n + 1] \in Nat \ {0}
    BY <1>1, <2>1
  <2>3. \A x, y \in Nat \ {0} : x * y \in Nat \ {0}
    OBVIOUS
  <2>4. f[n + 1] = f[n] * shape[n + 1]
    BY <1>10, <2>1
  <2> QED
    BY <2>1, <2>2, <2>3, <2>4
<1>13. \A n \in Nat : n \in T
  <2> HIDE DEF T
  <2> QED
    BY <1>11, <1>12, SetInduction
<1> QED
  BY <1>1, <1>4, <1>10, <1>13

\* A shape with elements has no zero extent.
LEMMA ElementsHaveExtents ==
  ASSUME NEW shape \in Seq(Nat), Numel(shape) > 0
  PROVE  \A a \in 1 .. Len(shape) : shape[a] # 0
<1> SUFFICES ASSUME NEW a \in 1 .. Len(shape), shape[a] = 0
             PROVE  FALSE
  OBVIOUS
<1> DEFINE N == Len(shape)
           f == ExtentProducts(shape)
           S == {j \in Nat : a + j <= N => f[a + j] \in {0, Overflow}}
<1>1. N \in Nat /\ a \in Nat /\ a <= N /\ a # 0 /\ \A b \in 1 .. N : shape[b] \in Nat
  OBVIOUS
<1>2. f = [n \in 0 .. N |-> IF n = 0 THEN 1 ELSE CheckedMul(f[n - 1], shape[n])]
  BY <1>1, ExtentProductsDef
<1>3. f[N] > 0
  BY DEF Numel
<1> HIDE DEF f, N
<1>4. ASSUME NEW n \in 0 .. N - 1
      PROVE  f[n + 1] = CheckedMul(f[n], shape[n + 1])
  <2>1. n + 1 \in 0 .. N /\ n + 1 # 0 /\ (n + 1) - 1 = n
    BY <1>1
  <2> QED
    BY <1>2, <2>1
<1>5. \A n \in 0 .. N : f[n] = Overflow \/ f[n] \in Nat
  <2> DEFINE T == {n \in Nat : n <= N => f[n] = Overflow \/ f[n] \in Nat}
  <2>1. 0 \in T
    BY <1>1, <1>2
  <2>2. ASSUME NEW n \in Nat, n \in T
        PROVE  n + 1 \in T
    <3> SUFFICES ASSUME n + 1 <= N
                 PROVE  f[n + 1] = Overflow \/ f[n + 1] \in Nat
      OBVIOUS
    <3>1. n \in 0 .. N - 1 /\ shape[n + 1] \in Nat /\ (f[n] = Overflow \/ f[n] \in Nat)
      BY <1>1, <2>2
    <3>2. \A x, y \in Nat : x * y \in Nat
      OBVIOUS
    <3>3. f[n + 1] = CheckedMul(f[n], shape[n + 1])
      BY <1>4, <3>1
    <3> QED
      BY <3>1, <3>2, <3>3 DEF CheckedMul
  <2>3. \A n \in Nat : n \in T
    <3> HIDE DEF T
    <3> QED
      BY <2>1, <2>2, SetInduction
  <2> QED
    BY <1>1, <2>3
<1>6. 0 \in S
  <2>1. a - 1 \in 0 .. N - 1 /\ (a - 1) + 1 = a
    BY <1>1
  <2>2. f[a] = CheckedMul(f[a - 1], 0)
    BY <1>4, <2>1
  <2>3. f[a - 1] = Overflow \/ f[a - 1] \in Nat
    BY <1>1, <1>5, <2>1
  <2>4. \A x \in Nat : x * 0 = 0
    OBVIOUS
  <2>5. f[a] \in {0, Overflow}
    BY <2>2, <2>3, <2>4, MaxUsizeAssumption DEF CheckedMul
  <2> QED
    BY <1>1, <2>5
<1>7. ASSUME NEW j \in Nat, j \in S
      PROVE  j + 1 \in S
  <2> SUFFICES ASSUME a + (j + 1) <= N
               PROVE  f[a + (j + 1)] \in {0, Overflow}
    OBVIOUS
  <2> DEFINE n == a + j
  <2>1. n \in 0 .. N - 1 /\ a + (j + 1) = n + 1 /\ n + 1 \in 1 .. N /\ n <= N
    BY <1>1
  <2>2. f[n] \in {0, Overflow}
    BY <1>7, <2>1
  <2> HIDE DEF n
  <2>3. f[n + 1] = CheckedMul(f[n], shape[n + 1]) /\ shape[n + 1] \in Nat
    BY <1>1, <1>4, <2>1
  <2>4. \A x \in Nat : 0 * x = 0
    OBVIOUS
  <2> QED
    BY <2>1, <2>2, <2>3, <2>4, MaxUsizeAssumption DEF CheckedMul
<1>8. N - a \in S /\ N - a \in Nat
  <2>1. N - a \in Nat
    BY <1>1
  <2> HIDE DEF S
  <2> QED
    BY <1>6, <1>7, <2>1, SetInduction
<1>9. a + (N - a) = N
  BY <1>1
<1>10. f[N] \in {0, Overflow}
  BY <1>1, <1>8, <1>9
<1> QED
  BY <1>3, <1>10 DEF Overflow

\* Coordinates within a shape, both lists of numbers.
Below(multi, shape) ==
  /\ IsList(multi) /\ IsList(shape) /\ Len(multi) = Len(shape)
  /\ \A a \in 1 .. Len(shape) : /\ multi[a] \in Nat /\ shape[a] \in Nat
                                /\ multi[a] < shape[a]

\* A shape that has an index has no empty axis.
LEMMA BelowShape ==
  ASSUME NEW multi, NEW shape, Below(multi, shape)
  PROVE  /\ shape \in Seq(Nat) /\ Len(shape) \in Nat /\ Len(multi) = Len(shape)
         /\ \A a \in 1 .. Len(shape) : shape[a] # 0
<1>1. PICK n \in Nat : shape = [i \in 1 .. n |-> shape[i]]
  BY DEF Below, IsList
<1>2. Len(shape) \in Nat /\ DOMAIN shape = 1 .. Len(shape)
  BY Lists DEF Below
<1>3. DOMAIN shape = 1 .. n
  BY <1>1
<1>4. \A i \in 1 .. n : shape[i] \in Nat
  BY <1>2, <1>3 DEF Below
<1>5. shape \in [1 .. n -> Nat]
  BY <1>1, <1>4
<1>6. shape \in Seq(Nat)
  BY <1>5
<1> QED
  BY <1>2, <1>6 DEF Below

\* Multiplying keeps an order.
LEMMA MulMonotone ==
  ASSUME NEW a \in Nat, NEW b \in Nat, NEW x \in Nat, a <= b
  PROVE  x * a <= x * b
<1> DEFINE d == b - a
<1>1. d \in Nat /\ b = a + d
  OBVIOUS
<1> HIDE DEF d
<1>2. x * (a + d) = x * a + x * d
  BY <1>1
<1>3. x * a \in Nat /\ x * d \in Nat
  BY <1>1
<1> QED
  BY <1>1, <1>2, <1>3

\* Factors in another order.
LEMMA MulAssociative ==
  ASSUME NEW a \in Nat, NEW b \in Nat, NEW c \in Nat
  PROVE  a * (b * c) = (a * c) * b
OBVIOUS

\* Extents multiplied from the right give what they give from the left.
LEMMA ExtentsFromRightPositive ==
  ASSUME NEW shape \in Seq(Nat), Numel(shape) # Overflow,
         \A a \in 1 .. Len(shape) : shape[a] # 0
  PROVE  LET e == ExtentsFromRight(shape)
         IN  /\ e[0] = 1
             /\ e[Len(shape)] = Numel(shape)
             /\ \A n \in 0 .. Len(shape) : e[n] \in Nat \ {0}
             /\ \A n \in 0 .. Len(shape) - 1 :
                   e[Len(shape) - n] = e[Len(shape) - (n + 1)] * shape[n + 1]
<1> DEFINE N == Len(shape)
           f == ExtentProducts(shape)
           e == ExtentsFromRight(shape)
           T == {n \in Nat : n <= N => e[n] \in Nat \ {0}}
           S == {n \in Nat : n <= N => f[n] * e[N - n] = e[N]}
<1>1. N \in Nat /\ \A a \in 1 .. N : shape[a] \in Nat \ {0}
  OBVIOUS
<1>2. /\ f[0] = 1
      /\ \A n \in 0 .. N : f[n] \in Nat \ {0}
      /\ \A n \in 0 .. N - 1 : f[n + 1] = f[n] * shape[n + 1]
  BY ExtentProductsPositive
<1>3. e = [n \in 0 .. N |-> IF n = 0 THEN 1 ELSE e[n - 1] * shape[(N - n) + 1]]
  BY <1>1, ExtentsFromRightDef
<1>4. f[N] = Numel(shape)
  BY DEF Numel
<1> HIDE DEF f, e, N
<1> SUFFICES /\ e[0] = 1
             /\ e[N] = Numel(shape)
             /\ \A n \in 0 .. N : e[n] \in Nat \ {0}
             /\ \A n \in 0 .. N - 1 : e[N - n] = e[N - (n + 1)] * shape[n + 1]
  BY DEF e, N
<1>5. e[0] = 1
  BY <1>1, <1>3
<1>6. ASSUME NEW n \in 0 .. N - 1
      PROVE  e[N - n] = e[N - (n + 1)] * shape[n + 1]
  <2>1. /\ N - n \in 0 .. N /\ N - n # 0
        /\ (N - n) - 1 = N - (n + 1) /\ (N - (N - n)) + 1 = n + 1
    BY <1>1
  <2>2. e[N - n] = e[(N - n) - 1] * shape[(N - (N - n)) + 1]
    BY <1>3, <2>1
  <2> QED
    BY <2>1, <2>2
<1>7. \A n \in 0 .. N : e[n] \in Nat \ {0}
  <2>1. 0 \in T
    BY <1>5
  <2>2. ASSUME NEW n \in Nat, n \in T
        PROVE  n + 1 \in T
    <3> SUFFICES ASSUME n + 1 <= N
                 PROVE  e[n + 1] \in Nat \ {0}
      OBVIOUS
    <3> DEFINE k == N - (n + 1)
    <3>1. /\ k \in 0 .. N - 1 /\ N - k = n + 1 /\ N - (k + 1) = n /\ k + 1 \in 1 .. N
          /\ n <= N
      BY <1>1
    <3> HIDE DEF k
    <3>2. e[n + 1] = e[n] * shape[k + 1]
      BY <1>6, <3>1
    <3>3. e[n] \in Nat \ {0} /\ shape[k + 1] \in Nat \ {0}
      BY <1>1, <2>2, <3>1
    <3>4. \A x, y \in Nat \ {0} : x * y \in Nat \ {0}
      OBVIOUS
    <3> QED
      BY <3>2, <3>3, <3>4
  <2>3. \A n \in Nat : n \in T
    <3> HIDE DEF T
    <3> QED
      BY <2>1, <2>2, SetInduction
  <2> QED
    BY <1>1, <2>3
<1>8. \A n \in Nat : n \in S
  <2>1. 0 \in S
    <3>1. e[N] \in Nat /\ N - 0 = N
      BY <1>1, <1>7
    <3>2. f[0] * e[N - 0] = e[N]
      BY <1>2, <3>1
    <3> QED
      BY <3>2
  <2>2. ASSUME NEW n \in Nat, n \in S
        PROVE  n + 1 \in S
    <3> SUFFICES ASSUME n + 1 <= N
                 PROVE  f[n + 1] * e[N - (n + 1)] = e[N]
      OBVIOUS
    <3>1. n \in 0 .. N - 1 /\ n \in 0 .. N /\ N - (n + 1) \in 0 .. N /\ n + 1 \in 1 .. N
      BY <1>1
    <3>2. f[n] * e[N - n] = e[N]
      BY <2>2, <3>1
    <3> DEFINE a == f[n]
               b == e[N - (n + 1)]
               c == shape[n + 1]
    <3>3. a \in Nat /\ b \in Nat /\ c \in Nat
      BY <1>1, <1>2, <1>7, <3>1
    <3>4. e[N - n] = b * c /\ f[n + 1] = a * c
      BY <1>2, <1>6, <3>1
    <3> HIDE DEF a, b, c
    <3>5. a * (b * c) = (a * c) * b
      BY <3>3, MulAssociative
    <3>6. a * (b * c) = e[N]
      BY <3>2, <3>4 DEF a
    <3> QED
      BY <3>4, <3>5, <3>6 DEF b
  <2> HIDE DEF S
  <2> QED
    BY <2>1, <2>2, SetInduction
<1>9. e[N] = Numel(shape)
  <2>1. f[N] * e[N - N] = e[N] /\ N - N = 0
    BY <1>1, <1>8
  <2>2. f[N] \in Nat
    BY <1>1, <1>2
  <2> QED
    BY <1>4, <1>5, <2>1, <2>2
<1> QED
  BY <1>5, <1>6, <1>7, <1>9

\* Every coordinate of a tensor has an offset in its data.
LEMMA OffsetInRange ==
  ASSUME NEW multi, NEW shape, Below(multi, shape), Numel(shape) # Overflow
  PROVE  MultiToFlat(multi, shape) \in 0 .. (Numel(shape) - 1)
<1> DEFINE N == Len(shape)
           e == ExtentsFromRight(shape)
           o == Offsets(multi, shape)
           S == {n \in Nat : n <= N => o[n] \in Nat /\ o[n] + e[N - n] <= e[N]}
<1>1. /\ shape \in Seq(Nat) /\ N \in Nat /\ Len(multi) = N
      /\ \A a \in 1 .. N : shape[a] # 0
  BY BelowShape
<1>2. /\ e[0] = 1 /\ e[N] = Numel(shape)
      /\ \A n \in 0 .. N : e[n] \in Nat \ {0}
      /\ \A n \in 0 .. N - 1 : e[N - n] = e[N - (n + 1)] * shape[n + 1]
  BY <1>1, ExtentsFromRightPositive
<1>3. o = [n \in 0 .. N |-> IF n = 0 THEN 0 ELSE o[n - 1] + multi[n] * RowStride(shape, n)]
  BY <1>1, OffsetsDef
<1>4. \A n \in 0 .. N : RowStride(shape, n) = e[N - n]
  BY DEF RowStride
<1>5. MultiToFlat(multi, shape) = o[N]
  BY <1>1 DEF MultiToFlat
<1>6. \A a \in 1 .. N : multi[a] \in Nat /\ shape[a] \in Nat /\ multi[a] < shape[a]
  BY DEF Below
<1> HIDE DEF e, o, N
<1>7. 0 \in S
  BY <1>1, <1>2, <1>3
<1>8. ASSUME NEW n \in Nat, n \in S
      PROVE  n + 1 \in S
  <2> SUFFICES ASSUME n + 1 <= N
               PROVE  o[n + 1] \in Nat /\ o[n + 1] + e[N - (n + 1)] <= e[N]
    OBVIOUS
  <2>1. /\ n \in 0 .. N - 1 /\ n <= N /\ n + 1 \in 1 .. N /\ n + 1 \in 0 .. N
        /\ N - (n + 1) \in 0 .. N /\ N - n \in 0 .. N /\ (n + 1) - 1 = n /\ n + 1 # 0
    BY <1>1
  <2> DEFINE x == e[N - (n + 1)]
             c == multi[n + 1]
             s == shape[n + 1]
  <2>2. o[n + 1] = o[n] + c * x
    BY <1>3, <1>4, <2>1
  <2>3. e[N - n] = x * s
    BY <1>2, <2>1
  <2>4. x \in Nat /\ c \in Nat /\ s \in Nat /\ c + 1 <= s /\ e[N] \in Nat
    <3>1. N \in 0 .. N
      BY <1>1
    <3>2. x \in Nat /\ e[N] \in Nat
      BY <1>2, <2>1, <3>1
    <3>3. c \in Nat /\ s \in Nat /\ c < s
      BY <1>6, <2>1
    <3> QED
      BY <3>2, <3>3
  <2>5. o[n] \in Nat /\ o[n] + e[N - n] <= e[N]
    BY <1>8, <2>1
  <2> HIDE DEF x, c, s
  <2>6. x * (c + 1) <= x * s
    BY <2>4, MulMonotone
  <2>7. x * (c + 1) = c * x + x /\ c * x \in Nat /\ x * s \in Nat
    BY <2>4
  <2>8. o[n + 1] \in Nat /\ o[n + 1] + x <= e[N]
    <3> DEFINE y == c * x
               z == x * s
    <3>1. y \in Nat /\ z \in Nat /\ y + x <= z /\ o[n + 1] = o[n] + y
      BY <2>2, <2>6, <2>7
    <3>2. o[n] + z <= e[N]
      BY <2>3, <2>5
    <3> HIDE DEF y, z
    <3> QED
      BY <2>4, <2>5, <3>1, <3>2
  <2> QED
    BY <2>8 DEF x
<1>9. N \in S
  <2> HIDE DEF S
  <2> QED
    BY <1>1, <1>7, <1>8, SetInduction
<1>10. o[N] \in Nat /\ o[N] + 1 <= e[N] /\ e[N] \in Nat
  <2>1. N - N = 0 /\ N \in 0 .. N
    BY <1>1
  <2>2. o[N] \in Nat /\ o[N] + e[N - N] <= e[N]
    BY <1>1, <1>9
  <2> QED
    BY <1>2, <2>1, <2>2
<1> QED
  BY <1>2, <1>5, <1>10

\* An index with one more axis.
LEMMA BelowGrows ==
  ASSUME NEW m, NEW s, Below(m, s), NEW x \in Nat, NEW y \in Nat, x < y
  PROVE  Below(Append(m, x), Append(s, y))
<1> DEFINE p == Append(m, x)
           q == Append(s, y)
           N == Len(s)
<1>1. IsList(m) /\ IsList(s) /\ Len(m) = N /\ N \in Nat
  BY Lists DEF Below
<1>2. /\ IsList(p) /\ Len(p) = N + 1 /\ p[N + 1] = x
      /\ \A a \in 1 .. N : p[a] = m[a]
  BY <1>1, AppendToList
<1>3. /\ IsList(q) /\ Len(q) = N + 1 /\ q[N + 1] = y
      /\ \A a \in 1 .. N : q[a] = s[a]
  BY <1>1, AppendToList
<1>4. \A a \in 1 .. N : m[a] \in Nat /\ s[a] \in Nat /\ m[a] < s[a]
  BY DEF Below
<1> HIDE DEF p, q, N
<1>5. ASSUME NEW a \in 1 .. (N + 1)
      PROVE  p[a] \in Nat /\ q[a] \in Nat /\ p[a] < q[a]
  <2>1. CASE a = N + 1
    BY <1>2, <1>3, <2>1
  <2>2. CASE a # N + 1
    <3>1. a \in 1 .. N
      BY <1>1, <2>2
    <3> QED
      BY <1>2, <1>3, <1>4, <3>1
  <2> QED
    BY <2>1, <2>2
<1>6. Below(p, q)
  BY <1>2, <1>3, <1>5 DEF Below
<1> QED
  BY <1>6 DEF p, q

\* Dropping axes of a shape and of coordinates within it.
LEMMA KeptBelow ==
  ASSUME NEW m, NEW s, Below(m, s), NEW axes
  PROVE  Below(KeptEntries(m, axes)[Len(m)], KeptEntries(s, axes)[Len(s)])
<1> DEFINE N == Len(s)
           p == KeptEntries(m, axes)
           q == KeptEntries(s, axes)
           S == {n \in Nat : n <= N => Below(p[n], q[n])}
<1>1. N \in Nat /\ Len(m) = N
  BY BelowShape
<1>2. p = [n \in 0 .. N |-> IF n = 0 THEN << >> ELSE IF n \in Range(axes) THEN p[n - 1]
                            ELSE Append(p[n - 1], m[n])]
  BY <1>1, KeptEntriesDef
<1>3. q = [n \in 0 .. N |-> IF n = 0 THEN << >> ELSE IF n \in Range(axes) THEN q[n - 1]
                            ELSE Append(q[n - 1], s[n])]
  BY <1>1, KeptEntriesDef
<1>4. \A a \in 1 .. N : m[a] \in Nat /\ s[a] \in Nat /\ m[a] < s[a]
  BY DEF Below
<1> HIDE DEF p, q, N
<1>5. 0 \in S
  <2> DEFINE none == << >>
  <2>1. none \in Seq({}) /\ Len(none) = 0
    OBVIOUS
  <2>2. p[0] = none /\ q[0] = none
    BY <1>1, <1>2, <1>3
  <2> HIDE DEF none
  <2>3. IsList(none)
    BY <2>1, SeqIsList
  <2>4. \A a \in 1 .. Len(none) : FALSE
    BY <2>1
  <2>5. Below(none, none)
    BY <2>3, <2>4 DEF Below
  <2> QED
    BY <2>2, <2>5
<1>6. ASSUME NEW n \in Nat, n \in S
      PROVE  n + 1 \in S
  <2> SUFFICES ASSUME n + 1 <= N
               PROVE  Below(p[n + 1], q[n + 1])
    OBVIOUS
  <2>1. n + 1 \in 0 .. N /\ n + 1 \in 1 .. N /\ n + 1 # 0 /\ (n + 1) - 1 = n /\ n <= N
    BY <1>1
  <2>2. Below(p[n], q[n])
    BY <1>6, <2>1
  <2>3. p[n + 1] = IF n + 1 \in Range(axes) THEN p[n] ELSE Append(p[n], m[n + 1])
    BY <1>2, <2>1
  <2>4. q[n + 1] = IF n + 1 \in Range(axes) THEN q[n] ELSE Append(q[n], s[n + 1])
    BY <1>3, <2>1
  <2>5. Below(Append(p[n], m[n + 1]), Append(q[n], s[n + 1]))
    BY <1>4, <2>1, <2>2, BelowGrows
  <2> QED
    BY <2>2, <2>3, <2>4, <2>5
<1>7. N \in S
  <2> HIDE DEF S
  <2> QED
    BY <1>1, <1>5, <1>6, SetInduction
<1>8. Below(p[N], q[N])
  BY <1>1, <1>7
<1> QED
  BY <1>1, <1>8 DEF p, q, N

\* Every element of a tensor is added to one of the sum.
LEMMA SumTargetInRange ==
  ASSUME NEW shape \in Seq(Nat), Numel(shape) # Overflow, Numel(shape) > 0,
         NEW axes, NEW keepdim \in BOOLEAN,
         Numel(SumOutputShape(shape, axes, keepdim)) # Overflow, NEW flat \in Nat
  PROVE  SumTarget(flat, shape, axes, keepdim)
           \in 0 .. (Numel(SumOutputShape(shape, axes, keepdim)) - 1)
<1> DEFINE N == Len(shape)
           out == SumOutputShape(shape, axes, keepdim)
           multi == FlatToMulti(flat, shape)
           at == IF keepdim THEN [a \in DOMAIN shape |-> IF a \in Range(axes) THEN 0 ELSE multi[a]]
                            ELSE KeptEntries(multi, axes)[Len(multi)]
<1>1. N \in Nat /\ DOMAIN shape = 1 .. N /\ \A a \in 1 .. N : shape[a] \in Nat
  OBVIOUS
<1>2. \A a \in 1 .. N : shape[a] # 0
  BY ElementsHaveExtents
<1>3. ASSUME NEW a \in 1 .. N
      PROVE  multi[a] \in Nat /\ multi[a] < shape[a]
  <2> DEFINE s == RowStride(shape, a)
             d == shape[a]
  <2>1. s \in Nat \ {0}
    <3>1. N - a \in 0 .. N
      BY <1>1
    <3>2. ExtentsFromRight(shape)[N - a] \in Nat \ {0}
      BY <1>2, <3>1, ExtentsFromRightPositive
    <3> QED
      BY <3>2 DEF RowStride
  <2>2. d \in Nat \ {0}
    BY <1>1, <1>2
  <2>3. multi[a] = (flat \div s) % d
    BY <1>1, <1>2 DEF FlatToMulti
  <2> HIDE DEF s, d
  <2>4. flat \div s \in Nat
    BY <2>1
  <2>5. (flat \div s) % d \in 0 .. (d - 1)
    BY <2>2, <2>4
  <2>6. multi[a] \in Nat /\ multi[a] < d
    BY <2>2, <2>3, <2>5
  <2> QED
    BY <2>6 DEF d
<1>4. multi \in [1 .. N -> Nat] /\ IsList(multi) /\ Len(multi) = N
  <2>1. multi = [a \in 1 .. N |-> multi[a]]
    BY <1>1 DEF FlatToMulti
  <2> HIDE DEF multi
  <2>2. multi \in [1 .. N -> Nat]
    BY <1>3, <2>1
  <2>3. multi \in Seq(Nat) /\ Len(multi) = N
    BY <1>1, <2>2
  <2> QED
    BY <2>2, <2>3, SeqIsList
<1>5. Below(multi, shape)
  <2>1. IsList(shape)
    BY SeqIsList
  <2> HIDE DEF multi
  <2> QED
    BY <1>1, <1>3, <1>4, <2>1 DEF Below
<1> HIDE DEF multi
<1>6. Below(at, out)
  <2>1. CASE ~ keepdim
    <3>1. at = KeptEntries(multi, axes)[Len(multi)]
      BY <2>1
    <3>2. out = KeptEntries(shape, axes)[Len(shape)]
      BY <2>1 DEF SumOutputShape
    <3> HIDE DEF at, out
    <3> QED
      BY <1>5, <3>1, <3>2, KeptBelow
  <2>2. CASE keepdim
    <3>1. at = [a \in 1 .. N |-> IF a \in Range(axes) THEN 0 ELSE multi[a]]
      BY <1>1, <2>2
    <3>2. out = [a \in 1 .. N |-> IF a \in Range(axes) THEN 1 ELSE shape[a]]
      BY <1>1, <2>2 DEF SumOutputShape
    <3> HIDE DEF at, out
    <3>3. /\ \A a \in 1 .. N : at[a] = IF a \in Range(axes) THEN 0 ELSE multi[a]
          /\ \A a \in 1 .. N : out[a] = IF a \in Range(axes) THEN 1 ELSE shape[a]
      BY <3>1, <3>2
    <3>4. \A a \in 1 .. N : at[a] \in Nat /\ out[a] \in Nat /\ at[a] < out[a]
      BY <1>1, <1>3, <3>3
    <3>5. at \in [1 .. N -> Nat] /\ out \in [1 .. N -> Nat]
      BY <3>1, <3>2, <3>4
    <3>6. at \in Seq(Nat) /\ out \in Seq(Nat) /\ Len(at) = N /\ Len(out) = N
      <4>1. at \in Seq(Nat) /\ Len(at) = N
        BY <1>1, <3>5
      <4>2. out \in Seq(Nat) /\ Len(out) = N
        BY <1>1, <3>5
      <4> QED
        BY <4>1, <4>2
    <3>7. IsList(at) /\ IsList(out)
      BY <3>6, SeqIsList
    <3> QED
      BY <3>4, <3>6, <3>7 DEF Below
  <2> QED
    BY <2>1, <2>2
<1>7. SumTarget(flat, shape, axes, keepdim) =
        IF Len(shape) = Len(axes) /\ ~ keepdim THEN 0 ELSE MultiToFlat(at, out)
  BY DEF SumTarget, multi
<1> HIDE DEF at, out
<1>8. Numel(out) # Overflow
  BY DEF out
<1>9. MultiToFlat(at, out) \in 0 .. (Numel(out) - 1)
  BY <1>6, <1>8, OffsetInRange
<1>10. Numel(out) \in Nat /\ 0 \in 0 .. (Numel(out) - 1)
  <2>1. out \in Seq(Nat)
    BY <1>6, BelowShape
  <2>2. Numel(out) \in Nat
    BY <1>8, <2>1, NumelFits, MaxUsizeAssumption
  <2> QED
    BY <1>9, <2>2
<1> QED
  BY <1>7, <1>9, <1>10 DEF out

\* Summing over axes, as a recursion over the elements.
LEMMA ScatteredDef ==
  ASSUME NEW t, Cardinality(Elements(t)) \in Nat, NEW axes, NEW keepdim
  PROVE  Scattered(t, axes, keepdim) =
           [n \in 0 .. Cardinality(Elements(t)) |->
              IF n = 0 THEN Zeros(SumOutputShape(t.shape, axes, keepdim))
              ELSE AddAt(Scattered(t, axes, keepdim)[n - 1], SumTarget(n - 1, t.shape, axes, keepdim), t.data[n - 1])]
<1> DEFINE N == Cardinality(Elements(t))
           zero == Zeros(SumOutputShape(t.shape, axes, keepdim))
           next(n, old) == AddAt(old, SumTarget(n - 1, t.shape, axes, keepdim), t.data[n - 1])
           Upto(m, f) == f = [n \in 0 .. m |-> IF n = 0 THEN zero ELSE next(n, f[n - 1])]
           S == {m \in Nat : \E f : Upto(m, f)}
<1>0. N \in Nat
  OBVIOUS
<1>1. Scattered(t, axes, keepdim) = CHOOSE f : Upto(N, f)
  BY DEF Scattered
<1> HIDE DEF next, zero
<1>2. 0 \in S
  <2> DEFINE f == [n \in 0 .. 0 |-> zero]
  <2>1. Upto(0, f)
    OBVIOUS
  <2> QED
    BY <2>1
<1>3. ASSUME NEW m \in Nat, m \in S
      PROVE  m + 1 \in S
  <2>1. PICK f : Upto(m, f)
    BY <1>3
  <2> DEFINE h == [n \in 0 .. (m + 1) |-> IF n = m + 1 THEN next(n, f[m]) ELSE f[n]]
  <2>2. ASSUME NEW n \in 0 .. (m + 1)
        PROVE  h[n] = IF n = 0 THEN zero ELSE next(n, h[n - 1])
    <3>1. CASE n = 0
      BY <2>1, <3>1
    <3>2. CASE n = m + 1
      BY <3>2
    <3>3. CASE n # 0 /\ n # m + 1
      <4>1. n \in 0 .. m /\ n - 1 \in 0 .. m
        BY <3>3
      <4>2. h[n] = f[n] /\ h[n - 1] = f[n - 1]
        BY <4>1, <3>3
      <4>3. f[n] = next(n, f[n - 1])
        BY <2>1, <4>1, <3>3
      <4> QED
        BY <4>2, <4>3, <3>3
    <3> QED
      BY <3>1, <3>2, <3>3
  <2>3. Upto(m + 1, h)
    <3> HIDE DEF h
    <3>1. h = [n \in 0 .. (m + 1) |-> h[n]]
      BY DEF h
    <3> QED
      BY <2>2, <3>1
  <2> HIDE DEF Upto, h
  <2> QED
    BY <2>3
<1>4. N \in S
  <2> HIDE DEF N, S
  <2> QED
    BY <1>0, <1>2, <1>3, SetInduction
<1>5. Upto(N, Scattered(t, axes, keepdim))
  <2> HIDE DEF Upto
  <2>1. \E f : Upto(N, f)
    BY <1>4
  <2> QED
    BY <1>1, <2>1
<1> QED
  BY <1>5 DEF next, zero


\* A sum fills its shape.
LEMMA SumIsTensor ==
  ASSUME NEW t, IsTensor(t), t.shape \in Seq(Nat), NEW axes, NEW keepdim
  PROVE  /\ EvalSum(t, axes, keepdim).shape = SumOutputShape(t.shape, axes, keepdim)
         /\ Elements(EvalSum(t, axes, keepdim)) =
              0 .. (Numel(SumOutputShape(t.shape, axes, keepdim)) - 1)
<1> DEFINE out == SumOutputShape(t.shape, axes, keepdim)
           f == Scattered(t, axes, keepdim)
           N == Cardinality(Elements(t))
           target(n) == SumTarget(n, t.shape, axes, keepdim)
           zeros == Zeros(out)
           D == 0 .. (Numel(out) - 1)
           S == {n \in Nat : n <= N => DOMAIN f[n] = D}
<1>1. N \in Nat
  <2>1. Numel(t.shape) \in Nat
    BY NumelFits, MaxUsizeAssumption DEF IsTensor
  <2>2. IsFiniteSet(0 .. (Numel(t.shape) - 1))
    BY <2>1, FS_Interval
  <2> QED
    BY <2>2, FS_CardinalityType DEF IsTensor
<1>2. f = [n \in 0 .. N |-> IF n = 0 THEN zeros
                            ELSE AddAt(f[n - 1], target(n - 1), t.data[n - 1])]
  BY <1>1, ScatteredDef
<1>3. DOMAIN zeros = D
  BY DEF Zeros
<1>4. EvalSum(t, axes, keepdim).shape = out /\ Elements(EvalSum(t, axes, keepdim)) = DOMAIN f[N]
  BY DEF EvalSum, Elements
<1> HIDE DEF f, N, zeros, D, target
<1>5. 0 \in S
  BY <1>1, <1>2, <1>3
<1>6. ASSUME NEW n \in Nat, n \in S
      PROVE  n + 1 \in S
  <2> SUFFICES ASSUME n + 1 <= N
               PROVE  DOMAIN f[n + 1] = D
    OBVIOUS
  <2>1. n + 1 \in 0 .. N /\ n + 1 # 0 /\ (n + 1) - 1 = n /\ n <= N
    BY <1>1
  <2>2. f[n + 1] = AddAt(f[n], target(n), t.data[n])
    BY <1>2, <2>1
  <2>3. DOMAIN f[n] = D
    BY <1>6, <2>1
  <2> QED
    BY <2>2, <2>3 DEF AddAt
<1>7. N \in S
  <2> HIDE DEF S
  <2> QED
    BY <1>1, <1>5, <1>6, SetInduction
<1>8. DOMAIN f[N] = D
  BY <1>1, <1>7
<1> QED
  BY <1>4, <1>8 DEF D

\* Every operation but a reshape fills the shape that it is given.
LEMMA ElementwiseFills ==
  ASSUME NEW l, NEW r
  PROVE  /\ EvalAdd(l, r).shape = l.shape
         /\ Elements(EvalAdd(l, r)) = 0 .. (Numel(l.shape) - 1)
         /\ EvalSub(l, r).shape = l.shape
         /\ Elements(EvalSub(l, r)) = 0 .. (Numel(l.shape) - 1)
         /\ EvalMul(l, r).shape = l.shape
         /\ Elements(EvalMul(l, r)) = 0 .. (Numel(l.shape) - 1)
<1>1. EvalAdd(l, r).shape = l.shape /\ Elements(EvalAdd(l, r)) = 0 .. (Numel(l.shape) - 1)
  BY DEF EvalAdd, Tensor, Elements
<1>2. EvalSub(l, r).shape = l.shape /\ Elements(EvalSub(l, r)) = 0 .. (Numel(l.shape) - 1)
  BY DEF EvalSub, Tensor, Elements
<1>3. EvalMul(l, r).shape = l.shape /\ Elements(EvalMul(l, r)) = 0 .. (Numel(l.shape) - 1)
  BY DEF EvalMul, Tensor, Elements
<1> QED
  BY <1>1, <1>2, <1>3

\* A unary operation fills its operand's shape.
LEMMA UnaryFills ==
  ASSUME NEW l, NEW t, t \in {EvalNeg(l), EvalRelu(l)}
  PROVE  t.shape = l.shape /\ Elements(t) = 0 .. (Numel(l.shape) - 1)
<1>1. ASSUME t = EvalNeg(l)
      PROVE  t.shape = l.shape /\ Elements(t) = 0 .. (Numel(l.shape) - 1)
  BY <1>1 DEF EvalNeg, Tensor, Elements
<1>2. ASSUME t = EvalRelu(l)
      PROVE  t.shape = l.shape /\ Elements(t) = 0 .. (Numel(l.shape) - 1)
  BY <1>2 DEF EvalRelu, Tensor, Elements
<1> QED
  BY <1>1, <1>2

\* A matrix product fills its shape.
LEMMA MatmulFills ==
  ASSUME NEW l, NEW r
  PROVE  /\ EvalMatmul(l, r).shape = <<l.shape[1], r.shape[2]>>
         /\ Elements(EvalMatmul(l, r)) = 0 .. (Numel(<<l.shape[1], r.shape[2]>>) - 1)
BY DEF EvalMatmul, Tensor, Elements

\* A constant fills its shape.
LEMMA ConstFills ==
  ASSUME NEW node, node.op = "Const", NEW env, NEW values
  PROVE  /\ EvalNode(node, env, values).shape = node.attr.shape
         /\ Elements(EvalNode(node, env, values)) = 0 .. (Numel(node.attr.shape) - 1)
<1>1. EvalNode(node, env, values) =
        Tensor(node.attr.shape, LAMBDA i : LiftLiteral(node.attr.data[i + 1]))
  BY DEF EvalNode
<1> QED
  BY <1>1 DEF Tensor, Elements

\* The factors of a product hold every element that it reads.
LEMMA ProductIndices ==
  ASSUME NEW l, IsTensor(l), NEW r, IsTensor(r), l.shape \in Seq(Nat), r.shape \in Seq(Nat),
         Len(l.shape) = 2, Len(r.shape) = 2, l.shape[2] = r.shape[1]
  PROVE  ProductFits(l, r)
<1> DEFINE m == l.shape[1]
           k == l.shape[2]
           n == r.shape[2]
<1>0. \A s \in Seq(Nat) : Len(s) = 2 => s[1] \in Nat /\ s[2] \in Nat
  OBVIOUS
<1>1. m \in Nat /\ k \in Nat /\ n \in Nat
  BY <1>0
<1>2. ASSUME NEW t, IsTensor(t), t.shape \in Seq(Nat), Len(t.shape) = 2,
             NEW i \in 0 .. (t.shape[1] - 1), NEW j \in 0 .. (t.shape[2] - 1)
      PROVE  i * t.shape[2] + j \in Elements(t)
  <2> DEFINE a == t.shape[1]
             b == t.shape[2]
             f == ExtentProducts(t.shape)
  <2>0. a \in Nat /\ b \in Nat /\ i \in 0 .. (a - 1) /\ j \in 0 .. (b - 1)
    <3>0. t.shape \in Seq(Nat) /\ Len(t.shape) = 2
      BY <1>2
    <3>1. a \in Nat /\ b \in Nat
      BY <3>0, <1>0
    <3> QED
      BY <3>1
  <2>1. a \in Nat \ {0} /\ b \in Nat \ {0} /\ i \in Nat /\ j \in Nat /\ i <= a - 1 /\ j <= b - 1
    <3> HIDE DEF a, b
    <3> QED
      BY <2>0
  <2>2. \A x \in 1 .. Len(t.shape) : t.shape[x] # 0
    BY <1>2, <2>1
  <2>3. f[0] = 1 /\ f[1] = f[0] * a /\ f[2] = f[1] * b
    <3>1. f[0] = 1 /\ \A x \in 0 .. Len(t.shape) - 1 : f[x + 1] = f[x] * t.shape[x + 1]
      BY <1>2, <2>2, ExtentProductsPositive DEF IsTensor
    <3> HIDE DEF f
    <3>2. 0 \in 0 .. Len(t.shape) - 1 /\ 1 \in 0 .. Len(t.shape) - 1 /\ 0 + 1 = 1 /\ 1 + 1 = 2
      BY <1>2
    <3>3. f[0 + 1] = f[0] * t.shape[0 + 1] /\ f[1 + 1] = f[1] * t.shape[1 + 1]
      BY <3>1, <3>2
    <3> QED
      BY <3>1, <3>2, <3>3
  <2> HIDE DEF f
  <2>4. Numel(t.shape) = a * b
    BY <1>2, <2>1, <2>3 DEF Numel, f
  <2> HIDE DEF a, b
  <2>5. i * b <= (a - 1) * b
    BY <2>1, MulMonotone
  <2>6. (a - 1) * b = a * b - b /\ i * b \in Nat /\ a * b \in Nat
    BY <2>1
  <2>7. i * b + j \in 0 .. (a * b - 1)
    <3> DEFINE x == i * b
               y == a * b
    <3>1. x \in Nat /\ y \in Nat /\ x <= y - b
      BY <2>5, <2>6
    <3> HIDE DEF x, y
    <3>2. x + j \in 0 .. (y - 1)
      BY <2>1, <3>1
    <3> QED
      BY <3>2 DEF x, y
  <2> QED
    BY <1>2, <2>4, <2>7 DEF IsTensor, b
<1>3. ASSUME NEW row \in 0 .. (m - 1), NEW inner \in 0 .. (k - 1)
      PROVE  LeftOffset(row, inner, l) \in Elements(l)
  BY <1>2 DEF LeftOffset
<1>4. ASSUME NEW inner \in 0 .. (k - 1), NEW col \in 0 .. (n - 1)
      PROVE  RightOffset(inner, col, r) \in Elements(r)
  BY <1>2 DEF RightOffset
<1> QED
  BY <1>3, <1>4 DEF ProductFits

\* A node that inference accepts evaluates to a tensor of the shape inferred, if its
\* operands did and that shape has an element count, unless its input is missing or is
\* not the one declared, or its literal is refused.
LEMMA NodeEvaluates ==
  ASSUME NEW node, node.op \in Operations, node.args \in Seq(Nat),
         Len(node.args) = Arity(node.op), AttrFits(node),
         NEW types, \A k \in DOMAIN node.args : node.args[k] \in DOMAIN types,
         NEW values, \A k \in DOMAIN node.args :
            /\ IsTensor(values[node.args[k]])
            /\ values[node.args[k]].shape = types[node.args[k]].shape
            /\ types[node.args[k]].shape \in Seq(Nat),
         NEW env, IsEnvironment(env),
         InferNode(node, types).err = "None", Numel(InferNode(node, types).shape) # Overflow
  PROVE  /\ NodeError(node, env, values) # "Internal"
         /\ NodeError(node, env, values) = "None" =>
              /\ EvalNode(node, env, values).shape = InferNode(node, types).shape
              /\ IsTensor(EvalNode(node, env, values))
<1> DEFINE type == InferNode(node, types)
           value == EvalNode(node, env, values)
           error == NodeError(node, env, values)
           tl == types[node.args[1]]
           tr == types[node.args[2]]
           l == values[node.args[1]]
           r == values[node.args[2]]
<1> SUFFICES error # "Internal" /\ (error = "None" => value.shape = type.shape /\ IsTensor(value))
  OBVIOUS
<1>1. ~ (\E k \in DOMAIN node.args : node.args[k] \notin DOMAIN types)
      /\ type.err = "None" /\ Numel(type.shape) # Overflow
  OBVIOUS
<1>2. \A kind : TypeErr(kind).err = kind
  BY DEF TypeErr
<1>3. \A dtype, shape : TypeOf(dtype, shape).shape = shape
  BY DEF TypeOf
<1>4. ASSUME Arity(node.op) \in {1, 2}
      PROVE  IsTensor(l) /\ l.shape = tl.shape /\ tl.shape \in Seq(Nat)
  BY <1>4
<1>5. ASSUME Arity(node.op) = 2
      PROVE  IsTensor(r) /\ r.shape = tr.shape /\ tr.shape \in Seq(Nat)
  BY <1>5
<1>6. ASSUME value.shape = type.shape,
             Elements(value) = 0 .. (Numel(type.shape) - 1)
      PROVE  value.shape = type.shape /\ IsTensor(value)
  BY <1>1, <1>6 DEF IsTensor
<1> HIDE DEF type, value, error, tl, tr, l, r
<1>7. CASE node.op = "Input"
  <2>1. type = TypeOf(node.attr.dtype, node.attr.shape)
    BY <1>1, <1>7 DEF InferNode, type, UnaryOps
  <2>2. type.shape = node.attr.shape
    BY <1>3, <2>1
  <2>3. error = InputError(node, env) /\ value = env[node.attr.name]
    BY <1>7 DEF error, value, NodeError, EvalNode
  <2>4. error # "Internal"
    BY <2>3 DEF InputError
  <2>5. ASSUME error = "None"
        PROVE  node.attr.name \in DOMAIN env /\ env[node.attr.name].shape = node.attr.shape
    BY <2>3, <2>5 DEF InputError
  <2> QED
    BY <2>2, <2>3, <2>4, <2>5 DEF IsEnvironment
<1>8. CASE node.op = "Const"
  <2>1. type = TypeOf(node.attr.dtype, node.attr.shape)
    BY <1>1, <1>8 DEF InferNode, type, UnaryOps
  <2>2. type.shape = node.attr.shape
    BY <1>3, <2>1
  <2>3. error = LiteralError(node)
    BY <1>8 DEF error, NodeError
  <2>4. error # "Internal"
    BY <2>3 DEF LiteralError
  <2>5. value.shape = node.attr.shape /\ Elements(value) = 0 .. (Numel(node.attr.shape) - 1)
    BY <1>8, ConstFills DEF value
  <2> QED
    BY <1>6, <2>2, <2>4, <2>5
<1>9. CASE node.op \in {"Add", "Sub", "Mul"}
  <2>1. type = InferElementwise(tl, tr)
    BY <1>1, <1>9 DEF InferNode, type, tl, tr, UnaryOps
  <2>2. type = tl /\ tl.shape = tr.shape
    BY <1>1, <1>2, <2>1 DEF InferElementwise
  <2>3. Arity(node.op) = 2
    BY <1>9 DEF Arity, UnaryOps, BinaryOps
  <2>4. OperandsFit(node, values)
    <3>1. l.shape = r.shape /\ Elements(l) = Elements(r)
      BY <1>4, <1>5, <2>2, <2>3 DEF IsTensor
    <3> QED
      BY <1>9, <3>1 DEF OperandsFit, l, r
  <2>5. error = "None"
    BY <1>9, <2>4 DEF error, NodeError
  <2>6. value = EvalAdd(l, r) \/ value = EvalSub(l, r) \/ value = EvalMul(l, r)
    BY <1>9 DEF value, EvalNode, l, r
  <2>7. value.shape = l.shape /\ Elements(value) = 0 .. (Numel(l.shape) - 1)
    BY <2>6, ElementwiseFills
  <2> QED
    BY <1>4, <1>6, <2>2, <2>3, <2>5, <2>7
<1>10. CASE node.op \in UnaryOps
  <2>1. type = InferUnary(tl)
    BY <1>1, <1>10 DEF InferNode, type, tl, UnaryOps
  <2>2. type = tl
    BY <1>1, <1>2, <2>1 DEF InferUnary
  <2>3. Arity(node.op) = 1
    BY <1>10 DEF Arity, UnaryOps, BinaryOps
  <2>4. error = "None"
    BY <1>10 DEF error, NodeError, OperandsFit, UnaryOps
  <2>5. value \in {EvalNeg(l), EvalRelu(l)}
    BY <1>10 DEF value, EvalNode, l, UnaryOps
  <2>6. value.shape = l.shape /\ Elements(value) = 0 .. (Numel(l.shape) - 1)
    BY <2>5, UnaryFills
  <2> QED
    BY <1>4, <1>6, <2>2, <2>3, <2>4, <2>6
<1>11. CASE node.op = "Matmul"
  <2>1. type = InferMatmul(tl, tr)
    BY <1>1, <1>11 DEF InferNode, type, tl, tr, UnaryOps
  <2>2. /\ Len(tl.shape) = 2 /\ Len(tr.shape) = 2 /\ tl.shape[2] = tr.shape[1]
        /\ type = TypeOf(tl.dtype, <<tl.shape[1], tr.shape[2]>>)
    BY <1>1, <1>2, <2>1 DEF InferMatmul
  <2>3. Arity(node.op) = 2
    BY <1>11 DEF Arity, UnaryOps, BinaryOps
  <2>4. ProductFits(l, r)
    BY <1>4, <1>5, <2>2, <2>3, ProductIndices
  <2>5. error = "None"
    BY <1>11, <2>4 DEF error, NodeError, OperandsFit, l, r
  <2>6. value = EvalMatmul(l, r)
    BY <1>11 DEF value, EvalNode, l, r
  <2>7. type.shape = <<l.shape[1], r.shape[2]>>
    BY <1>3, <1>4, <1>5, <2>2, <2>3
  <2>8. value.shape = type.shape /\ Elements(value) = 0 .. (Numel(type.shape) - 1)
    BY <2>6, <2>7, MatmulFills
  <2> QED
    BY <1>6, <2>5, <2>8
<1>12. CASE node.op = "Sum"
  <2> DEFINE axes == node.attr.axes
             keepdim == node.attr.keepdim
             out == SumOutputShape(l.shape, axes, keepdim)
  <2>1. type = InferSum(tl, axes, keepdim)
    BY <1>1, <1>12 DEF InferNode, type, tl, UnaryOps
  <2>2. type = TypeOf(tl.dtype, ReducedShape(tl.shape, axes, keepdim))
    <3> HIDE DEF axes, keepdim
    <3> QED
      BY <1>1, <1>2, <2>1 DEF InferSum
  <2>3. Arity(node.op) = 1
    BY <1>12 DEF Arity, UnaryOps, BinaryOps
  <2>4. IsTensor(l) /\ l.shape = tl.shape /\ l.shape \in Seq(Nat) /\ keepdim \in BOOLEAN
    BY <1>4, <1>12, <2>3 DEF AttrFits
  <2>5. type.shape = out
    BY <1>3, <2>2, <2>4, SumShapeIsReduced
  <2>6. SumFits(l, axes, keepdim)
    <3> SUFFICES ASSUME NEW flat \in Elements(l)
                 PROVE  SumTarget(flat, l.shape, axes, keepdim) \in 0 .. (Numel(out) - 1)
      BY DEF SumFits
    <3>1. Numel(l.shape) \in Nat
      BY <2>4, NumelFits, MaxUsizeAssumption DEF IsTensor
    <3>2. flat \in 0 .. (Numel(l.shape) - 1)
      BY <2>4 DEF IsTensor
    <3>3. flat \in Nat /\ Numel(l.shape) > 0
      BY <3>1, <3>2
    <3> QED
      BY <1>1, <2>4, <2>5, <3>3, SumTargetInRange DEF IsTensor
  <2>7. error = "None"
    BY <1>12, <2>6 DEF error, NodeError, OperandsFit, l
  <2>8. value = EvalSum(l, axes, keepdim)
    BY <1>12 DEF value, EvalNode, l
  <2>9. value.shape = out /\ Elements(value) = 0 .. (Numel(out) - 1)
    BY <2>4, <2>8, SumIsTensor
  <2> QED
    BY <1>6, <2>5, <2>7, <2>9
<1>13. CASE node.op = "Reshape"
  <2>1. type = InferReshape(tl, node.attr.shape)
    BY <1>1, <1>13 DEF InferNode, type, tl, UnaryOps
  <2>2. type = TypeOf(tl.dtype, node.attr.shape) /\ Numel(tl.shape) = Numel(node.attr.shape)
    BY <1>1, <1>2, <2>1 DEF InferReshape
  <2>3. Arity(node.op) = 1
    BY <1>13 DEF Arity, UnaryOps, BinaryOps
  <2>4. error = "None"
    BY <1>13 DEF error, NodeError, OperandsFit
  <2>5. value = EvalReshape(l, node.attr.shape)
    BY <1>13 DEF value, EvalNode, l
  <2>6. value.shape = node.attr.shape /\ Elements(value) = Elements(l)
    BY <2>5 DEF EvalReshape, Elements
  <2>7. type.shape = node.attr.shape
    BY <1>3, <2>2
  <2>8. Elements(l) = 0 .. (Numel(type.shape) - 1)
    BY <1>4, <2>2, <2>3, <2>7 DEF IsTensor
  <2> QED
    BY <1>6, <2>4, <2>6, <2>7, <2>8
<1> QED
  BY <1>7, <1>8, <1>9, <1>10, <1>11, <1>12, <1>13 DEF Operations, BinaryOps, UnaryOps

\* Evaluation, as a recursion over the nodes.
LEMMA EvaluationsDef ==
  ASSUME NEW g, Len(g.nodes) \in Nat, NEW env, NEW types
  PROVE  Evaluations(g, env, types) =
           [n \in 0 .. Len(g.nodes) |->
              IF n = 0 THEN [err |-> "None", values |-> << >>]
              ELSE EvalNext(Evaluations(g, env, types)[n - 1], g.nodes[n], env, types[n])]
<1> DEFINE N == Len(g.nodes)
           zero == [err |-> "None", values |-> << >>]
           next(n, old) == EvalNext(old, g.nodes[n], env, types[n])
           Upto(m, f) == f = [n \in 0 .. m |-> IF n = 0 THEN zero ELSE next(n, f[n - 1])]
           S == {m \in Nat : \E f : Upto(m, f)}
<1>0. N \in Nat
  OBVIOUS
<1>1. Evaluations(g, env, types) = CHOOSE f : Upto(N, f)
  BY DEF Evaluations
<1> HIDE DEF next, zero
<1>2. 0 \in S
  <2> DEFINE f == [n \in 0 .. 0 |-> zero]
  <2>1. Upto(0, f)
    OBVIOUS
  <2> QED
    BY <2>1
<1>3. ASSUME NEW m \in Nat, m \in S
      PROVE  m + 1 \in S
  <2>1. PICK f : Upto(m, f)
    BY <1>3
  <2> DEFINE h == [n \in 0 .. (m + 1) |-> IF n = m + 1 THEN next(n, f[m]) ELSE f[n]]
  <2>2. ASSUME NEW n \in 0 .. (m + 1)
        PROVE  h[n] = IF n = 0 THEN zero ELSE next(n, h[n - 1])
    <3>1. CASE n = 0
      BY <2>1, <3>1
    <3>2. CASE n = m + 1
      BY <3>2
    <3>3. CASE n # 0 /\ n # m + 1
      <4>1. n \in 0 .. m /\ n - 1 \in 0 .. m
        BY <3>3
      <4>2. h[n] = f[n] /\ h[n - 1] = f[n - 1]
        BY <4>1, <3>3
      <4>3. f[n] = next(n, f[n - 1])
        BY <2>1, <4>1, <3>3
      <4> QED
        BY <4>2, <4>3, <3>3
    <3> QED
      BY <3>1, <3>2, <3>3
  <2>3. Upto(m + 1, h)
    <3> HIDE DEF h
    <3>1. h = [n \in 0 .. (m + 1) |-> h[n]]
      BY DEF h
    <3> QED
      BY <2>2, <3>1
  <2> HIDE DEF Upto, h
  <2> QED
    BY <2>3
<1>4. N \in S
  <2> HIDE DEF N, S
  <2> QED
    BY <1>0, <1>2, <1>3, SetInduction
<1>5. Upto(N, Evaluations(g, env, types))
  <2> HIDE DEF Upto
  <2>1. \E f : Upto(N, f)
    BY <1>4
  <2> QED
    BY <1>1, <2>1
<1> QED
  BY <1>5 DEF next, zero


\* A state of evaluation.
IsRun(run) == \E err, values : run = [err |-> err, values |-> values]

\* What a tensor adds to a state of evaluation: itself, or an internal error.
LEMMA CheckedOf ==
  ASSUME NEW e, NEW v, NEW t, NEW type
  PROVE  Checked([err |-> e, values |-> v], t, type) =
           IF t.shape = type.shape /\ IsTensor(t)
           THEN [err |-> e, values |-> Append(v, t)]
           ELSE [err |-> "Internal", values |-> v]
BY DEF Checked

\* A step of evaluation.
LEMMA EvalNextIs ==
  ASSUME NEW run, IsRun(run), NEW node, NEW env, NEW type
  PROVE  LET next  == EvalNext(run, node, env, type)
             error == NodeError(node, env, run.values)
             value == EvalNode(node, env, run.values)
         IN  /\ IsRun(next)
             /\ run.err # "None" => next = run
             /\ run.err = "None" /\ error # "None" => next.err = error
             /\ run.err = "None" /\ error = "None"
                /\ ~ (value.shape = type.shape /\ IsTensor(value)) => next.err = "Internal"
             /\ run.err = "None" /\ error = "None" /\ value.shape = type.shape
                /\ IsTensor(value) =>
                   next.err = "None" /\ next.values = Append(run.values, value)
<1> DEFINE next  == EvalNext(run, node, env, type)
           error == NodeError(node, env, run.values)
           value == EvalNode(node, env, run.values)
<1>1. PICK e, v : run = [err |-> e, values |-> v]
  BY DEF IsRun
<1>2. run.err = e /\ run.values = v
  BY <1>1
<1>3. [run EXCEPT !.err = error] = [err |-> error, values |-> v]
  BY <1>1
<1>4. next = IF e # "None" THEN run
             ELSE IF error # "None" THEN [err |-> error, values |-> v]
             ELSE Checked(run, value, type)
  BY <1>2, <1>3 DEF EvalNext
<1>5. Checked(run, value, type) =
        IF value.shape = type.shape /\ IsTensor(value)
        THEN [err |-> e, values |-> Append(v, value)] ELSE [err |-> "Internal", values |-> v]
  BY <1>1, CheckedOf
<1>6. \A x, y : IsRun([err |-> x, values |-> y])
  BY DEF IsRun
<1> HIDE DEF next, error, value
<1>7. /\ IsRun(next)
      /\ run.err # "None" => next = run
      /\ run.err = "None" /\ error # "None" => next.err = error
      /\ run.err = "None" /\ error = "None"
         /\ ~ (value.shape = type.shape /\ IsTensor(value)) => next.err = "Internal"
      /\ run.err = "None" /\ error = "None" /\ value.shape = type.shape /\ IsTensor(value) =>
            next.err = "None" /\ next.values = Append(run.values, value)
  BY <1>1, <1>2, <1>4, <1>5, <1>6
<1> QED
  BY <1>7 DEF next, error, value

\* The inputs of a graph are bound as declared, and its literals are accepted.
Supplied(g, env) ==
  \A i \in Ids(g) : /\ g.nodes[i].op = "Input" => InputError(g.nodes[i], env) = "None"
                    /\ g.nodes[i].op = "Const" => LiteralError(g.nodes[i]) = "None"

\* A run that has computed a tensor of the shape inferred for each node so far.
RunFits(g, types, values, n) ==
  /\ IsList(values) /\ Len(values) = n
  /\ \A i \in 1 .. n : IsTensor(values[i]) /\ values[i].shape = types[i].shape

\* A step of an evaluation that fits its types, and what it keeps.
LEMMA RunGrows ==
  ASSUME NEW g, NodesFit(g), NEW types, Typing(g, types), Len(types) = Len(g.nodes),
         \A i \in Ids(g) : Numel(types[i].shape) # Overflow,
         NEW env, IsEnvironment(env), NEW n \in Nat, n + 1 <= Len(g.nodes),
         NEW run, IsRun(run), run.err # "Internal",
         run.err = "None" => RunFits(g, types, run.values, n)
  PROVE  LET next == EvalNext(run, g.nodes[n + 1], env, types[n + 1])
         IN  /\ IsRun(next) /\ next.err # "Internal"
             /\ next.err = "None" => RunFits(g, types, next.values, n + 1)
             /\ Supplied(g, env) /\ run.err = "None" => next.err = "None"
<1> DEFINE node == g.nodes[n + 1]
           type == types[n + 1]
           values == run.values
           next == EvalNext(run, node, env, type)
           error == NodeError(node, env, values)
           value == EvalNode(node, env, values)
<1> SUFFICES /\ IsRun(next) /\ next.err # "Internal"
             /\ next.err = "None" => RunFits(g, types, next.values, n + 1)
             /\ Supplied(g, env) /\ run.err = "None" => next.err = "None"
  OBVIOUS
<1>1. /\ IsRun(next)
      /\ run.err # "None" => next = run
      /\ run.err = "None" /\ error # "None" => next.err = error
      /\ run.err = "None" /\ error = "None" /\ value.shape = type.shape /\ IsTensor(value) =>
            next.err = "None" /\ next.values = Append(values, value)
  BY EvalNextIs
<1>2. n + 1 \in Ids(g) /\ n + 1 \in 1 .. Len(types) /\ (n + 1) - 1 = n
  BY DEF NodesFit, Ids
<1>3. /\ node.op \in Operations /\ node.args \in Seq(Nat)
      /\ Len(node.args) = Arity(node.op) /\ AttrFits(node)
      /\ \A k \in DOMAIN node.args : node.args[k] \in 1 .. n
  BY <1>2 DEF NodesFit
<1>4. /\ DOMAIN types = 1 .. Len(types) /\ n \in Nat /\ n <= Len(types) /\ Len(types) \in Nat
      /\ \A i \in 1 .. Len(types) : types[i].shape \in Seq(Nat)
      /\ type = InferNode(node, types) /\ type.err = "None"
  <2>1. DOMAIN types = 1 .. Len(types) /\ Len(types) \in Nat
    BY Lists DEF Typing
  <2> QED
    BY <1>2, <2>1 DEF Typing, TypeFits
<1>5. Numel(type.shape) # Overflow
  BY <1>2
<1>6. ASSUME run.err = "None"
      PROVE  /\ error # "Internal"
             /\ error = "None" => value.shape = type.shape /\ IsTensor(value)
  <2>1. \A k \in DOMAIN node.args :
           /\ node.args[k] \in DOMAIN types
           /\ IsTensor(values[node.args[k]])
           /\ values[node.args[k]].shape = types[node.args[k]].shape
           /\ types[node.args[k]].shape \in Seq(Nat)
    <3> SUFFICES ASSUME NEW k \in DOMAIN node.args
                 PROVE  /\ node.args[k] \in DOMAIN types
                        /\ IsTensor(values[node.args[k]])
                        /\ values[node.args[k]].shape = types[node.args[k]].shape
                        /\ types[node.args[k]].shape \in Seq(Nat)
      OBVIOUS
    <3>1. node.args[k] \in 1 .. n
      BY <1>3
    <3> HIDE DEF node, values
    <3>2. node.args[k] \in 1 .. Len(types)
      BY <1>4, <3>1
    <3>3. \A i \in 1 .. n : IsTensor(values[i]) /\ values[i].shape = types[i].shape
      BY <1>6 DEF RunFits, values
    <3> QED
      BY <1>4, <3>1, <3>2, <3>3
  <2>2. InferNode(node, types).err = "None" /\ Numel(InferNode(node, types).shape) # Overflow
    BY <1>4, <1>5
  <2> HIDE DEF node, values, error, value, type
  <2>3. /\ NodeError(node, env, values) # "Internal"
        /\ NodeError(node, env, values) = "None" =>
             /\ EvalNode(node, env, values).shape = InferNode(node, types).shape
             /\ IsTensor(EvalNode(node, env, values))
    BY <1>3, <2>1, <2>2, NodeEvaluates
  <2> QED
    BY <1>4, <2>3 DEF error, value
<1>7. ASSUME Supplied(g, env), run.err = "None"
      PROVE  error = "None"
  <2>1. /\ node.op = "Input" => InputError(node, env) = "None"
        /\ node.op = "Const" => LiteralError(node) = "None"
    BY <1>2, <1>7 DEF Supplied
  <2> QED
    BY <1>6, <1>7, <2>1 DEF NodeError
<1> HIDE DEF node, values, error, value, type, next
<1>8. ASSUME run.err = "None", error = "None"
      PROVE  next.err = "None" /\ RunFits(g, types, next.values, n + 1)
  <2>1. next.err = "None" /\ next.values = Append(values, value)
    BY <1>1, <1>6, <1>8
  <2>2. IsList(values) /\ Len(values) = n
        /\ \A i \in 1 .. n : IsTensor(values[i]) /\ values[i].shape = types[i].shape
    BY <1>8 DEF RunFits, values
  <2>3. /\ IsList(Append(values, value)) /\ Len(Append(values, value)) = n + 1
        /\ \A i \in 1 .. n : Append(values, value)[i] = values[i]
        /\ Append(values, value)[n + 1] = value
    BY <2>2, AppendToList
  <2>4. \A i \in 1 .. (n + 1) : i \in 1 .. n \/ i = n + 1
    OBVIOUS
  <2>5. IsTensor(value) /\ value.shape = types[n + 1].shape
    BY <1>6, <1>8 DEF type
  <2> QED
    BY <2>1, <2>2, <2>3, <2>4, <2>5 DEF RunFits
<1>9. ASSUME run.err # "None"
      PROVE  next = run
  BY <1>1, <1>9
<1>10. ASSUME run.err = "None", error # "None"
       PROVE  next.err = error /\ error # "Internal"
  BY <1>1, <1>6, <1>10
<1> QED
  BY <1>1, <1>7, <1>8, <1>9, <1>10

\* A graph that infer_types accepts, none of whose types overflows, is evaluated
\* without an internal error, and without any when its inputs are supplied.
LEMMA AcceptedGraphEvaluates ==
  ASSUME NEW g, NodesFit(g), Valid(g), InferTypes(g).err = "None",
         \A i \in Ids(g) : Numel(InferTypes(g).types[i].shape) # Overflow,
         NEW env, IsEnvironment(env)
  PROVE  /\ EvalValues(g, env).err # "Internal"
         /\ EvalValues(g, env).err = "None" =>
               RunFits(g, InferTypes(g).types, EvalValues(g, env).values, Len(g.nodes))
         /\ Supplied(g, env) => EvalValues(g, env).err = "None"
<1> DEFINE N == Len(g.nodes)
           types == InferTypes(g).types
           f == Evaluations(g, env, types)
           Fits(n, run) == /\ IsRun(run) /\ run.err # "Internal"
                           /\ run.err = "None" => RunFits(g, types, run.values, n)
                           /\ Supplied(g, env) => run.err = "None"
           S == {n \in Nat : n <= N => Fits(n, f[n])}
<1>1. NodesFit(g) /\ Typing(g, types) /\ Len(types) = N
  <2>1. InferTypes(g) = Inferences(g)[N]
    BY DEF InferTypes
  <2> QED
    BY <2>1, InferencesFit
<1>2. \A i \in Ids(g) : Numel(types[i].shape) # Overflow
  OBVIOUS
<1>3. EvalValues(g, env) = f[N]
  BY DEF EvalValues, EvalTyped
<1>4. N \in Nat
  BY <1>1 DEF NodesFit
<1> HIDE DEF types
<1>5. f = [n \in 0 .. N |-> IF n = 0 THEN [err |-> "None", values |-> << >>]
                            ELSE EvalNext(f[n - 1], g.nodes[n], env, types[n])]
  BY <1>4, EvaluationsDef
<1> HIDE DEF f
<1>6. 0 \in S
  <2>1. f[0] = [err |-> "None", values |-> << >>]
    BY <1>4, <1>5
  <2>2. IsRun(f[0])
    BY <2>1, Zenon DEF IsRun
  <2>3. f[0].err = "None" /\ f[0].values = << >>
    BY <2>1
  <2>4. RunFits(g, types, << >>, 0)
    <3> DEFINE none == << >>
    <3>1. none \in Seq({}) /\ Len(none) = 0
      OBVIOUS
    <3> HIDE DEF none
    <3>2. IsList(none)
      BY <3>1, SeqIsList
    <3>3. RunFits(g, types, none, 0)
      BY <3>1, <3>2 DEF RunFits
    <3> QED
      BY <3>3 DEF none
  <2> QED
    BY <2>2, <2>3, <2>4
<1>7. ASSUME NEW n \in Nat, n \in S
      PROVE  n + 1 \in S
  <2> SUFFICES ASSUME n + 1 <= N
               PROVE  Fits(n + 1, f[n + 1])
    BY <1>7
  <2>1. n + 1 \in 0 .. N /\ n + 1 # 0 /\ (n + 1) - 1 = n /\ n <= N
    BY <1>4
  <2>2. f[n + 1] = EvalNext(f[n], g.nodes[n + 1], env, types[n + 1])
    BY <1>5, <2>1
  <2>3. Fits(n, f[n])
    BY <1>7, <2>1
  <2> DEFINE run == f[n]
             next == EvalNext(run, g.nodes[n + 1], env, types[n + 1])
  <2>4. /\ IsRun(run) /\ run.err # "Internal"
        /\ run.err = "None" => RunFits(g, types, run.values, n)
    BY <2>3
  <2> HIDE DEF run
  <2>5. /\ IsRun(next) /\ next.err # "Internal"
        /\ next.err = "None" => RunFits(g, types, next.values, n + 1)
        /\ Supplied(g, env) /\ run.err = "None" => next.err = "None"
    BY <1>1, <1>2, <2>4, RunGrows
  <2> QED
    BY <2>2, <2>3, <2>5 DEF run
<1>8. Fits(N, f[N])
  <2>1. N \in S
    <3> HIDE DEF S
    <3> QED
      BY <1>4, <1>6, <1>7, SetInduction
  <2> QED
    BY <1>4, <2>1
<1> QED
  BY <1>3, <1>8 DEF types

-----------------------------------------------------------------------------
(* What a node computes from its operands, wherever these stand.            *)
\* The same operation, over as many operands.
SameOperation(p, q) ==
  /\ q.op = p.op /\ q.attr = p.attr
  /\ Len(q.args) = Len(p.args) /\ q.args \in Seq(Nat)

\* What stands at the operands of one node stands at those of the other.
SameOperands(p, q, list, other) ==
  \A k \in DOMAIN p.args :
     /\ p.args[k] \in DOMAIN list /\ q.args[k] \in DOMAIN other
     /\ other[q.args[k]] = list[p.args[k]]

\* A node of an operation, with as many operands as that has.
IsNode(p) == p.op \in Operations /\ p.args \in Seq(Nat) /\ Len(p.args) = Arity(p.op)

\* How many operands there are.
LEMMA OperandsThere ==
  ASSUME NEW p, IsNode(p)
  PROVE  /\ p.op \in BinaryOps => DOMAIN p.args = {1, 2}
         /\ p.op \in UnaryOps \cup {"Sum", "Reshape"} => DOMAIN p.args = {1}
         /\ p.op \in {"Input", "Const"} => DOMAIN p.args = {}
<1>1. DOMAIN p.args = 1 .. Len(p.args) /\ Len(p.args) = Arity(p.op)
  BY DEF IsNode
<1>2. CASE p.op \in BinaryOps
  BY <1>1, <1>2 DEF Arity, BinaryOps, UnaryOps
<1>3. CASE p.op \in UnaryOps \cup {"Sum", "Reshape"}
  BY <1>1, <1>3 DEF Arity, BinaryOps, UnaryOps
<1>4. CASE p.op \in {"Input", "Const"}
  BY <1>1, <1>4 DEF Arity, BinaryOps, UnaryOps
<1>5. /\ BinaryOps \cap (UnaryOps \cup {"Sum", "Reshape", "Input", "Const"}) = {}
      /\ (UnaryOps \cup {"Sum", "Reshape"}) \cap {"Input", "Const"} = {}
  BY DEF BinaryOps, UnaryOps
<1>6. CASE p.op \notin Operations
  BY <1>6 DEF IsNode
<1> QED
  BY <1>2, <1>3, <1>4, <1>5, <1>6 DEF Operations

\* A type depends on those of the operands only, wherever these stand.
LEMMA InferNodeRenamed ==
  ASSUME NEW p, IsNode(p), NEW q, SameOperation(p, q),
         NEW types, NEW other, SameOperands(p, q, types, other)
  PROVE  InferNode(q, other) = InferNode(p, types)
<1>1. q.op = p.op /\ q.attr = p.attr /\ DOMAIN q.args = DOMAIN p.args
  BY DEF SameOperation, IsNode
<1>2. /\ ~ (\E k \in DOMAIN p.args : p.args[k] \notin DOMAIN types)
      /\ ~ (\E k \in DOMAIN q.args : q.args[k] \notin DOMAIN other)
  BY <1>1 DEF SameOperands
<1>3. \A k \in DOMAIN p.args : other[q.args[k]] = types[p.args[k]]
  BY DEF SameOperands
<1>4. p.op \in Operations
  BY DEF IsNode
<1>5. CASE p.op \in {"Input", "Const"}
  BY <1>1, <1>2, <1>5 DEF InferNode, UnaryOps
<1>6. CASE p.op \in BinaryOps
  <2>1. /\ other[q.args[1]] = types[p.args[1]]
        /\ other[q.args[2]] = types[p.args[2]]
    BY <1>3, <1>6, OperandsThere
  <2> QED
    BY <1>1, <1>2, <1>6, <2>1 DEF InferNode, BinaryOps, UnaryOps
<1>7. CASE p.op \in UnaryOps \cup {"Sum", "Reshape"}
  <2>1. other[q.args[1]] = types[p.args[1]]
    BY <1>3, <1>7, OperandsThere
  <2> QED
    BY <1>1, <1>2, <1>7, <2>1 DEF InferNode, BinaryOps, UnaryOps
<1> QED
  BY <1>4, <1>5, <1>6, <1>7 DEF Operations

\* So do its value and its error.
LEMMA EvalNodeRenamed ==
  ASSUME NEW p, IsNode(p), NEW q, SameOperation(p, q), NEW env,
         NEW values, NEW other, SameOperands(p, q, values, other)
  PROVE  /\ NodeError(q, env, other) = NodeError(p, env, values)
         /\ EvalNode(q, env, other) = EvalNode(p, env, values)
<1>1. q.op = p.op /\ q.attr = p.attr
  BY DEF SameOperation
<1>2. \A k \in DOMAIN p.args : other[q.args[k]] = values[p.args[k]]
  BY DEF SameOperands
<1>3. p.op \in Operations
  BY DEF IsNode
<1>4. CASE p.op = "Input"
  BY <1>1, <1>4 DEF NodeError, EvalNode, InputError
<1>5. CASE p.op = "Const"
  BY <1>1, <1>5 DEF NodeError, EvalNode, LiteralError
<1>6. CASE p.op \in BinaryOps
  <2>1. /\ other[q.args[1]] = values[p.args[1]]
        /\ other[q.args[2]] = values[p.args[2]]
    BY <1>2, <1>6, OperandsThere
  <2>2. OperandsFit(q, other) = OperandsFit(p, values)
    BY <1>1, <1>6, <2>1 DEF OperandsFit, BinaryOps
  <2>3. NodeError(q, env, other) = NodeError(p, env, values)
    BY <1>1, <1>6, <2>2 DEF NodeError, BinaryOps
  <2> QED
    BY <1>1, <1>6, <2>1, <2>3 DEF EvalNode, BinaryOps
<1>7. CASE p.op \in UnaryOps \cup {"Sum", "Reshape"}
  <2>1. other[q.args[1]] = values[p.args[1]]
    BY <1>2, <1>7, OperandsThere
  <2>2. OperandsFit(q, other) = OperandsFit(p, values)
    BY <1>1, <1>7, <2>1 DEF OperandsFit, UnaryOps
  <2>3. NodeError(q, env, other) = NodeError(p, env, values)
    BY <1>1, <1>7, <2>2 DEF NodeError, UnaryOps
  <2> QED
    BY <1>1, <1>7, <2>1, <2>3 DEF EvalNode, UnaryOps
<1> QED
  BY <1>3, <1>4, <1>5, <1>6, <1>7 DEF Operations

-----------------------------------------------------------------------------
(* Types and values as equations, a node at a time.                         *)
\* Lists of the same length with the same elements are equal.
LEMMA ListsEqual ==
  ASSUME NEW s, IsList(s), NEW t, IsList(t), Len(s) = Len(t),
         \A i \in 1 .. Len(s) : s[i] = t[i]
  PROVE  s = t
<1>1. PICK n \in Nat : s = [i \in 1 .. n |-> s[i]]
  BY DEF IsList
<1>2. PICK m \in Nat : t = [i \in 1 .. m |-> t[i]]
  BY DEF IsList
<1>3. DOMAIN s = 1 .. Len(s) /\ DOMAIN t = 1 .. Len(t)
  BY Lists
<1>4. 1 .. n = DOMAIN s /\ 1 .. m = DOMAIN t
  BY <1>1, <1>2
<1> QED
  BY <1>1, <1>2, <1>3, <1>4

\* Every node has the type of its operation.
TypesAre(g, types) ==
  /\ IsList(types) /\ Len(types) = Len(g.nodes)
  /\ \A i \in Ids(g) : /\ types[i] = InferNode(g.nodes[i], types)
                       /\ types[i].err = "None"

\* The first n nodes have the values of their operations.
ValuesUpTo(g, env, types, values, n) ==
  /\ IsList(values) /\ Len(values) = n
  /\ \A i \in 1 .. n :
        /\ NodeError(g.nodes[i], env, values) = "None"
        /\ values[i] = EvalNode(g.nodes[i], env, values)
        /\ values[i].shape = types[i].shape /\ IsTensor(values[i])

\* Every node has.
ValuesAre(g, env, types, values) == ValuesUpTo(g, env, types, values, Len(g.nodes))

\* What every node of a graph that inference is about is.
LEMMA NodesAre ==
  ASSUME NEW g, NodesFit(g), NEW i \in Ids(g)
  PROVE  /\ IsNode(g.nodes[i])
         /\ SameOperation(g.nodes[i], g.nodes[i])
         /\ i \in Nat
         /\ \A k \in DOMAIN g.nodes[i].args : g.nodes[i].args[k] \in 1 .. (i - 1)
BY DEF NodesFit, IsNode, SameOperation, Ids

\* Types that solve the equations are what inference returns, without an error.
LEMMA TypesAreInferred ==
  ASSUME NEW g, NodesFit(g), Valid(g), NEW types, TypesAre(g, types)
  PROVE  InferTypes(g) = [err |-> "None", types |-> types]
<1> DEFINE N == Len(g.nodes)
           f == Inferences(g)
           Prefix(n) == \E s : /\ f[n] = [err |-> "None", types |-> s]
                               /\ IsList(s) /\ Len(s) = n
                               /\ \A i \in 1 .. n : s[i] = types[i]
           S == {n \in Nat : n <= N => Prefix(n)}
<1>1. N \in Nat /\ Ids(g) = 1 .. N
  BY DEF NodesFit, Ids
<1>2. f = [n \in 0 .. N |-> IF n = 0 THEN [err |-> "None", types |-> << >>]
                            ELSE InferNext(f[n - 1], g.nodes[n])]
  BY <1>1, InferencesDef
<1>3. InferTypes(g) = f[N]
  BY DEF InferTypes
<1>4. DOMAIN types = 1 .. N
  BY Lists DEF TypesAre
<1> HIDE DEF f
<1>5. 0 \in S
  <2> DEFINE none == << >>
  <2>1. none \in Seq({}) /\ Len(none) = 0
    OBVIOUS
  <2>2. f[0] = [err |-> "None", types |-> none]
    BY <1>1, <1>2
  <2> HIDE DEF none
  <2>3. IsList(none)
    BY <2>1, SeqIsList
  <2>4. Prefix(0)
    BY <2>1, <2>2, <2>3
  <2> QED
    BY <2>4
<1>6. ASSUME NEW n \in Nat, n \in S
      PROVE  n + 1 \in S
  <2> SUFFICES ASSUME n + 1 <= N
               PROVE  Prefix(n + 1)
    OBVIOUS
  <2>1. n + 1 \in 0 .. N /\ n + 1 # 0 /\ (n + 1) - 1 = n /\ n <= N /\ n + 1 \in Ids(g)
    BY <1>1
  <2>2. PICK s : /\ f[n] = [err |-> "None", types |-> s]
                 /\ IsList(s) /\ Len(s) = n
                 /\ \A i \in 1 .. n : s[i] = types[i]
    BY <1>6, <2>1
  <2> DEFINE node == g.nodes[n + 1]
             t == InferNode(node, s)
             more == Append(s, t)
  <2>3. DOMAIN s = 1 .. n
    BY <2>2, Lists
  <2>4. IsNode(node) /\ SameOperation(node, node)
        /\ \A k \in DOMAIN node.args : node.args[k] \in 1 .. n
    BY <2>1, NodesAre
  <2>5. SameOperands(node, node, types, s)
    BY <1>1, <1>4, <2>1, <2>2, <2>3, <2>4 DEF SameOperands
  <2>6. t = types[n + 1] /\ t.err = "None"
    <3>1. t = InferNode(node, types)
      BY <2>4, <2>5, InferNodeRenamed
    <3> QED
      BY <2>1, <3>1 DEF TypesAre
  <2>7. f[n + 1] = [err |-> "None", types |-> more]
    <3>1. f[n + 1] = InferNext(f[n], node)
      BY <1>2, <2>1
    <3> HIDE DEF node
    <3>2. InferNext(f[n], node) = Typed([err |-> "None", types |-> s], t)
      BY <2>2 DEF InferNext
    <3> HIDE DEF t
    <3>3. Typed([err |-> "None", types |-> s], t) = [err |-> "None", types |-> Append(s, t)]
      BY <2>6, TypedOf
    <3> QED
      BY <3>1, <3>2, <3>3
  <2> HIDE DEF t, node
  <2>8. /\ IsList(more) /\ Len(more) = n + 1
        /\ \A i \in 1 .. n : more[i] = s[i]
        /\ more[n + 1] = t
    BY <2>2, AppendToList
  <2>9. \A i \in 1 .. (n + 1) : i \in 1 .. n \/ i = n + 1
    OBVIOUS
  <2> HIDE DEF more
  <2>10. \A i \in 1 .. (n + 1) : more[i] = types[i]
    <3> SUFFICES ASSUME NEW i \in 1 .. (n + 1)
                 PROVE  more[i] = types[i]
      OBVIOUS
    <3>1. CASE i = n + 1
      BY <2>6, <2>8, <3>1
    <3>2. CASE i \in 1 .. n
      BY <2>2, <2>8, <3>2
    <3> QED
      BY <2>9, <3>1, <3>2
  <2> QED
    BY <2>7, <2>8, <2>10
<1>7. Prefix(N)
  <2> HIDE DEF S
  <2>1. N \in S
    BY <1>1, <1>5, <1>6, SetInduction
  <2>2. N <= N
    BY <1>1
  <2> HIDE DEF Prefix
  <2> QED
    BY <2>1, <2>2 DEF S
<1>8. PICK s : /\ f[N] = [err |-> "None", types |-> s]
               /\ IsList(s) /\ Len(s) = N
               /\ \A i \in 1 .. N : s[i] = types[i]
  BY <1>7
<1>9. s = types
  BY <1>8, ListsEqual DEF TypesAre
<1> QED
  BY <1>3, <1>8, <1>9

\* What a run without an error has computed.
LEMMA RunValues ==
  ASSUME NEW g, NodesFit(g), NEW env, NEW types, Len(types) = Len(g.nodes),
         Evaluations(g, env, types)[Len(g.nodes)].err = "None"
  PROVE  ValuesAre(g, env, types, Evaluations(g, env, types)[Len(g.nodes)].values)
<1> DEFINE N == Len(g.nodes)
           f == Evaluations(g, env, types)
           Prefix(n) == /\ IsRun(f[n])
                        /\ f[n].err = "None" => ValuesUpTo(g, env, types, f[n].values, n)
           S == {n \in Nat : n <= N => Prefix(n)}
<1>1. N \in Nat /\ Ids(g) = 1 .. N
  BY DEF NodesFit, Ids
<1>2. f = [n \in 0 .. N |-> IF n = 0 THEN [err |-> "None", values |-> << >>]
                            ELSE EvalNext(f[n - 1], g.nodes[n], env, types[n])]
  BY <1>1, EvaluationsDef
<1> HIDE DEF f
<1>3. 0 \in S
  <2> DEFINE none == << >>
  <2>1. none \in Seq({}) /\ Len(none) = 0
    OBVIOUS
  <2>2. f[0] = [err |-> "None", values |-> none]
    BY <1>1, <1>2
  <2> HIDE DEF none
  <2>3. IsList(none)
    BY <2>1, SeqIsList
  <2>4. IsRun(f[0])
    BY <2>2, Zenon DEF IsRun
  <2>5. ValuesUpTo(g, env, types, none, 0)
    BY <2>1, <2>3 DEF ValuesUpTo
  <2> QED
    BY <2>2, <2>4, <2>5
<1>4. ASSUME NEW n \in Nat, n \in S
      PROVE  n + 1 \in S
  <2> SUFFICES ASSUME n + 1 <= N
               PROVE  Prefix(n + 1)
    OBVIOUS
  <2>1. n + 1 \in 0 .. N /\ n + 1 # 0 /\ (n + 1) - 1 = n /\ n <= N /\ n + 1 \in Ids(g)
    BY <1>1
  <2> DEFINE node == g.nodes[n + 1]
             v == f[n].values
             error == NodeError(node, env, v)
             value == EvalNode(node, env, v)
             more == Append(v, value)
             type == types[n + 1]
  <2>2. Prefix(n)
    BY <1>4, <2>1
  <2>3. f[n + 1] = EvalNext(f[n], node, env, type)
    BY <1>2, <2>1
  <2>4. /\ IsRun(f[n + 1])
        /\ f[n].err # "None" => f[n + 1] = f[n]
        /\ f[n].err = "None" /\ error # "None" => f[n + 1].err = error
        /\ f[n].err = "None" /\ error = "None" /\ ~ (value.shape = type.shape /\ IsTensor(value))
             => f[n + 1].err = "Internal"
        /\ f[n].err = "None" /\ error = "None" /\ value.shape = type.shape
           /\ IsTensor(value) =>
              f[n + 1].err = "None" /\ f[n + 1].values = more
    BY <2>2, <2>3, EvalNextIs
  <2> SUFFICES ASSUME f[n + 1].err = "None"
               PROVE  ValuesUpTo(g, env, types, f[n + 1].values, n + 1)
    BY <2>4
  <2>5. /\ f[n].err = "None" /\ error = "None"
        /\ value.shape = type.shape /\ IsTensor(value)
        /\ f[n + 1].values = more
    <3> HIDE DEF error, value, more, type
    <3> QED
      BY <2>4
  <2>6. ValuesUpTo(g, env, types, v, n)
    BY <2>2, <2>5
  <2>7. IsList(v) /\ Len(v) = n /\ DOMAIN v = 1 .. n
    BY <2>6, Lists DEF ValuesUpTo
  <2>8. IsList(more) /\ Len(more) = n + 1 /\ more[n + 1] = value
        /\ \A i \in 1 .. n : more[i] = v[i]
    BY <2>7, AppendToList
  <2>9. DOMAIN more = 1 .. (n + 1)
    BY <2>8, Lists
  <2> HIDE DEF value, error, more, type, v
  <2>10. ASSUME NEW i \in 1 .. (n + 1)
         PROVE  /\ NodeError(g.nodes[i], env, more) = NodeError(g.nodes[i], env, v)
                /\ EvalNode(g.nodes[i], env, more) = EvalNode(g.nodes[i], env, v)
    <3>1. i \in Ids(g) /\ \A x \in 1 .. (i - 1) : x \in 1 .. n /\ x \in 1 .. (n + 1)
      BY <1>1, <2>1
    <3>2. IsNode(g.nodes[i]) /\ SameOperation(g.nodes[i], g.nodes[i])
          /\ \A k \in DOMAIN g.nodes[i].args : g.nodes[i].args[k] \in 1 .. (i - 1)
      BY <3>1, NodesAre
    <3>3. SameOperands(g.nodes[i], g.nodes[i], v, more)
      BY <2>7, <2>8, <2>9, <3>1, <3>2 DEF SameOperands
    <3> QED
      BY <3>2, <3>3, EvalNodeRenamed
  <2>11. ASSUME NEW i \in 1 .. (n + 1)
         PROVE  /\ NodeError(g.nodes[i], env, more) = "None"
                /\ more[i] = EvalNode(g.nodes[i], env, more)
                /\ more[i].shape = types[i].shape /\ IsTensor(more[i])
    <3>1. CASE i = n + 1
      BY <2>5, <2>8, <2>10, <3>1 DEF error, value, type
    <3>2. CASE i # n + 1
      <4>1. i \in 1 .. n
        BY <3>2
      <4>2. /\ NodeError(g.nodes[i], env, v) = "None"
            /\ v[i] = EvalNode(g.nodes[i], env, v)
            /\ v[i].shape = types[i].shape /\ IsTensor(v[i])
        BY <2>6, <4>1 DEF ValuesUpTo
      <4> QED
        BY <2>8, <2>10, <4>1, <4>2
    <3> QED
      BY <3>1, <3>2
  <2> QED
    BY <2>5, <2>8, <2>11 DEF ValuesUpTo
<1>5. Prefix(N)
  <2> HIDE DEF S
  <2>1. N \in S
    BY <1>1, <1>3, <1>4, SetInduction
  <2>2. N <= N
    BY <1>1
  <2> HIDE DEF Prefix
  <2> QED
    BY <2>1, <2>2 DEF S
<1> QED
  BY <1>5 DEF ValuesAre, f

\* The values that solve the equations are what is computed, without an error.
LEMMA ValuesAreComputed ==
  ASSUME NEW g, NodesFit(g), Valid(g), NEW types, TypesAre(g, types),
         NEW env, NEW values, ValuesAre(g, env, types, values)
  PROVE  EvalValues(g, env) = [err |-> "None", values |-> values]
<1> DEFINE N == Len(g.nodes)
           f == Evaluations(g, env, types)
           Prefix(n) == \E s : /\ f[n] = [err |-> "None", values |-> s]
                               /\ IsList(s) /\ Len(s) = n
                               /\ \A i \in 1 .. n : s[i] = values[i]
           S == {n \in Nat : n <= N => Prefix(n)}
<1>1. N \in Nat /\ Ids(g) = 1 .. N
  BY DEF NodesFit, Ids
<1>2. f = [n \in 0 .. N |-> IF n = 0 THEN [err |-> "None", values |-> << >>]
                            ELSE EvalNext(f[n - 1], g.nodes[n], env, types[n])]
  BY <1>1, EvaluationsDef
<1>3. EvalValues(g, env) = f[N]
  BY TypesAreInferred DEF EvalValues, EvalTyped
<1>4. DOMAIN values = 1 .. N
  BY Lists DEF ValuesAre, ValuesUpTo
<1> HIDE DEF f
<1>5. 0 \in S
  <2> DEFINE none == << >>
  <2>1. none \in Seq({}) /\ Len(none) = 0
    OBVIOUS
  <2>2. f[0] = [err |-> "None", values |-> none]
    BY <1>1, <1>2
  <2> HIDE DEF none
  <2>3. IsList(none)
    BY <2>1, SeqIsList
  <2>4. Prefix(0)
    BY <2>1, <2>2, <2>3
  <2> QED
    BY <2>4
<1>6. ASSUME NEW n \in Nat, n \in S
      PROVE  n + 1 \in S
  <2> SUFFICES ASSUME n + 1 <= N
               PROVE  Prefix(n + 1)
    OBVIOUS
  <2>1. n + 1 \in 0 .. N /\ n + 1 # 0 /\ (n + 1) - 1 = n /\ n <= N /\ n + 1 \in Ids(g)
        /\ n + 1 \in 1 .. N
    BY <1>1
  <2>2. PICK s : /\ f[n] = [err |-> "None", values |-> s]
                 /\ IsList(s) /\ Len(s) = n
                 /\ \A i \in 1 .. n : s[i] = values[i]
    BY <1>6, <2>1
  <2> DEFINE node == g.nodes[n + 1]
             t == EvalNode(node, env, s)
             error == NodeError(node, env, s)
             more == Append(s, t)
  <2>3. DOMAIN s = 1 .. n
    BY <2>2, Lists
  <2>4. IsNode(node) /\ SameOperation(node, node)
        /\ \A k \in DOMAIN node.args : node.args[k] \in 1 .. n
    BY <2>1, NodesAre
  <2>5. SameOperands(node, node, values, s)
    BY <1>1, <1>4, <2>1, <2>2, <2>3, <2>4 DEF SameOperands
  <2>6. /\ t = values[n + 1] /\ error = "None"
        /\ t.shape = types[n + 1].shape /\ IsTensor(t)
    <3>1. t = EvalNode(node, env, values) /\ error = NodeError(node, env, values)
      BY <2>4, <2>5, EvalNodeRenamed
    <3> QED
      BY <2>1, <3>1 DEF ValuesAre, ValuesUpTo
  <2>7. f[n + 1] = [err |-> "None", values |-> more]
    <3>1. f[n + 1] = EvalNext(f[n], node, env, types[n + 1])
      BY <1>2, <2>1
    <3> HIDE DEF node
    <3>2. f[n].err = "None" /\ f[n].values = s
      BY <2>2
    <3>3. EvalNext(f[n], node, env, types[n + 1]) = Checked(f[n], t, types[n + 1])
      BY <2>6, <3>2 DEF EvalNext
    <3> HIDE DEF t
    <3>4. Checked(f[n], t, types[n + 1]) = [err |-> "None", values |-> Append(s, t)]
      <4>1. \A e, v : Checked([err |-> e, values |-> v], t, types[n + 1]) =
                        [err |-> e, values |-> Append(v, t)]
        BY <2>6, CheckedOf
      <4> QED
        BY <2>2, <4>1
    <3> QED
      BY <3>1, <3>3, <3>4
  <2> HIDE DEF t, node
  <2>8. /\ IsList(more) /\ Len(more) = n + 1
        /\ \A i \in 1 .. n : more[i] = s[i]
        /\ more[n + 1] = t
    BY <2>2, AppendToList
  <2>9. \A i \in 1 .. (n + 1) : i \in 1 .. n \/ i = n + 1
    OBVIOUS
  <2> HIDE DEF more
  <2>10. \A i \in 1 .. (n + 1) : more[i] = values[i]
    <3> SUFFICES ASSUME NEW i \in 1 .. (n + 1)
                 PROVE  more[i] = values[i]
      OBVIOUS
    <3>1. CASE i = n + 1
      BY <2>6, <2>8, <3>1
    <3>2. CASE i \in 1 .. n
      BY <2>2, <2>8, <3>2
    <3> QED
      BY <2>9, <3>1, <3>2
  <2> QED
    BY <2>7, <2>8, <2>10
<1>7. Prefix(N)
  <2> HIDE DEF S
  <2>1. N \in S
    BY <1>1, <1>5, <1>6, SetInduction
  <2>2. N <= N
    BY <1>1
  <2> HIDE DEF Prefix
  <2> QED
    BY <2>1, <2>2 DEF S
<1>8. PICK s : /\ f[N] = [err |-> "None", values |-> s]
               /\ IsList(s) /\ Len(s) = N
               /\ \A i \in 1 .. N : s[i] = values[i]
  BY <1>7
<1>9. s = values
  BY <1>8, ListsEqual DEF ValuesAre, ValuesUpTo
<1> QED
  BY <1>3, <1>8, <1>9

\* An entry of a matrix product, as a recursion over the inner dimension.
LEMMA ProductsDef ==
  ASSUME NEW l, NEW r, l.shape[2] \in Nat, NEW row, NEW col
  PROVE  Products(l, r, row, col) =
           [n \in 0 .. l.shape[2] |->
              IF n = 0 THEN Zero
              ELSE Plus(Products(l, r, row, col)[n - 1],
                        Times(l.data[LeftOffset(row, n - 1, l)],
                              r.data[RightOffset(n - 1, col, r)]))]
<1> DEFINE N == l.shape[2]
           zero == Zero
           next(n, old) == Plus(old, Times(l.data[LeftOffset(row, n - 1, l)],
                                           r.data[RightOffset(n - 1, col, r)]))
           Upto(m, f) == f = [n \in 0 .. m |-> IF n = 0 THEN zero ELSE next(n, f[n - 1])]
           S == {m \in Nat : \E f : Upto(m, f)}
<1>0. N \in Nat
  OBVIOUS
<1>1. Products(l, r, row, col) = CHOOSE f : Upto(N, f)
  BY DEF Products
<1> HIDE DEF next, zero
<1>2. 0 \in S
  <2> DEFINE f == [n \in 0 .. 0 |-> zero]
  <2>1. Upto(0, f)
    OBVIOUS
  <2> QED
    BY <2>1
<1>3. ASSUME NEW m \in Nat, m \in S
      PROVE  m + 1 \in S
  <2>1. PICK f : Upto(m, f)
    BY <1>3
  <2> DEFINE h == [n \in 0 .. (m + 1) |-> IF n = m + 1 THEN next(n, f[m]) ELSE f[n]]
  <2>2. ASSUME NEW n \in 0 .. (m + 1)
        PROVE  h[n] = IF n = 0 THEN zero ELSE next(n, h[n - 1])
    <3>1. CASE n = 0
      BY <2>1, <3>1
    <3>2. CASE n = m + 1
      BY <3>2
    <3>3. CASE n # 0 /\ n # m + 1
      <4>1. n \in 0 .. m /\ n - 1 \in 0 .. m
        BY <3>3
      <4>2. h[n] = f[n] /\ h[n - 1] = f[n - 1]
        BY <4>1, <3>3
      <4>3. f[n] = next(n, f[n - 1])
        BY <2>1, <4>1, <3>3
      <4> QED
        BY <4>2, <4>3, <3>3
    <3> QED
      BY <3>1, <3>2, <3>3
  <2>3. Upto(m + 1, h)
    <3> HIDE DEF h
    <3>1. h = [n \in 0 .. (m + 1) |-> h[n]]
      BY DEF h
    <3> QED
      BY <2>2, <3>1
  <2> HIDE DEF Upto, h
  <2> QED
    BY <2>3
<1>4. N \in S
  <2> HIDE DEF N, S
  <2> QED
    BY <1>0, <1>2, <1>3, SetInduction
<1>5. Upto(N, Products(l, r, row, col))
  <2> HIDE DEF Upto
  <2>1. \E f : Upto(N, f)
    BY <1>4
  <2> QED
    BY <1>1, <2>1
<1> QED
  BY <1>5 DEF next, zero



-----------------------------------------------------------------------------
(* Computing stays within any set of scalars that the arithmetic stays in.  *)
Arithmetic(S) ==
  /\ Zero \in S
  /\ \A x, y \in S : Plus(x, y) \in S /\ Minus(x, y) \in S /\ Times(x, y) \in S
  /\ \A x \in S : Negate(x) \in S

\* The literals that lift to a scalar are lifted into S.
Lifts(literals, S) ==
  \A literal \in literals : IsFinite(literal) => LiftLiteral(literal) \in S

\* The literals of a graph's constants.
LiteralsOf(g) ==
  UNION {Range(g.nodes[i].attr.data) : i \in {j \in Ids(g) : g.nodes[j].op = "Const"}}

\* A tensor of a shape whose elements are of S.
TensorOver(S, t) ==
  /\ t = [shape |-> t.shape, data |-> t.data]
  /\ t.shape \in Seq(Nat) /\ Numel(t.shape) # Overflow
  /\ t.data \in [0 .. Numel(t.shape) - 1 -> S]

\* What that says of the elements.
LEMMA TensorOverIs ==
  ASSUME NEW S, NEW t, TensorOver(S, t)
  PROVE  /\ IsTensor(t) /\ Elements(t) = 0 .. Numel(t.shape) - 1
         /\ Numel(t.shape) \in Nat
         /\ \A i \in Elements(t) : t.data[i] \in S
<1>1. Elements(t) = 0 .. Numel(t.shape) - 1
  BY DEF TensorOver, Elements
<1>2. Numel(t.shape) \in Nat
  BY NumelFits, MaxUsizeAssumption DEF TensorOver
<1>3. \A i \in Elements(t) : t.data[i] \in S
  BY <1>1 DEF TensorOver
<1> QED
  BY <1>1, <1>2, <1>3 DEF IsTensor, TensorOver

\* The operations on scalars stay in S.
LEMMA OperationsOver ==
  ASSUME NEW S, Arithmetic(S), NEW l, TensorOver(S, l), NEW r, TensorOver(S, r),
         l.shape = r.shape
  PROVE  /\ TensorOver(S, EvalAdd(l, r)) /\ TensorOver(S, EvalSub(l, r))
         /\ TensorOver(S, EvalMul(l, r)) /\ TensorOver(S, EvalNeg(l))
         /\ TensorOver(S, EvalRelu(l))
<1>1. \A i \in 0 .. Numel(l.shape) - 1 : l.data[i] \in S /\ r.data[i] \in S
  BY TensorOverIs
<1>2. l.shape \in Seq(Nat) /\ Numel(l.shape) # Overflow
  BY DEF TensorOver
<1>3. TensorOver(S, EvalAdd(l, r))
  BY <1>1, <1>2 DEF Arithmetic, EvalAdd, Tensor, TensorOver
<1>4. TensorOver(S, EvalSub(l, r))
  BY <1>1, <1>2 DEF Arithmetic, EvalSub, Tensor, TensorOver
<1>5. TensorOver(S, EvalMul(l, r))
  BY <1>1, <1>2 DEF Arithmetic, EvalMul, Tensor, TensorOver
<1>6. TensorOver(S, EvalNeg(l))
  BY <1>1, <1>2 DEF Arithmetic, EvalNeg, Tensor, TensorOver
<1>7. TensorOver(S, EvalRelu(l))
  BY <1>1, <1>2 DEF Arithmetic, EvalRelu, Tensor, TensorOver
<1> QED
  BY <1>3, <1>4, <1>5, <1>6, <1>7

\* The quotient of an offset by a row length is a row.
LEMMA DivisionBelow ==
  ASSUME NEW m \in Nat, NEW n \in Nat, NEW i \in 0 .. m * n - 1
  PROVE  i \div n \in 0 .. m - 1 /\ i % n \in 0 .. n - 1
<1>1. n # 0
  BY m * 0 = 0
<1>2. n > 0 /\ i \in Nat /\ i < m * n
  BY <1>1
<1>3. i \div n < m
  BY <1>2
<1> QED
  BY <1>2, <1>3

\* The dimensions of a matrix.
LEMMA PairIsNat ==
  ASSUME NEW s \in Seq(Nat), Len(s) = 2
  PROVE  s[1] \in Nat /\ s[2] \in Nat
OBVIOUS

\* A matrix product stays in S.
LEMMA MatmulOver ==
  ASSUME NEW S, Arithmetic(S), NEW l, TensorOver(S, l), NEW r, TensorOver(S, r),
         ProductFits(l, r), Numel(<<l.shape[1], r.shape[2]>>) # Overflow
  PROVE  TensorOver(S, EvalMatmul(l, r))
<1> DEFINE m == l.shape[1]
           k == l.shape[2]
           n == r.shape[2]
           shape == <<m, n>>
<1>1. m \in Nat /\ k \in Nat /\ n \in Nat
  <2>2. l.shape \in Seq(Nat) /\ r.shape \in Seq(Nat) /\ Len(l.shape) = 2 /\ Len(r.shape) = 2
    BY DEF TensorOver, ProductFits
  <2> QED
    BY <2>2, PairIsNat
<1>2. ASSUME NEW row \in 0 .. m - 1, NEW col \in 0 .. n - 1
      PROVE  Products(l, r, row, col)[k] \in S
  <2> DEFINE f == Products(l, r, row, col)
             T == {c \in Nat : c <= k => f[c] \in S}
  <2>1. f = [c \in 0 .. k |->
               IF c = 0 THEN Zero
               ELSE Plus(f[c - 1], Times(l.data[LeftOffset(row, c - 1, l)],
                                         r.data[RightOffset(c - 1, col, r)]))]
    BY <1>1, ProductsDef
  <2> HIDE DEF f
  <2>2. 0 \in T
    BY <1>1, <2>1 DEF Arithmetic
  <2>3. ASSUME NEW c \in Nat, c \in T
        PROVE  c + 1 \in T
    <3> SUFFICES ASSUME c + 1 <= k
                 PROVE  f[c + 1] \in S
      OBVIOUS
    <3>1. c + 1 \in 0 .. k /\ c + 1 # 0 /\ (c + 1) - 1 = c /\ c <= k /\ c \in 0 .. k - 1
      BY <1>1
    <3>2. f[c + 1] = Plus(f[c], Times(l.data[LeftOffset(row, c, l)],
                                      r.data[RightOffset(c, col, r)]))
      BY <2>1, <3>1
    <3>3. /\ LeftOffset(row, c, l) \in Elements(l)
          /\ RightOffset(c, col, r) \in Elements(r)
      BY <1>2, <3>1 DEF ProductFits
    <3>4. /\ l.data[LeftOffset(row, c, l)] \in S
          /\ r.data[RightOffset(c, col, r)] \in S
      BY <3>3, TensorOverIs
    <3>5. f[c] \in S
      BY <2>3, <3>1
    <3> QED
      BY <3>2, <3>4, <3>5 DEF Arithmetic
  <2>4. k \in T
    <3> HIDE DEF T
    <3> QED
      BY <1>1, <2>2, <2>3, SetInduction
  <2>5. f[k] \in S
    BY <1>1, <2>4
  <2> QED
    BY <2>5 DEF f
<1> HIDE DEF m, k, n
<1>3. shape \in Seq(Nat)
  BY <1>1
<1>4. Numel(shape) = m * n
  <2> DEFINE f == ExtentProducts(shape)
  <2>1. Len(shape) = 2 /\ shape[1] = m /\ shape[2] = n
    OBVIOUS
  <2> HIDE DEF shape
  <2>2. f = [c \in 0 .. Len(shape) |-> IF c = 0 THEN 1 ELSE CheckedMul(f[c - 1], shape[c])]
    BY <2>1, ExtentProductsDef
  <2> HIDE DEF f
  <2>3. f[0] = 1 /\ f[1] = CheckedMul(f[0], m) /\ f[2] = CheckedMul(f[1], n)
    BY <2>1, <2>2
  <2>4. f[2] # Overflow
    BY <2>1 DEF f, Numel, m, n, shape
  <2>5. f[1] # Overflow /\ f[2] = f[1] * n
    BY <2>3, <2>4 DEF CheckedMul
  <2>6. f[1] = m
    BY <1>1, <2>3, <2>5 DEF CheckedMul
  <2> QED
    BY <2>1, <2>5, <2>6 DEF Numel, f
<1>5. ASSUME NEW i \in 0 .. Numel(shape) - 1
      PROVE  Products(l, r, i \div n, i % n)[k] \in S
  <2>1. i \div n \in 0 .. m - 1 /\ i % n \in 0 .. n - 1
    BY <1>1, <1>4, <1>5, DivisionBelow
  <2> QED
    BY <1>2, <2>1
<1>6. EvalMatmul(l, r) = [shape |-> shape, data |->
                            [i \in 0 .. Numel(shape) - 1 |-> Products(l, r, i \div n, i % n)[k]]]
  BY DEF EvalMatmul, Tensor, m, n, k
<1>7. Numel(shape) # Overflow
  BY DEF m, n
<1> HIDE DEF shape
<1> QED
  BY <1>3, <1>5, <1>6, <1>7 DEF TensorOver

\* So does a sum over axes.
LEMMA SumOver ==
  ASSUME NEW S, Arithmetic(S), NEW t, TensorOver(S, t), NEW axes, NEW keepdim \in BOOLEAN,
         Numel(SumOutputShape(t.shape, axes, keepdim)) # Overflow
  PROVE  TensorOver(S, EvalSum(t, axes, keepdim))
<1> DEFINE out == SumOutputShape(t.shape, axes, keepdim)
           f == Scattered(t, axes, keepdim)
           N == Cardinality(Elements(t))
           target(n) == SumTarget(n, t.shape, axes, keepdim)
           zeros == Zeros(out)
           D == 0 .. (Numel(out) - 1)
           T == {n \in Nat : n <= N => f[n] \in [D -> S]}
<1>1. N \in Nat /\ \A n \in Nat : n < N => n \in Elements(t)
  <2>1. Numel(t.shape) \in Nat /\ Elements(t) = 0 .. (Numel(t.shape) - 1)
    BY TensorOverIs
  <2>2. IsFiniteSet(0 .. (Numel(t.shape) - 1)) /\ N = Numel(t.shape)
    BY <2>1, FS_Interval
  <2> QED
    BY <2>1, <2>2
<1>2. f = [n \in 0 .. N |-> IF n = 0 THEN zeros
                            ELSE AddAt(f[n - 1], target(n - 1), t.data[n - 1])]
  BY <1>1, ScatteredDef
<1>3. zeros \in [D -> S]
  BY DEF Zeros, Arithmetic
<1>4. \A i \in Elements(t) : t.data[i] \in S
  BY TensorOverIs
<1>5. out \in Seq(Nat)
  BY SumShapeIsReduced, ReducedShapeIsShape DEF TensorOver
<1>6. EvalSum(t, axes, keepdim) = [shape |-> out, data |-> f[N]]
  BY DEF EvalSum
<1> HIDE DEF f, N, zeros, D, target, out
<1>7. 0 \in T
  BY <1>1, <1>2, <1>3
<1>8. ASSUME NEW n \in Nat, n \in T
      PROVE  n + 1 \in T
  <2> SUFFICES ASSUME n + 1 <= N
               PROVE  f[n + 1] \in [D -> S]
    OBVIOUS
  <2>1. n + 1 \in 0 .. N /\ n + 1 # 0 /\ (n + 1) - 1 = n /\ n <= N /\ n < N
    BY <1>1
  <2>2. f[n + 1] = AddAt(f[n], target(n), t.data[n])
    BY <1>2, <2>1
  <2>3. f[n] \in [D -> S] /\ t.data[n] \in S
    BY <1>1, <1>4, <1>8, <2>1
  <2>4. \A x \in S : Plus(x, t.data[n]) \in S
    BY <2>3 DEF Arithmetic
  <2> QED
    BY <2>2, <2>3, <2>4 DEF AddAt
<1>9. N \in T
  <2> HIDE DEF T
  <2> QED
    BY <1>1, <1>7, <1>8, SetInduction
<1>10. f[N] \in [D -> S]
  BY <1>1, <1>9
<1> QED
  BY <1>5, <1>6, <1>10 DEF TensorOver, D, out

\* The value of a node is one if those of its operands are and it has no error.
LEMMA NodeOver ==
  ASSUME NEW S, Arithmetic(S), NEW node, IsNode(node), AttrFits(node),
         ConstError(node) = "None",
         node.op = "Const" => Lifts(Range(node.attr.data), S),
         NEW env, \A name \in DOMAIN env : TensorOver(S, env[name]),
         NEW values, \A k \in DOMAIN node.args : TensorOver(S, values[node.args[k]]),
         NodeError(node, env, values) = "None", IsTensor(EvalNode(node, env, values)),
         node.op = "Reshape" =>
            Numel(values[node.args[1]].shape) = Numel(node.attr.shape)
  PROVE  TensorOver(S, EvalNode(node, env, values))
<1> DEFINE value == EvalNode(node, env, values)
           l == values[node.args[1]]
           r == values[node.args[2]]
<1>1. node.op \in Operations
  BY DEF IsNode
<1>2. /\ node.op \in BinaryOps => TensorOver(S, l) /\ TensorOver(S, r)
      /\ node.op \in UnaryOps \cup {"Sum", "Reshape"} => TensorOver(S, l)
  BY OperandsThere
<1>3. IsTensor(value)
  OBVIOUS
<1>4. node.op \notin {"Input", "Const"} => OperandsFit(node, values)
  BY DEF NodeError
<1> HIDE DEF l, r, value
<1>5. CASE node.op = "Input"
  <2>1. node.attr.name \in DOMAIN env
    BY <1>5 DEF NodeError, InputError
  <2>2. value = env[node.attr.name]
    BY <1>5 DEF value, EvalNode
  <2> QED
    BY <2>1, <2>2 DEF value
<1>6. CASE node.op = "Const"
  <2> DEFINE shape == node.attr.shape
             data  == node.attr.data
  <2>1. /\ node.op = "Const" => node.attr.shape \in Seq(Nat)
        /\ node.op = "Const" => node.attr.data \in Seq(Range(node.attr.data))
    BY DEF AttrFits
  <2>2. shape \in Seq(Nat) /\ data \in Seq(Range(data))
    BY <1>6, <2>1
  <2>3. Numel(shape) # Overflow /\ Len(data) = Numel(shape)
    BY <1>6 DEF ConstError
  <2>4. \A k \in DOMAIN data : IsFinite(data[k])
    BY <1>6 DEF NodeError, LiteralError
  <2>5. value = Tensor(shape, LAMBDA i : LiftLiteral(data[i + 1]))
    BY <1>6 DEF value, EvalNode
  <2> HIDE DEF shape, data
  <2>6. \A i \in 0 .. Numel(shape) - 1 : LiftLiteral(data[i + 1]) \in S
    <3> SUFFICES ASSUME NEW i \in 0 .. Numel(shape) - 1
                 PROVE  LiftLiteral(data[i + 1]) \in S
      OBVIOUS
    <3>1. Len(data) \in Nat /\ DOMAIN data = 1 .. Len(data)
      BY <2>2
    <3>2. i + 1 \in DOMAIN data
      BY <2>3, <3>1
    <3>3. Lifts(Range(data), S)
      BY <1>6 DEF data
    <3> QED
      BY <2>4, <3>2, <3>3 DEF Lifts, Range
  <2> QED
    BY <2>2, <2>3, <2>5, <2>6 DEF Tensor, TensorOver, value
<1>7. CASE node.op \in {"Add", "Sub", "Mul"}
  <2>1. l.shape = r.shape
    BY <1>4, <1>7 DEF OperandsFit, l, r
  <2>2. TensorOver(S, l) /\ TensorOver(S, r)
    BY <1>2, <1>7 DEF BinaryOps
  <2>3. value \in {EvalAdd(l, r), EvalSub(l, r), EvalMul(l, r)}
    BY <1>7 DEF value, EvalNode, l, r
  <2> QED
    BY <2>1, <2>2, <2>3, OperationsOver DEF value
<1>8. CASE node.op \in UnaryOps
  <2>1. TensorOver(S, l)
    BY <1>2, <1>8
  <2>2. value \in {EvalNeg(l), EvalRelu(l)}
    BY <1>8 DEF value, EvalNode, l, UnaryOps
  <2> QED
    BY <2>1, <2>2, OperationsOver DEF value
<1>9. CASE node.op = "Matmul"
  <2>1. TensorOver(S, l) /\ TensorOver(S, r)
    BY <1>2, <1>9 DEF BinaryOps
  <2>2. ProductFits(l, r)
    BY <1>4, <1>9 DEF OperandsFit, l, r
  <2>3. value = EvalMatmul(l, r)
    BY <1>9 DEF value, EvalNode, l, r
  <2>4. Numel(<<l.shape[1], r.shape[2]>>) # Overflow
    <3>1. value.shape = <<l.shape[1], r.shape[2]>>
      BY <2>3, MatmulFills
    <3> QED
      BY <1>3, <3>1 DEF IsTensor
  <2> QED
    BY <2>1, <2>2, <2>3, <2>4, MatmulOver DEF value
<1>10. CASE node.op = "Sum"
  <2>1. TensorOver(S, l)
    BY <1>2, <1>10
  <2>2. value = EvalSum(l, node.attr.axes, node.attr.keepdim)
    BY <1>10 DEF value, EvalNode, l
  <2>3. node.attr.keepdim \in BOOLEAN
    BY <1>10 DEF AttrFits
  <2>4. value.shape = SumOutputShape(l.shape, node.attr.axes, node.attr.keepdim)
    BY <2>2 DEF EvalSum
  <2>5. Numel(SumOutputShape(l.shape, node.attr.axes, node.attr.keepdim)) # Overflow
    BY <1>3, <2>4 DEF IsTensor
  <2> QED
    BY <2>1, <2>2, <2>3, <2>5, SumOver DEF value
<1>11. CASE node.op = "Reshape"
  <2>1. TensorOver(S, l)
    BY <1>2, <1>11
  <2>2. value = [shape |-> node.attr.shape, data |-> l.data]
    BY <1>11 DEF value, EvalNode, EvalReshape, l
  <2>3. node.attr.shape \in Seq(Nat)
    BY <1>11 DEF AttrFits
  <2>4. Numel(l.shape) = Numel(node.attr.shape)
    BY <1>11 DEF l
  <2> QED
    BY <2>1, <2>2, <2>3, <2>4 DEF TensorOver, value
<1> QED
  BY <1>1, <1>5, <1>6, <1>7, <1>8, <1>9, <1>10, <1>11 DEF Operations, BinaryOps

\* A computation over a set of scalars stays in it.
LEMMA ValuesOver ==
  ASSUME NEW S, Arithmetic(S), NEW g, NodesFit(g), Valid(g), Lifts(LiteralsOf(g), S),
         NEW types, TypesAre(g, types),
         NEW env, \A name \in DOMAIN env : TensorOver(S, env[name]),
         NEW values, ValuesAre(g, env, types, values)
  PROVE  \A i \in Ids(g) : TensorOver(S, values[i])
<1> DEFINE N == Len(g.nodes)
           T == {n \in Nat : n <= N => \A i \in 1 .. n : TensorOver(S, values[i])}
<1>1. N \in Nat /\ Ids(g) = 1 .. N
  BY DEF NodesFit, Ids
<1>2. 0 \in T
  OBVIOUS
<1>3. ASSUME NEW n \in Nat, n \in T
      PROVE  n + 1 \in T
  <2> SUFFICES ASSUME n + 1 <= N
               PROVE  \A i \in 1 .. (n + 1) : TensorOver(S, values[i])
    OBVIOUS
  <2>1. n + 1 \in Ids(g) /\ n + 1 \in 1 .. N /\ (n + 1) - 1 = n /\ n <= N
    BY <1>1
  <2>2. \A i \in 1 .. n : TensorOver(S, values[i])
    BY <1>3, <2>1
  <2> DEFINE node == g.nodes[n + 1]
  <2>3. IsNode(node) /\ \A k \in DOMAIN node.args : node.args[k] \in 1 .. n
    BY <2>1, NodesAre
  <2>4. AttrFits(node) /\ ConstError(node) = "None"
    BY <2>1 DEF NodesFit, Valid, ConstsFit
  <2>5. /\ NodeError(node, env, values) = "None"
        /\ values[n + 1] = EvalNode(node, env, values)
        /\ IsTensor(values[n + 1])
        /\ \A i \in 1 .. N : values[i].shape = types[i].shape
    BY <2>1 DEF ValuesAre, ValuesUpTo
  <2>6. types[n + 1] = InferNode(node, types) /\ types[n + 1].err = "None"
    BY <2>1 DEF TypesAre
  <2>11. node.op = "Const" => Lifts(Range(node.attr.data), S)
    BY <2>1 DEF Lifts, LiteralsOf
  <2> HIDE DEF node
  <2>7. \A k \in DOMAIN node.args : TensorOver(S, values[node.args[k]])
    BY <2>2, <2>3
  <2>8. ASSUME node.op = "Reshape"
        PROVE  Numel(values[node.args[1]].shape) = Numel(node.attr.shape)
    <3>1. node.args[1] \in 1 .. n
      BY <2>3, <2>8, OperandsThere
    <3>2. node.args[1] \in 1 .. N
      BY <2>1, <3>1
    <3>3. InferNode(node, types) = InferReshape(types[node.args[1]], node.attr.shape)
      <4>1. ~ (\E k \in DOMAIN node.args : node.args[k] \notin DOMAIN types)
        <5>1. DOMAIN types = 1 .. N
          BY Lists DEF TypesAre
        <5> QED
          BY <2>1, <2>3, <5>1
      <4> QED
        BY <2>8, <4>1 DEF InferNode, UnaryOps
    <3>4. Numel(types[node.args[1]].shape) = Numel(node.attr.shape)
      BY <2>6, <3>3 DEF InferReshape, TypeErr
    <3> QED
      BY <2>5, <3>2, <3>4
  <2>9. TensorOver(S, values[n + 1])
    BY <2>3, <2>4, <2>5, <2>7, <2>8, <2>11, NodeOver
  <2>10. \A i \in 1 .. (n + 1) : i \in 1 .. n \/ i = n + 1
    OBVIOUS
  <2> QED
    BY <2>2, <2>9, <2>10
<1>4. N \in T
  <2> HIDE DEF T
  <2> QED
    BY <1>1, <1>2, <1>3, SetInduction
<1> QED
  BY <1>1, <1>4

=============================================================================
