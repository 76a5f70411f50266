------------------------------- MODULE Lemmas -------------------------------
(***************************************************************************)
(* Facts about natural numbers and finite sets of them that the library's  *)
(* theorem modules do not state in a form the provers can use: the least   *)
(* number principle for a set (the library has it for a predicate, which   *)
(* none of the provers can instantiate), what Min and Max return, and the  *)
(* k-th largest member of a set, by a least counterexample; and sequences     *)
(* without their last element.                                             *)
(***************************************************************************)
EXTENDS Integers, Sequences, FiniteSets, FiniteSetsExt, FiniteSetTheorems,
        SequenceTheorems, WellFoundedInduction, TLAPS

\* Every nonempty set of naturals has a least member: the initial segments
\* below its members are finite sets, which strict inclusion orders well.
LEMMA NatLeast ==
  ASSUME NEW T \in SUBSET Nat, T # {}
  PROVE  \E x \in T : \A y \in T : x <= y
<1> DEFINE Below == {0 .. x - 1 : x \in T}
<1>1. Below \subseteq FiniteSubsetsOf(Nat)
  <2> SUFFICES ASSUME NEW x \in T PROVE 0 .. x - 1 \in FiniteSubsetsOf(Nat)
    OBVIOUS
  <2>1. IsFiniteSet(0 .. x - 1)
    BY FS_Interval
  <2>2. 0 .. x - 1 \in SUBSET Nat
    OBVIOUS
  <2> QED BY <2>1, <2>2 DEF FiniteSubsetsOf
<1>2. Below # {}
  OBVIOUS
<1>3. PICK b \in Below : \A c \in Below : <<c, b>> \notin StrictSubsetOrdering(Nat)
  <2> HIDE DEF Below
  <2> QED BY <1>1, <1>2, FS_StrictSubsetOrderingWellFounded, WFMin
<1>4. PICK x \in T : b = 0 .. x - 1
  BY <1>3
<1>5. ASSUME NEW y \in T PROVE x <= y
  <2> SUFFICES ASSUME y < x PROVE FALSE
    OBVIOUS
  <2>1. 0 .. y - 1 \in Below
    OBVIOUS
  <2>2. 0 .. y - 1 \subseteq 0 .. x - 1 /\ y \in 0 .. x - 1 /\ y \notin 0 .. y - 1
    OBVIOUS
  <2>3. <<0 .. y - 1, 0 .. x - 1>> \in StrictSubsetOrdering(Nat)
    BY <2>2 DEF StrictSubsetOrdering
  <2> QED BY <1>3, <1>4, <2>1, <2>3
<1> QED BY <1>5

\* Min of a nonempty set of naturals is its least member.
LEMMA MinLeast ==
  ASSUME NEW T \in SUBSET Nat, T # {}
  PROVE  Min(T) \in T /\ \A y \in T : Min(T) <= y
BY NatLeast DEF Min

\* Max of a nonempty bounded set of naturals is its greatest member.
LEMMA MaxGreatest ==
  ASSUME NEW n \in Nat, NEW T \in SUBSET (0 .. n), T # {}
  PROVE  Max(T) \in T /\ \A y \in T : y <= Max(T)
<1> DEFINE Mirror == {n - x : x \in T}
<1>1. PICK m \in Mirror : \A k \in Mirror : m <= k
  <2>1. \A x \in T : n - x \in Nat
    OBVIOUS
  <2>2. Mirror \in SUBSET Nat /\ Mirror # {}
    BY <2>1
  <2> HIDE DEF Mirror
  <2> QED BY <2>2, NatLeast
<1>2. PICK x \in T : m = n - x
  BY <1>1
<1>3. \A y \in T : y <= x
  <2> SUFFICES ASSUME NEW y \in T PROVE y <= x
    OBVIOUS
  <2>1. n - y \in Mirror
    OBVIOUS
  <2> QED BY <1>1, <1>2, <2>1
<1> QED BY <1>3 DEF Max

\* The members of a bounded set from one of them up.
UpFrom(T, i) == {j \in T : j >= i}

\* Every bounded set of naturals has a k-th largest member for every k up to
\* its size.
LEMMA NthLargest ==
  ASSUME NEW n \in Nat, NEW T \in SUBSET (0 .. n), NEW k \in 1 .. Cardinality(T)
  PROVE  \E i \in T : Cardinality(UpFrom(T, i)) = k
<1> DEFINE Bad == {m \in 1 .. Cardinality(T) :
                     \A i \in T : Cardinality(UpFrom(T, i)) # m}
<1>1. IsFiniteSet(T) /\ Cardinality(T) \in Nat
  <2>1. IsFiniteSet(0 .. n)
    BY FS_Interval
  <2>2. IsFiniteSet(T)
    BY <2>1, FS_Subset
  <2> QED BY <2>2, FS_CardinalityType
<1>2. \A S \in SUBSET T : IsFiniteSet(S) /\ Cardinality(S) \in Nat
  BY <1>1, FS_Subset, FS_CardinalityType
<1>3. SUFFICES ASSUME Bad # {} PROVE FALSE
  OBVIOUS
<1>4. PICK m \in Bad : \A l \in Bad : m <= l
  <2>1. Bad \in SUBSET Nat
    BY <1>1
  <2> HIDE DEF Bad
  <2> QED BY <1>3, <2>1, NatLeast
<1>5. \A j \in T : j \in Nat
  OBVIOUS
<1>6. m \in 1 .. Cardinality(T) /\ \A i \in T : Cardinality(UpFrom(T, i)) # m
  BY <1>4
<1>7. CASE m = 1
  <2>1. T # {}
    BY <1>1, <1>6, FS_EmptySet
  <2>2. PICK x \in T : \A y \in T : y <= x
    BY <2>1, MaxGreatest
  <2>3. \A j \in T : j >= x <=> j = x
    BY <1>5, <2>2
  <2>4. UpFrom(T, x) = {x}
    BY <2>3 DEF UpFrom
  <2> QED BY <1>6, <1>7, <2>4, FS_Singleton
<1>8. CASE m # 1
  <2>1. m - 1 \in 1 .. Cardinality(T) /\ m - 1 \notin Bad
    BY <1>1, <1>4, <1>8
  <2>2. PICK i \in T : Cardinality(UpFrom(T, i)) = m - 1
    BY <2>1
  <2> DEFINE Rest == {j \in T : j < i}
  <2>3. Rest # {}
    <3> SUFFICES ASSUME Rest = {} PROVE FALSE
      OBVIOUS
    <3>1. \A j \in T : j >= i
      BY <1>5
    <3>2. UpFrom(T, i) = T
      BY <3>1 DEF UpFrom
    <3> QED BY <1>1, <1>6, <2>2, <3>2
  <2>4. PICK r \in Rest : \A y \in Rest : y <= r
    <3>1. Rest \in SUBSET (0 .. n)
      OBVIOUS
    <3> HIDE DEF Rest
    <3> QED BY <2>3, <3>1, MaxGreatest
  <2>5. r \in T /\ r < i /\ \A j \in T : j < i => j <= r
    BY <2>4
  <2>6. \A j \in T : j >= r <=> j >= i \/ j = r
    BY <1>5, <2>5
  <2>7. UpFrom(T, r) = UpFrom(T, i) \cup {r}
    BY <2>5, <2>6 DEF UpFrom
  <2>8. r \notin UpFrom(T, i) /\ UpFrom(T, i) \in SUBSET T
    BY <1>5, <2>5 DEF UpFrom
  <2>9. Cardinality(UpFrom(T, r)) = m
    BY <1>2, <1>6, <2>2, <2>7, <2>8, FS_AddElement
  <2> QED BY <1>6, <2>5, <2>9
<1> QED BY <1>7, <1>8

\* A sequence without its last element.
LEMMA FrontType ==
  ASSUME NEW S, NEW s \in Seq(S), s # <<>>
  PROVE  LET front == SubSeq(s, 1, Len(s) - 1)
         IN  /\ front \in Seq(S)
             /\ Len(front) = Len(s) - 1 /\ Len(front) \in Nat
             /\ \A i \in 1 .. Len(s) - 1 : front[i] = s[i]
<1> DEFINE n == Len(s) - 1
<1>1. n \in Nat /\ \A i \in 1 .. n : s[i] \in S
  OBVIOUS
<1> HIDE DEF n
<1>2. /\ SubSeq(s, 1, n) \in Seq(S)
      /\ Len(SubSeq(s, 1, n)) = IF 1 <= n THEN n - 1 + 1 ELSE 0
      /\ \A i \in 1 .. n - 1 + 1 : SubSeq(s, 1, n)[i] = s[1 + i - 1]
  BY <1>1, SubSeqProperties
<1>3. Len(SubSeq(s, 1, n)) = n
  BY <1>1, <1>2
<1>4. ASSUME NEW i \in 1 .. n PROVE SubSeq(s, 1, n)[i] = s[i]
  <2>1. 1 + i - 1 = i /\ i \in 1 .. n - 1 + 1
    BY <1>1
  <2> QED BY <1>2, <2>1
<1> QED BY <1>1, <1>2, <1>3, <1>4 DEF n

\* Functions of the numbers up to N, and steps from the value at one number to
\* that at the next.
Upto(N, X)      == [0 .. N -> X]
StepsUpto(N, X) == [1 .. N -> [X -> X]]
Follows(g, base, step, N) == g[0] = base /\ \A n \in 1 .. N : g[n] = step[n][g[n - 1]]

\* A function defined by recursion from one number to the next.
LEMMA Recursion ==
  ASSUME NEW X, NEW base \in X, NEW N \in Nat, NEW step \in StepsUpto(N, X)
  PROVE  \E g \in Upto(N, X) : Follows(g, base, step, N)
<1>0. step \in [1 .. N -> [X -> X]]
  BY DEF StepsUpto
<1> DEFINE Good(k, g) == g[0] = base /\ \A n \in 1 .. k : g[n] = step[n][g[n - 1]]
           Bad == {k \in 0 .. N : ~\E g \in [0 .. k -> X] : Good(k, g)}
<1>1. Bad = {}
  <2> SUFFICES ASSUME Bad # {} PROVE FALSE
    OBVIOUS
  <2>1. PICK k \in Bad : \A l \in Bad : k <= l
    <3>1. Bad \in SUBSET Nat
      OBVIOUS
    <3> HIDE DEF Bad
    <3> QED BY <3>1, NatLeast
  <2>2. k \in 0 .. N /\ ~\E g \in [0 .. k -> X] : Good(k, g)
    BY <2>1
  <2>3. CASE k = 0
    <3> DEFINE h == [n \in 0 .. 0 |-> base]
    <3>1. h \in [0 .. k -> X] /\ Good(k, h)
      BY <2>3
    <3> QED BY <2>2, <3>1
  <2>4. CASE k # 0
    <3>1. k - 1 \in 0 .. N /\ k - 1 \notin Bad
      BY <2>1, <2>2, <2>4
    <3>2. PICK g \in [0 .. k - 1 -> X] : Good(k - 1, g)
      BY <3>1
    <3> DEFINE h == [n \in 0 .. k |-> IF n = k THEN step[k][g[k - 1]] ELSE g[n]]
    <3>3. k \in 1 .. N /\ k - 1 \in 0 .. k - 1
      BY <2>2, <2>4
    <3>4. step[k][g[k - 1]] \in X
      BY <1>0, <3>2, <3>3
    <3>5. \A n \in 0 .. k : n # k => n \in 0 .. k - 1
      BY <3>3
    <3>6. h \in [0 .. k -> X]
      BY <3>2, <3>4, <3>5
    <3>7. h[0] = base
      BY <3>2, <3>3
    <3>8. ASSUME NEW n \in 1 .. k PROVE h[n] = step[n][h[n - 1]]
      <4>1. n - 1 \in 0 .. k /\ n - 1 # k /\ n \in 0 .. k
        BY <3>3
      <4>2. h[n - 1] = g[n - 1]
        BY <4>1
      <4>3. CASE n = k
        BY <4>1, <4>2, <4>3
      <4>4. CASE n # k
        <5>1. n \in 1 .. k - 1
          BY <3>3, <4>4
        <5> QED BY <3>2, <4>1, <4>2, <4>4, <5>1
      <4> QED BY <4>3, <4>4
    <3> HIDE DEF h
    <3> QED BY <2>2, <3>6, <3>7, <3>8
  <2> QED BY <2>3, <2>4
<1>2. N \in 0 .. N
  OBVIOUS
<1>3. N \notin Bad
  <2> HIDE DEF Bad
  <2> QED BY <1>1
<1>4. PICK g \in [0 .. N -> X] : Good(N, g)
  BY <1>2, <1>3
<1> QED BY <1>4 DEF Upto, Follows
=============================================================================
