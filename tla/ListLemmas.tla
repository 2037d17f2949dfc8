------------------------------ MODULE ListLemmas ------------------------------
(***************************************************************************)
(* Induction, and what ordering a set and flattening a sequence of          *)
(* sequences return, for inputs of every size.                              *)
(***************************************************************************)
EXTENDS Lists, SequencesExt, FiniteSetTheorems, SequenceTheorems, WellFoundedInduction, TLAPS

-----------------------------------------------------------------------------
(* Numbers.                                                                *)

\* A set of numbers that is not empty has a least one.
LEMMA LeastOfSet ==
    ASSUME NEW S \in SUBSET Nat, S # {}
    PROVE  \E x \in S : \A y \in S : x <= y
<1>1. PICK x \in S : \A y \in S : ~(<<y, x>> \in OpToRel(<, Nat))
  BY NatLessThanWellFounded, WFMin, Zenon
<1>2. \A y \in S : ~(y < x)
  BY <1>1, Zenon DEF OpToRel
<1> QED
  BY <1>2

\* It is the one Min names.
LEMMA LeastIsMin ==
    ASSUME NEW S \in SUBSET Nat, S # {}
    PROVE  Min(S) \in S /\ \A y \in S : Min(S) <= y
<1>1. \E x \in S : \A y \in S : x <= y
  BY LeastOfSet
<1> QED
  BY <1>1, Zenon DEF Min

\* Induction: a set with 0 and the successor of each of its members has them all.
LEMMA NatInductive ==
    ASSUME NEW T, 0 \in T, \A n \in Nat : n \in T => n + 1 \in T
    PROVE  \A n \in Nat : n \in T
<1> DEFINE S == {n \in Nat : n \notin T}
<1>1. SUFFICES ASSUME S # {} PROVE FALSE
  OBVIOUS
<1> HIDE DEF S
<1>2. PICK x \in S : \A y \in S : x <= y
  BY <1>1, LeastOfSet DEF S
<1>3. x \in Nat /\ x \notin T /\ x # 0
  BY <1>2 DEF S
<1>4. x - 1 \in Nat /\ x - 1 \notin S
  BY <1>2, <1>3
<1>5. x - 1 \in T
  BY <1>4 DEF S
<1> QED
  BY <1>3, <1>4, <1>5

\* A nonempty set of numbers up to n has a greatest one, the one Max names.
LEMMA GreatestOfBounded ==
    ASSUME NEW n \in Nat, NEW S \in SUBSET (1..n), S # {}
    PROVE  Max(S) \in S /\ \A y \in S : y <= Max(S)
<1> DEFINE T == {m \in Nat : n - m \in S}
<1>1. T \subseteq Nat
  OBVIOUS
<1>2. \A y \in S : y \in Nat /\ n - y \in T
  OBVIOUS
<1>3. T # {}
  BY <1>2
<1> HIDE DEF T
<1>4. PICK x \in T : \A y \in T : x <= y
  BY <1>1, <1>3, LeastOfSet
<1>5. n - x \in S
  BY <1>4 DEF T
<1>6. \A y \in S : n - x >= y
  BY <1>1, <1>2, <1>4
<1> QED
  BY <1>5, <1>6 DEF Max

\* Where a prefix whose elements are all in S ends.
LEMMA FirstOutside ==
    ASSUME NEW n \in Nat, NEW S
    PROVE  \E i \in 1..n + 1 : /\ \A j \in 1..i - 1 : j \in S
                               /\ i <= n => i \notin S
<1> DEFINE T == {i \in 1..n + 1 : i = n + 1 \/ i \notin S}
<1>1. T \in SUBSET Nat /\ n + 1 \in T
  OBVIOUS
<1> HIDE DEF T
<1>2. PICK i \in T : \A y \in T : i <= y
  BY <1>1, LeastOfSet
<1>3. i \in 1..n + 1 /\ (i <= n => i \notin S)
  BY <1>2 DEF T
<1>4. ASSUME NEW j \in 1..i - 1 PROVE j \in S
  <2>1. j \in 1..n /\ j \notin T
    BY <1>2, <1>3
  <2> QED
    BY <2>1 DEF T
<1> QED
  BY <1>3, <1>4

-----------------------------------------------------------------------------
(* The members of a set in order.                                          *)

\* f lists numbers in strictly ascending order.
Ascends(f, n) ==
    /\ f \in [1..n -> Int]
    /\ \A i, j \in 1..n : i < j => f[i] < f[j]

\* Its first i values.
Listed(f, i) == {f[j] : j \in 1..i}

\* They are i of them.
LEMMA CountAscending ==
    ASSUME NEW n \in Nat, NEW f, Ascends(f, n), NEW i \in 0..n
    PROVE  IsFiniteSet(Listed(f, i)) /\ Cardinality(Listed(f, i)) = i
<1> DEFINE S == {f[j] : j \in 1..i}
           g == [j \in 1..i |-> f[j]]
<1>1. \A j, k \in 1..i : j # k => f[j] # f[k]
  <2>1. TAKE j, k \in 1..i
  <2>2. HAVE j # k
  <2>3. j \in 1..n /\ k \in 1..n /\ (j < k \/ k < j)
    BY <2>2
  <2> QED
    BY <2>3 DEF Ascends
<1>2. g \in Bijection(1..i, S)
  <2>1. g \in [1..i -> S]
    OBVIOUS
  <2>2. g \in Injection(1..i, S)
    BY <1>1, <2>1 DEF Injection, IsInjective
  <2>3. g \in Surjection(1..i, S)
    BY <2>1 DEF Surjection
  <2> QED
    BY <2>2, <2>3 DEF Bijection
<1>3. ExistsBijection(1..i, S)
  BY <1>2 DEF ExistsBijection
<1>4. IsFiniteSet(1..i) /\ Cardinality(1..i) = i
  BY FS_Interval
<1> HIDE DEF S, g
<1>5. IsFiniteSet(S) /\ Cardinality(S) = i
  BY <1>3, <1>4, FS_Bijection
<1> QED
  BY <1>5 DEF S, Listed

\* A list in ascending order is what Ordered makes of its members.
LEMMA OrderedIs ==
    ASSUME NEW n \in Nat, NEW f, Ascends(f, n)
    PROVE  Ordered(Listed(f, n)) = f
<1> DEFINE S == Listed(f, n)
           Below(x) == {y \in S : y < x}
<1>1. Cardinality(S) = n
  <2>1. n \in 0..n
    OBVIOUS
  <2> QED
    BY <2>1, CountAscending
<1>2. ASSUME NEW i \in 1..n PROVE Cardinality(Below(f[i])) = i - 1
  <2>1. Below(f[i]) = Listed(f, i - 1)
    <3>1. \A j \in 1..n : f[j] < f[i] <=> j < i
      BY DEF Ascends
    <3> QED
      BY <3>1 DEF Listed
  <2>2. i - 1 \in 0..n
    OBVIOUS
  <2> QED
    BY <2>1, <2>2, CountAscending
<1>3. ASSUME NEW i \in 1..n
      PROVE  (CHOOSE x \in S : Cardinality(Below(x)) = i - 1) = f[i]
  <2>1. f[i] \in S
    BY DEF Listed
  <2>2. \A x \in S : Cardinality(Below(x)) = i - 1 => x = f[i]
    <3>1. TAKE x \in S
    <3>2. PICK j \in 1..n : x = f[j]
      BY DEF Listed
    <3>3. Cardinality(Below(x)) = j - 1
      BY <3>2, <1>2
    <3> QED
      BY <3>2, <3>3
  <2> HIDE DEF S, Below
  <2> QED
    BY <1>2, <2>1, <2>2
<1>4. f = [i \in 1..n |-> f[i]]
  BY DEF Ascends
<1>5. Ordered(S) = [i \in 1..n |-> CHOOSE x \in S : Cardinality(Below(x)) = i - 1]
  BY <1>1 DEF Ordered
<1> HIDE DEF S, Below
<1>6. Ordered(S) = f
  BY <1>3, <1>4, <1>5
<1> QED
  BY <1>6 DEF S

\* A finite set of integers that is not empty has a greatest member.
LEMMA GreatestOfFinite ==
    ASSUME NEW S \in SUBSET Int, IsFiniteSet(S), S # {}
    PROVE  \E m \in S : \A y \in S : y <= m
<1> DEFINE Good(n) == \A Z \in SUBSET Int : IsFiniteSet(Z) /\ Cardinality(Z) = n + 1
                                               => \E m \in Z : \A y \in Z : y <= m
           T == {n \in Nat : Good(n)}
<1>1. Good(0)
  <2>1. SUFFICES ASSUME NEW Z \in SUBSET Int, IsFiniteSet(Z), Cardinality(Z) = 1
                 PROVE  \E m \in Z : \A y \in Z : y <= m
    OBVIOUS
  <2>2. PICK x : Z = {x}
    BY <2>1, FS_Singleton
  <2> QED
    BY <2>2
<1>2. ASSUME NEW n \in Nat, Good(n) PROVE Good(n + 1)
  <2>1. SUFFICES ASSUME NEW Z \in SUBSET Int, IsFiniteSet(Z), Cardinality(Z) = n + 2
                 PROVE  \E m \in Z : \A y \in Z : y <= m
    OBVIOUS
  <2>2. Z # {}
    BY <2>1, FS_EmptySet
  <2>3. PICK x \in Z : TRUE
    BY <2>2
  <2>4. Z \ {x} \in SUBSET Int /\ IsFiniteSet(Z \ {x}) /\ Cardinality(Z \ {x}) = n + 1
    BY <2>1, <2>3, FS_RemoveElement
  <2>5. PICK m \in Z \ {x} : \A y \in Z \ {x} : y <= m
    BY <1>2, <2>4, Zenon
  <2>6. CASE m <= x
    <3>1. \A y \in Z : y <= x
      BY <2>5, <2>6
    <3> QED
      BY <3>1
  <2>7. CASE ~(m <= x)
    <3>1. \A y \in Z : y <= m
      BY <2>5, <2>7
    <3> QED
      BY <3>1
  <2> QED
    BY <2>6, <2>7
<1>3. \A n \in Nat : n \in T
  <2> HIDE DEF Good
  <2>1. 0 \in T /\ \A n \in Nat : n \in T => n + 1 \in T
    BY <1>1, <1>2
  <2> HIDE DEF T
  <2> QED
    BY <2>1, NatInductive
<1>4. Cardinality(S) \in Nat /\ Cardinality(S) # 0
  BY FS_CardinalityType, FS_EmptySet
<1>5. Good(Cardinality(S) - 1)
  BY <1>3, <1>4
<1> QED
  BY <1>4, <1>5

\* A finite set of integers can be listed in ascending order.
LEMMA CanBeListed ==
    ASSUME NEW S \in SUBSET Int, IsFiniteSet(S)
    PROVE  \E f : Ascends(f, Cardinality(S)) /\ Listed(f, Cardinality(S)) = S
<1> DEFINE Good(n) == \A Z \in SUBSET Int : IsFiniteSet(Z) /\ Cardinality(Z) = n
                                               => \E f : Ascends(f, n) /\ Listed(f, n) = Z
           T == {n \in Nat : Good(n)}
<1>1. Good(0)
  <2>1. SUFFICES ASSUME NEW Z \in SUBSET Int, IsFiniteSet(Z), Cardinality(Z) = 0
                 PROVE  \E f : Ascends(f, 0) /\ Listed(f, 0) = Z
    OBVIOUS
  <2>2. Z = {}
    BY <2>1, FS_EmptySet
  <2>3. Ascends([i \in 1..0 |-> 0], 0) /\ Listed([i \in 1..0 |-> 0], 0) = {}
    BY DEF Ascends, Listed
  <2> QED
    BY <2>2, <2>3
<1>2. ASSUME NEW n \in Nat, Good(n) PROVE Good(n + 1)
  <2>1. SUFFICES ASSUME NEW Z \in SUBSET Int, IsFiniteSet(Z), Cardinality(Z) = n + 1
                 PROVE  \E f : Ascends(f, n + 1) /\ Listed(f, n + 1) = Z
    OBVIOUS
  <2>2. Z # {}
    BY <2>1, FS_EmptySet
  <2>3. PICK m \in Z : \A y \in Z : y <= m
    BY <2>1, <2>2, GreatestOfFinite
  <2>4. Z \ {m} \in SUBSET Int /\ IsFiniteSet(Z \ {m}) /\ Cardinality(Z \ {m}) = n
    <3>1. IsFiniteSet(Z \ {m}) /\ Cardinality(Z \ {m}) = n + 1 - 1
      BY <2>1, FS_RemoveElement
    <3> QED
      BY <3>1
  <2>5. PICK f : Ascends(f, n) /\ Listed(f, n) = Z \ {m}
    BY <1>2, <2>4, Zenon
  <2> DEFINE g == [i \in 1..n + 1 |-> IF i = n + 1 THEN m ELSE f[i]]
  <2>6. /\ g \in [1..n + 1 -> Int] /\ g[n + 1] = m
        /\ \A i \in 1..n : g[i] = f[i] /\ f[i] \in Z /\ f[i] < m
    <3>1. \A i \in 1..n : f[i] \in Z \ {m}
      BY <2>5 DEF Listed
    <3>2. \A y \in Z \ {m} : y \in Int /\ m \in Int /\ y < m
      BY <2>3
    <3>3. \A i \in 1..n : f[i] \in Z /\ f[i] \in Int /\ f[i] < m
      BY <3>1, <3>2
    <3> QED
      BY <3>3
  <2>7. Ascends(g, n + 1)
    <3> HIDE DEF g
    <3>1. ASSUME NEW i \in 1..n + 1, NEW j \in 1..n + 1, i < j PROVE g[i] < g[j]
      <4>1. CASE j = n + 1
        BY <3>1, <4>1, <2>6
      <4>2. CASE j # n + 1
        BY <3>1, <4>2, <2>5, <2>6 DEF Ascends
      <4> QED
        BY <4>1, <4>2
    <3> QED
      BY <2>6, <3>1 DEF Ascends
  <2>8. Listed(g, n + 1) = Z
    <3> HIDE DEF g
    <3>1. \A x : x \in Listed(g, n + 1) <=> x = m \/ x \in Listed(f, n)
      BY <2>6 DEF Listed
    <3> QED
      BY <3>1, <2>3, <2>5
  <2> QED
    BY <2>7, <2>8
<1>3. \A n \in Nat : n \in T
  <2> HIDE DEF Good
  <2>1. 0 \in T /\ \A n \in Nat : n \in T => n + 1 \in T
    BY <1>1, <1>2
  <2> HIDE DEF T
  <2> QED
    BY <2>1, NatInductive
<1>4. Cardinality(S) \in Nat
  BY FS_CardinalityType
<1>5. Good(Cardinality(S))
  BY <1>3, <1>4
<1> QED
  BY <1>4, <1>5

\* Ordered lists the members of a finite set, each once, in ascending order.
LEMMA OrderedLists ==
    ASSUME NEW S \in SUBSET Int, IsFiniteSet(S)
    PROVE  /\ Cardinality(S) \in Nat
           /\ Ascends(Ordered(S), Cardinality(S))
           /\ Ordered(S) \in [1..Cardinality(S) -> S]
           /\ \A x \in S : \E i \in 1..Cardinality(S) : Ordered(S)[i] = x
<1>1. Cardinality(S) \in Nat
  BY FS_CardinalityType
<1>2. PICK f : Ascends(f, Cardinality(S)) /\ Listed(f, Cardinality(S)) = S
  BY CanBeListed
<1>3. Ordered(S) = f
  BY <1>1, <1>2, OrderedIs
<1>4. f \in [1..Cardinality(S) -> S]
  <2>1. \A i \in 1..Cardinality(S) : f[i] \in Listed(f, Cardinality(S))
    BY DEF Listed
  <2> QED
    BY <1>2, <2>1 DEF Ascends
<1>5. \A x \in S : \E i \in 1..Cardinality(S) : f[i] = x
  BY <1>2 DEF Listed
<1> QED
  BY <1>1, <1>2, <1>3, <1>4, <1>5

-----------------------------------------------------------------------------
(* Sequences put end to end.                                               *)

\* The function by which FlattenSeq is defined exists.
LEMMA FlattenFunction ==
    ASSUME NEW X, NEW seqs \in Seq(Seq(X)), Len(seqs) # 0
    PROVE  \E g \in [1..Len(seqs) -> Seq(X)] :
              /\ FlattenSeq(seqs) = g[Len(seqs)]
              /\ \A i \in 1..Len(seqs) :
                    g[i] = IF i = 1 THEN seqs[i] ELSE g[i - 1] \o seqs[i]
<1> DEFINE N == Len(seqs)
           Body(g) == [i \in 1..N |-> IF i = 1 THEN seqs[i] ELSE g[i - 1] \o seqs[i]]
           Good(n) == n <= N => \E g \in [1..n -> Seq(X)] : \A i \in 1..n :
                                   g[i] = IF i = 1 THEN seqs[i] ELSE g[i - 1] \o seqs[i]
           T == {n \in Nat : Good(n)}
<1>0. N \in Nat /\ \A i \in 1..N : seqs[i] \in Seq(X)
  OBVIOUS
<1>1. Good(0)
  <2>1. [i \in 1..0 |-> <<>>] \in [1..0 -> Seq(X)]
    OBVIOUS
  <2>2. \A i \in 1..0 : FALSE
    OBVIOUS
  <2> QED
    BY <2>1, <2>2, Zenon
<1>2. ASSUME NEW n \in Nat, Good(n) PROVE Good(n + 1)
  <2>1. SUFFICES ASSUME n + 1 <= N
                 PROVE  \E g \in [1..n + 1 -> Seq(X)] : \A i \in 1..n + 1 :
                           g[i] = IF i = 1 THEN seqs[i] ELSE g[i - 1] \o seqs[i]
    OBVIOUS
  <2>2. PICK f \in [1..n -> Seq(X)] : \A i \in 1..n :
                f[i] = IF i = 1 THEN seqs[i] ELSE f[i - 1] \o seqs[i]
    BY <1>0, <1>2, <2>1
  <2> DEFINE v == IF n = 0 THEN seqs[1] ELSE f[n] \o seqs[n + 1]
             g == [i \in 1..n + 1 |-> IF i = n + 1 THEN v ELSE f[i]]
  <2>3. v \in Seq(X)
    <3>1. CASE n = 0
      BY <1>0, <2>1, <3>1
    <3>2. CASE n # 0
      <4>1. f[n] \in Seq(X) /\ seqs[n + 1] \in Seq(X)
        BY <1>0, <2>1, <2>2, <3>2
      <4> QED
        BY <3>2, <4>1, ConcatProperties
    <3> QED
      BY <3>1, <3>2
  <2>4. g \in [1..n + 1 -> Seq(X)]
    <3> HIDE DEF v
    <3> QED
      BY <2>2, <2>3
  <2>5. ASSUME NEW i \in 1..n + 1
        PROVE  g[i] = IF i = 1 THEN seqs[i] ELSE g[i - 1] \o seqs[i]
    <3>1. CASE i = n + 1
      BY <3>1
    <3>2. CASE i # n + 1
      <4>1. i \in 1..n /\ g[i] = f[i] /\ (i # 1 => g[i - 1] = f[i - 1])
        BY <3>2
      <4>2. f[i] = IF i = 1 THEN seqs[i] ELSE f[i - 1] \o seqs[i]
        BY <2>2, <4>1
      <4> HIDE DEF g
      <4> QED
        BY <4>1, <4>2
    <3> QED
      BY <3>1, <3>2
  <2> HIDE DEF g
  <2> QED
    BY <2>4, <2>5
<1>3. \A n \in Nat : n \in T
  <2> HIDE DEF Good
  <2>1. 0 \in T /\ \A n \in Nat : n \in T => n + 1 \in T
    BY <1>1, <1>2
  <2> HIDE DEF T
  <2> QED
    BY <2>1, NatInductive
<1>4. PICK g \in [1..N -> Seq(X)] : \A i \in 1..N :
              g[i] = IF i = 1 THEN seqs[i] ELSE g[i - 1] \o seqs[i]
  <2>1. Good(N)
    BY <1>0, <1>3
  <2> QED
    BY <1>0, <2>1
<1> DEFINE flatten == CHOOSE h : h = Body(h)
<1>5. g = Body(g)
  BY <1>4
<1>6. flatten = Body(flatten)
  <2> HIDE DEF Body
  <2> QED
    BY <1>5
<1>7. FlattenSeq(seqs) = flatten[N]
  BY DEF FlattenSeq
<1> HIDE DEF flatten
<1>8. \A i \in 1..N : flatten[i] = IF i = 1 THEN seqs[i] ELSE flatten[i - 1] \o seqs[i]
  BY <1>6, Zenon
<1>9. \A n \in Nat : n \in {m \in Nat : m + 1 <= N => flatten[m + 1] \in Seq(X)}
  <2> DEFINE U == {m \in Nat : m + 1 <= N => flatten[m + 1] \in Seq(X)}
  <2>1. 0 \in U
    <3>1. 0 + 1 \in 1..N
      BY <1>0
    <3>2. flatten[1] = seqs[1]
      BY <1>8, <3>1
    <3> QED
      BY <1>0, <3>1, <3>2
  <2>2. ASSUME NEW n \in Nat, n \in U PROVE n + 1 \in U
    <3>1. SUFFICES ASSUME n + 2 <= N PROVE flatten[n + 2] \in Seq(X)
      OBVIOUS
    <3>2. flatten[n + 2] = flatten[n + 1] \o seqs[n + 2]
      <4>1. ASSUME NEW k \in 1..N, k = n + 2 PROVE flatten[k] = flatten[n + 1] \o seqs[k]
        <5>1. k # 1 /\ k - 1 = n + 1
          BY <4>1
        <5>2. flatten[k] = flatten[k - 1] \o seqs[k]
          BY <1>8, <5>1, Zenon
        <5> QED
          BY <5>1, <5>2
      <4>2. n + 2 \in 1..N
        BY <1>0, <3>1
      <4> QED
        BY <4>1, <4>2, Zenon
    <3>3. flatten[n + 1] \in Seq(X) /\ seqs[n + 2] \in Seq(X)
      BY <1>0, <2>2, <3>1
    <3> QED
      BY <3>2, <3>3, ConcatProperties
  <2> HIDE DEF U
  <2>3. \A n \in Nat : n \in U
    BY <2>1, <2>2, NatInductive
  <2> QED
    BY <2>3 DEF U
<1>10. flatten \in [1..N -> Seq(X)]
  <2>1. \A i \in 1..N : flatten[i] \in Seq(X)
    <3>1. TAKE i \in 1..N
    <3>2. i - 1 \in Nat /\ i - 1 + 1 = i
      OBVIOUS
    <3>3. i - 1 + 1 <= N => flatten[i - 1 + 1] \in Seq(X)
      BY <1>9, <3>2
    <3> QED
      BY <1>0, <3>2, <3>3
  <2>2. flatten = [i \in 1..N |-> flatten[i]]
    BY <1>6
  <2> HIDE DEF N
  <2> QED
    BY <2>1, <2>2
<1> HIDE DEF N
<1>11. FlattenSeq(seqs) = flatten[N]
       /\ \A i \in 1..N : flatten[i] = IF i = 1 THEN seqs[i] ELSE flatten[i - 1] \o seqs[i]
  BY <1>7, <1>8
<1> QED
  BY <1>10, <1>11 DEF N

\* A stretch of a sequence that has the elements of another is that other.
LEMMA Stretch ==
    ASSUME NEW X, NEW s \in Seq(X), NEW t \in Seq(X), NEW o \in Nat, NEW l \in Nat,
           Len(t) = l, o + l <= Len(s), \A i \in 1..l : s[o + i] = t[i]
    PROVE  SubSeq(s, o + 1, o + l) = t
<1> DEFINE u == SubSeq(s, o + 1, o + l)
<1>1. Len(s) \in Nat /\ \A i \in 1..Len(s) : s[i] \in X
  BY LenProperties, ElementOfSeq
<1>2. \A i \in o + 1..o + l : s[i] \in X
  BY <1>1
<1>3. /\ u \in Seq(X) /\ Len(u) = IF o + 1 <= o + l THEN o + l - (o + 1) + 1 ELSE 0
      /\ \A i \in 1..o + l - (o + 1) + 1 : u[i] = s[o + 1 + i - 1]
  BY <1>2, SubSeqProperties
<1> HIDE DEF u
<1>4. Len(u) = l
  BY <1>3
<1>5. ASSUME NEW i \in 1..l PROVE u[i] = t[i]
  <2>1. i \in 1..o + l - (o + 1) + 1 /\ o + 1 + i - 1 = o + i
    OBVIOUS
  <2>2. u[i] = s[o + 1 + i - 1]
    BY <1>3, <2>1
  <2> QED
    BY <2>1, <2>2
<1>6. u = t
  BY <1>3, <1>4, <1>5, SeqEqual
<1> QED
  BY <1>6 DEF u

\* F is the first n of the sequences put end to end: its element p is the element
\* k[p] of the sequence g[p]; they are in order, and none is missing.
Places(seqs, n, F, g, k) ==
    /\ g \in [1..Len(F) -> 1..n] /\ k \in [1..Len(F) -> Nat]
    /\ \A p \in 1..Len(F) : k[p] \in 1..Len(seqs[g[p]]) /\ F[p] = seqs[g[p]][k[p]]
    /\ \A p, q \in 1..Len(F) : p < q => g[p] < g[q] \/ (g[p] = g[q] /\ k[p] < k[q])
    /\ \A i \in 1..n : \A m \in 1..Len(seqs[i]) :
          \E p \in 1..Len(F) : g[p] = i /\ k[p] = m

\* One more sequence.
LEMMA PlacesStep ==
    ASSUME NEW X, NEW seqs, NEW n \in Nat, NEW F \in Seq(X), seqs[n + 1] \in Seq(X),
           NEW g, NEW k, Places(seqs, n, F, g, k)
    PROVE  \E h, l : Places(seqs, n + 1, F \o seqs[n + 1], h, l)
<1> DEFINE s == seqs[n + 1]
           G == F \o s
           h == [p \in 1..Len(G) |-> IF p <= Len(F) THEN g[p] ELSE n + 1]
           l == [p \in 1..Len(G) |-> IF p <= Len(F) THEN k[p] ELSE p - Len(F)]
<1>1. /\ Len(F) \in Nat /\ Len(s) \in Nat /\ Len(G) = Len(F) + Len(s)
      /\ \A p \in 1..Len(G) : G[p] = IF p <= Len(F) THEN F[p] ELSE s[p - Len(F)]
  BY ConcatProperties, LenProperties
<1> HIDE DEF G
<1>2. \A p \in 1..Len(G) : \/ p \in 1..Len(F) /\ h[p] = g[p] /\ l[p] = k[p]
                           \/ ~(p <= Len(F)) /\ h[p] = n + 1 /\ l[p] = p - Len(F)
  BY <1>1
<1>3. \A p \in 1..Len(F) : p \in 1..Len(G) /\ g[p] \in 1..n /\ k[p] \in Nat
  <2>1. g \in [1..Len(F) -> 1..n] /\ k \in [1..Len(F) -> Nat]
    BY DEF Places
  <2> QED
    BY <1>1, <2>1, SMTT(30)
<1>4. h \in [1..Len(G) -> 1..n + 1] /\ l \in [1..Len(G) -> Nat]
  BY <1>1, <1>3
<1> HIDE DEF h, l
<1>5. ASSUME NEW p \in 1..Len(G) PROVE l[p] \in 1..Len(seqs[h[p]]) /\ G[p] = seqs[h[p]][l[p]]
  <2>1. CASE p <= Len(F)
    <3>1. p \in 1..Len(F) /\ h[p] = g[p] /\ l[p] = k[p] /\ G[p] = F[p]
      BY <1>1, <1>2, <2>1
    <3> QED
      BY <3>1 DEF Places
  <2>2. CASE ~(p <= Len(F))
    <3>1. /\ h[p] = n + 1 /\ l[p] = p - Len(F) /\ G[p] = s[p - Len(F)]
          /\ p - Len(F) \in 1..Len(s)
      BY <1>1, <1>2, <2>2
    <3> QED
      BY <3>1
  <2> QED
    BY <2>1, <2>2
<1>6. ASSUME NEW p \in 1..Len(G), NEW q \in 1..Len(G), p < q
      PROVE  h[p] < h[q] \/ (h[p] = h[q] /\ l[p] < l[q])
  <2>1. CASE q <= Len(F)
    <3>1. /\ p \in 1..Len(F) /\ h[p] = g[p] /\ l[p] = k[p]
          /\ q \in 1..Len(F) /\ h[q] = g[q] /\ l[q] = k[q]
      BY <1>1, <1>2, <1>6, <2>1
    <3> QED
      BY <1>6, <3>1 DEF Places
  <2>2. CASE p <= Len(F) /\ ~(q <= Len(F))
    <3>1. p \in 1..Len(F) /\ h[p] = g[p] /\ h[q] = n + 1
      BY <1>2, <2>2
    <3> QED
      BY <1>3, <3>1
  <2>3. CASE ~(p <= Len(F)) /\ ~(q <= Len(F))
    <3>1. h[p] = n + 1 /\ l[p] = p - Len(F) /\ h[q] = n + 1 /\ l[q] = q - Len(F)
      BY <1>2, <2>3
    <3> QED
      BY <1>1, <1>6, <3>1
  <2> QED
    BY <1>1, <1>6, <2>1, <2>2, <2>3
<1>7. ASSUME NEW i \in 1..n + 1, NEW m \in 1..Len(seqs[i])
      PROVE  \E p \in 1..Len(G) : h[p] = i /\ l[p] = m
  <2>1. CASE i = n + 1
    <3>1. Len(F) + m \in 1..Len(G) /\ ~(Len(F) + m <= Len(F))
      BY <1>1, <2>1
    <3>2. h[Len(F) + m] = n + 1 /\ l[Len(F) + m] = Len(F) + m - Len(F)
      BY <1>2, <3>1
    <3>3. Len(F) + m - Len(F) = m
      BY <1>1, <2>1
    <3> QED
      BY <2>1, <3>1, <3>2, <3>3
  <2>2. CASE i # n + 1
    <3>1. i \in 1..n
      BY <2>2
    <3>2. PICK p \in 1..Len(F) : g[p] = i /\ k[p] = m
      BY <3>1 DEF Places
    <3>3. p \in 1..Len(G) /\ h[p] = g[p] /\ l[p] = k[p]
      BY <1>1, <1>2, <1>3
    <3> QED
      BY <3>2, <3>3
  <2> QED
    BY <2>1, <2>2
<1>8. Places(seqs, n + 1, G, h, l)
  BY <1>4, <1>5, <1>6, <1>7 DEF Places
<1> QED
  BY <1>8 DEF G

\* FlattenSeq puts all the sequences end to end.
LEMMA Flattened ==
    ASSUME NEW X, NEW seqs \in Seq(Seq(X))
    PROVE  /\ FlattenSeq(seqs) \in Seq(X)
           /\ \E g, k : Places(seqs, Len(seqs), FlattenSeq(seqs), g, k)
<1>1. CASE Len(seqs) = 0
  <2>1. seqs = <<>> /\ FlattenSeq(seqs) = <<>>
    BY <1>1, EmptySeq DEF FlattenSeq
  <2>2. Places(<<>>, 0, <<>>, [i \in 1..0 |-> 0], [i \in 1..0 |-> 0])
    BY DEF Places
  <2>3. Places(seqs, Len(seqs), FlattenSeq(seqs), [i \in 1..0 |-> 0], [i \in 1..0 |-> 0])
    BY <1>1, <2>1, <2>2
  <2>4. FlattenSeq(seqs) \in Seq(X)
    BY <2>1, EmptySeq
  <2> QED
    BY <2>3, <2>4
<1>2. CASE Len(seqs) # 0
  <2>1. PICK f \in [1..Len(seqs) -> Seq(X)] :
              /\ FlattenSeq(seqs) = f[Len(seqs)]
              /\ \A i \in 1..Len(seqs) :
                    f[i] = IF i = 1 THEN seqs[i] ELSE f[i - 1] \o seqs[i]
    BY <1>2, FlattenFunction
  <2> DEFINE N == Len(seqs)
             Good(n) == n + 1 <= N => \E g, k : Places(seqs, n + 1, f[n + 1], g, k)
             T == {n \in Nat : Good(n)}
  <2>2. N \in Nat /\ N # 0 /\ \A i \in 1..N : seqs[i] \in Seq(X)
    BY <1>2
  <2>3. Good(0)
    <3>1. f[1] = seqs[1] /\ Len(seqs[1]) \in Nat
      <4>1. 1 \in 1..N
        BY <2>2
      <4>2. f[1] = seqs[1]
        BY <2>1, <4>1
      <4>3. seqs[1] \in Seq(X)
        BY <2>2, <4>1
      <4> QED
        BY <4>2, <4>3, LenProperties
    <3> DEFINE g == [p \in 1..Len(seqs[1]) |-> 1]
               k == [p \in 1..Len(seqs[1]) |-> p]
    <3>2. Places(seqs, 1, seqs[1], g, k)
      BY <3>1, SMTT(30) DEF Places
    <3> QED
      BY <3>1, <3>2
  <2>4. ASSUME NEW n \in Nat, Good(n) PROVE Good(n + 1)
    <3>1. SUFFICES ASSUME n + 2 <= N
                   PROVE  \E g, k : Places(seqs, n + 2, f[n + 2], g, k)
      OBVIOUS
    <3>2. ASSUME NEW m \in Nat, m = n + 1
          PROVE  \E g, k : Places(seqs, m + 1, f[m + 1], g, k)
      <4>1. /\ m \in 1..N /\ m + 1 \in 1..N /\ f[m] \in Seq(X) /\ seqs[m + 1] \in Seq(X)
        <5>1. m \in 1..N /\ m + 1 \in 1..N
          BY <2>2, <3>1, <3>2
        <5> HIDE DEF N
        <5>2. f \in [1..N -> Seq(X)]
          BY <2>1 DEF N
        <5> QED
          BY <2>2, <5>1, <5>2
      <4>2. f[m + 1] = f[m] \o seqs[m + 1]
        <5>1. ASSUME NEW i \in 1..N, i = m + 1 PROVE f[i] = f[m] \o seqs[i]
          <6>1. i # 1 /\ i - 1 = m
            BY <3>2, <5>1
          <6>2. f[i] = f[i - 1] \o seqs[i]
            BY <2>1, <6>1
          <6> QED
            BY <6>1, <6>2
        <5> QED
          BY <4>1, <5>1, Zenon
      <4>3. PICK g, k : Places(seqs, m, f[m], g, k)
        BY <2>4, <3>1, <3>2, <2>2
      <4> QED
        BY <4>1, <4>2, <4>3, PlacesStep
    <3> QED
      BY <3>2
  <2>5. \A n \in Nat : n \in T
    <3> HIDE DEF Good
    <3>1. 0 \in T /\ \A n \in Nat : n \in T => n + 1 \in T
      BY <2>3, <2>4
    <3> HIDE DEF T
    <3> QED
      BY <3>1, NatInductive
  <2>6. Good(N - 1)
    <3>1. N - 1 \in Nat
      BY <2>2
    <3> QED
      BY <2>5, <3>1
  <2>7. \E g, k : Places(seqs, N, f[N], g, k)
    <3>1. N - 1 + 1 = N /\ N <= N
      BY <2>2
    <3> HIDE DEF N
    <3> QED
      BY <2>6, <3>1
  <2>8. f[N] \in Seq(X)
    <3>1. N \in 1..N
      BY <2>2
    <3> QED
      BY <2>1, <3>1
  <2>9. FlattenSeq(seqs) = f[N]
    BY <2>1
  <2> QED
    BY <2>7, <2>8, <2>9
<1> QED
  BY <1>1, <1>2

\* F is the first n of the sequences put end to end, the i-th of them after off[i]
\* elements.
LinedUp(seqs, n, F, off) ==
    /\ off \in [1..n + 1 -> Nat] /\ off[1] = 0 /\ off[n + 1] = Len(F)
    /\ \A i, j \in 1..n + 1 : i <= j => off[i] <= off[j]
    /\ \A i \in 1..n : off[i + 1] = off[i] + Len(seqs[i])
    /\ \A i \in 1..n : \A m \in 1..Len(seqs[i]) : F[off[i] + m] = seqs[i][m]
    /\ \A p \in 1..Len(F) : \E i \in 1..n : off[i] < p /\ p <= off[i + 1]

\* One more sequence.
LEMMA LinedUpStep ==
    ASSUME NEW X, NEW seqs, NEW n \in Nat, NEW F \in Seq(X), seqs[n + 1] \in Seq(X),
           NEW off, LinedUp(seqs, n, F, off)
    PROVE  \E o : LinedUp(seqs, n + 1, F \o seqs[n + 1], o)
<1> DEFINE s == seqs[n + 1]
           G == F \o s
           o == [i \in 1..n + 2 |-> IF i <= n + 1 THEN off[i] ELSE Len(F) + Len(s)]
<1>1. /\ Len(F) \in Nat /\ Len(s) \in Nat /\ Len(G) = Len(F) + Len(s)
      /\ \A p \in 1..Len(G) : G[p] = IF p <= Len(F) THEN F[p] ELSE s[p - Len(F)]
  BY ConcatProperties, LenProperties
<1>2. /\ \A i \in 1..n + 1 : off[i] \in Nat /\ off[i] <= Len(F)
      /\ off[1] = 0 /\ off[n + 1] = Len(F)
  BY DEF LinedUp
<1>3. /\ \A i \in 1..n + 1 : o[i] = off[i]
      /\ o[n + 2] = Len(G) /\ o \in [1..n + 2 -> Nat]
  BY <1>1, <1>2
<1> HIDE DEF G, o
<1>4. ASSUME NEW i \in 1..n + 2, NEW j \in 1..n + 2, i <= j PROVE o[i] <= o[j]
  <2>1. CASE j \in 1..n + 1
    <3>1. i \in 1..n + 1
      BY <1>4, <2>1
    <3> QED
      BY <1>3, <1>4, <2>1, <3>1 DEF LinedUp
  <2>2. CASE j = n + 2 /\ i \in 1..n + 1
    <3>1. o[i] = off[i] /\ off[i] \in Nat /\ off[i] <= Len(F) /\ o[j] = Len(G)
      BY <1>2, <1>3, <2>2
    <3> QED
      BY <1>1, <3>1
  <2>3. CASE j = n + 2 /\ i = n + 2
    BY <1>1, <1>3, <2>3
  <2> QED
    BY <2>1, <2>2, <2>3
<1>5. ASSUME NEW i \in 1..n + 1 PROVE o[i + 1] = o[i] + Len(seqs[i])
  <2>1. CASE i \in 1..n
    <3>1. i + 1 \in 1..n + 1
      BY <2>1
    <3> QED
      BY <1>3, <2>1, <3>1 DEF LinedUp
  <2>2. CASE i = n + 1
    <3>1. i + 1 = n + 2
      BY <2>2
    <3> QED
      BY <1>1, <1>2, <1>3, <2>2, <3>1
  <2> QED
    BY <2>1, <2>2
<1>6. ASSUME NEW i \in 1..n + 1, NEW m \in 1..Len(seqs[i]) PROVE G[o[i] + m] = seqs[i][m]
  <2>1. CASE i \in 1..n
    <3>1. /\ off[i + 1] = off[i] + Len(seqs[i]) /\ F[off[i] + m] = seqs[i][m]
      BY <2>1 DEF LinedUp
    <3>2. off[i] \in Nat /\ off[i + 1] \in Nat /\ off[i + 1] <= Len(F)
      BY <1>2, <2>1
    <3>3. Len(seqs[i]) = off[i + 1] - off[i]
      BY <2>1, <3>1, <3>2 DEF LinedUp
    <3>4. off[i] + m \in 1..Len(G) /\ off[i] + m <= Len(F)
      BY <1>1, <3>2, <3>3
    <3>5. \A p \in 1..Len(G) : p <= Len(F) => G[p] = F[p]
      BY <1>1
    <3>6. G[off[i] + m] = F[off[i] + m]
      BY <3>4, <3>5, Zenon
    <3>7. o[i] = off[i]
      BY <1>3
    <3> QED
      BY <3>1, <3>6, <3>7, Zenon
  <2>2. CASE i = n + 1
    <3>1. o[i] = Len(F) /\ m \in 1..Len(s)
      BY <1>2, <1>3, <2>2
    <3>2. Len(F) + m \in 1..Len(G) /\ ~(Len(F) + m <= Len(F)) /\ Len(F) + m - Len(F) = m
      BY <1>1, <3>1
    <3>3. G[Len(F) + m] = s[m]
      BY <1>1, <3>2
    <3> QED
      BY <2>2, <3>1, <3>3
  <2> QED
    BY <2>1, <2>2
<1>7. ASSUME NEW p \in 1..Len(G) PROVE \E i \in 1..n + 1 : o[i] < p /\ p <= o[i + 1]
  <2>1. CASE p <= Len(F)
    <3>1. p \in 1..Len(F)
      BY <1>1, <2>1
    <3>2. PICK i \in 1..n : off[i] < p /\ p <= off[i + 1]
      BY <3>1 DEF LinedUp
    <3>3. i \in 1..n + 1 /\ i + 1 \in 1..n + 1
      OBVIOUS
    <3> QED
      BY <1>3, <3>2, <3>3
  <2>2. CASE ~(p <= Len(F))
    <3>1. n + 1 \in 1..n + 1 /\ o[n + 1] = Len(F) /\ n + 1 + 1 = n + 2
      BY <1>2, <1>3
    <3> QED
      BY <1>1, <1>3, <2>2, <3>1
  <2> QED
    BY <2>1, <2>2
<1>8. n + 1 + 1 = n + 2 /\ 1 \in 1..n + 1 /\ n + 1 \in Nat
  OBVIOUS
<1>9. o[1] = 0
  BY <1>2, <1>3, <1>8
<1>10. LinedUp(seqs, n + 1, G, o)
  BY <1>3, <1>4, <1>5, <1>6, <1>7, <1>8, <1>9 DEF LinedUp
<1> QED
  BY <1>10 DEF G

\* Flattening lines them up.
LEMMA FlattenLinesUp ==
    ASSUME NEW X, NEW seqs \in Seq(Seq(X)), Len(seqs) # 0
    PROVE  /\ FlattenSeq(seqs) \in Seq(X)
           /\ \E off : LinedUp(seqs, Len(seqs), FlattenSeq(seqs), off)
<1>1. PICK f \in [1..Len(seqs) -> Seq(X)] :
            /\ FlattenSeq(seqs) = f[Len(seqs)]
            /\ \A i \in 1..Len(seqs) :
                  f[i] = IF i = 1 THEN seqs[i] ELSE f[i - 1] \o seqs[i]
  BY FlattenFunction
<1> DEFINE N == Len(seqs)
           Good(n) == n + 1 <= N => \E off : LinedUp(seqs, n + 1, f[n + 1], off)
           T == {n \in Nat : Good(n)}
<1>2. N \in Nat /\ N # 0 /\ \A i \in 1..N : seqs[i] \in Seq(X)
  OBVIOUS
<1>3. Good(0)
  <2>1. 1 \in 1..N
    BY <1>2
  <2>2. f[1] = seqs[1] /\ seqs[1] \in Seq(X) /\ Len(seqs[1]) \in Nat
    BY <1>1, <1>2, <2>1, LenProperties
  <2> DEFINE none == [i \in 1..1 |-> 0]
  <2>3. none[1] = 0 /\ none \in [1..1 -> Nat]
    OBVIOUS
  <2>4. LinedUp(seqs, 0, <<>>, none)
    <3>1. Len(<<>>) = 0
      OBVIOUS
    <3> HIDE DEF none
    <3> QED
      BY <2>3, <3>1 DEF LinedUp
  <2>5. \E off : LinedUp(seqs, 0 + 1, <<>> \o seqs[0 + 1], off)
    <3>1. <<>> \in Seq(X) /\ seqs[0 + 1] \in Seq(X)
      BY <2>2
    <3> HIDE DEF none
    <3> QED
      BY <2>4, <3>1, LinedUpStep
  <2>6. <<>> \o seqs[1] = seqs[1]
    BY <2>2, ConcatEmptySeq
  <2> QED
    BY <2>2, <2>5, <2>6
<1>4. ASSUME NEW n \in Nat, Good(n) PROVE Good(n + 1)
  <2>1. SUFFICES ASSUME n + 2 <= N
                 PROVE  \E off : LinedUp(seqs, n + 2, f[n + 2], off)
    OBVIOUS
  <2>2. ASSUME NEW m \in Nat, m = n + 1
        PROVE  \E off : LinedUp(seqs, m + 1, f[m + 1], off)
    <3>1. m \in 1..N /\ m + 1 \in 1..N
      BY <1>2, <2>1, <2>2
    <3>2. f[m] \in Seq(X) /\ seqs[m + 1] \in Seq(X)
      <4> HIDE DEF N
      <4>1. f \in [1..N -> Seq(X)]
        BY <1>1 DEF N
      <4> QED
        BY <1>2, <3>1, <4>1
    <3>3. f[m + 1] = f[m] \o seqs[m + 1]
      <4>1. ASSUME NEW i \in 1..N, i = m + 1 PROVE f[i] = f[m] \o seqs[i]
        <5>1. i # 1 /\ i - 1 = m
          BY <2>2, <4>1
        <5>2. f[i] = f[i - 1] \o seqs[i]
          BY <1>1, <5>1
        <5> QED
          BY <5>1, <5>2
      <4> QED
        BY <3>1, <4>1, Zenon
    <3>4. PICK off : LinedUp(seqs, m, f[m], off)
      BY <1>2, <1>4, <2>1, <2>2
    <3> QED
      BY <3>2, <3>3, <3>4, LinedUpStep
  <2> QED
    BY <2>2
<1>5. \A n \in Nat : n \in T
  <2> HIDE DEF Good
  <2>1. 0 \in T /\ \A n \in Nat : n \in T => n + 1 \in T
    BY <1>3, <1>4
  <2> HIDE DEF T
  <2> QED
    BY <2>1, NatInductive
<1>6. Good(N - 1)
  <2>1. N - 1 \in Nat
    BY <1>2
  <2> QED
    BY <1>5, <2>1
<1>7. \E off : LinedUp(seqs, N, f[N], off)
  <2>1. N - 1 + 1 = N /\ N <= N
    BY <1>2
  <2> HIDE DEF N
  <2> QED
    BY <1>6, <2>1
<1>8. f[N] \in Seq(X)
  <2>1. N \in 1..N
    BY <1>2
  <2> QED
    BY <1>1, <2>1
<1> QED
  BY <1>1, <1>7, <1>8

=============================================================================
