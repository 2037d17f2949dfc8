---------------------------- MODULE SegmentLemmas ----------------------------
(***************************************************************************)
(* What the operators of SegmentReads compute, for inputs of every size.    *)
(***************************************************************************)
EXTENDS SegmentReads, ListLemmas

-----------------------------------------------------------------------------
(* The samples of a series.                                                *)

Sample == [timestamp : Int, value : Nat]
Tables == [Keys -> Nat]

\* F has the samples of s in the table at the given times, in the order of time.
IsSamples(F, table, s, times) ==
    /\ F \in Seq(Sample)
    /\ \A i, j \in 1..Len(F) : i < j => F[i].timestamp < F[j].timestamp
    /\ \A i \in 1..Len(F) :
          /\ F[i].timestamp \in times
          /\ F[i].value = table[<<s, F[i].timestamp>>] /\ F[i].value # None
    /\ \A t \in times : table[<<s, t>>] # None => \E i \in 1..Len(F) : F[i].timestamp = t

\* So does SamplesAt.
LEMMA SamplesAtIs ==
    ASSUME NEW table \in Tables, NEW s \in Series, NEW times \in SUBSET Times
    PROVE  IsSamples(SamplesAt(table, s, times), table, s, times)
<1> DEFINE S == {t \in times : table[<<s, t>>] # None}
           n == Cardinality(S)
           f == Ordered(S)
           F == [i \in 1..n |-> [timestamp |-> f[i], value |-> table[<<s, f[i]>>]]]
<1>1. S \in SUBSET Int /\ IsFiniteSet(S)
  BY ReadBounds, FS_Subset
<1>2. \A t \in S : t \in times /\ t \in Int /\ table[<<s, t>>] \in Nat /\ table[<<s, t>>] # None
  BY <1>1 DEF Tables, Keys
<1>3. \A t \in times : table[<<s, t>>] # None => t \in S
  OBVIOUS
<1> HIDE DEF S
<1>4. /\ n \in Nat /\ Ascends(f, n) /\ f \in [1..n -> S]
      /\ \A x \in S : \E i \in 1..n : f[i] = x
  BY <1>1, OrderedLists
<1>5. SamplesAt(table, s, times) = F
  <2>1. DOMAIN f = 1..n
    BY <1>4
  <2> QED
    BY <2>1 DEF SamplesAt, S
<1> HIDE DEF n, f
<1>6. F \in [1..n -> Sample]
  BY <1>2, <1>4 DEF Sample
<1>7. F \in Seq(Sample) /\ Len(F) = n
  <2> HIDE DEF F
  <2> QED
    BY <1>4, <1>6
<1>8. \A i \in 1..n : F[i].timestamp = f[i] /\ F[i].value = table[<<s, f[i]>>] /\ f[i] \in S
  BY <1>4
<1> HIDE DEF F
<1>9. \A i, j \in 1..n : i < j => F[i].timestamp < F[j].timestamp
  BY <1>4, <1>8 DEF Ascends
<1>10. \A i \in 1..n : /\ F[i].timestamp \in times
                       /\ F[i].value = table[<<s, F[i].timestamp>>] /\ F[i].value # None
  BY <1>2, <1>8
<1>11. \A t \in times : table[<<s, t>>] # None => \E i \in 1..n : F[i].timestamp = t
  BY <1>3, <1>4, <1>8
<1> QED
  BY <1>5, <1>7, <1>9, <1>10, <1>11 DEF IsSamples

\* And nothing else does.
LEMMA SamplesAtOnly ==
    ASSUME NEW table \in Tables, NEW s \in Series, NEW times \in SUBSET Times,
           NEW F, IsSamples(F, table, s, times)
    PROVE  F = SamplesAt(table, s, times)
<1> DEFINE S == {t \in times : table[<<s, t>>] # None}
           n == Len(F)
           f == [i \in 1..n |-> F[i].timestamp]
<1>1. n \in Nat /\ F \in [1..n -> Sample]
  BY DEF IsSamples
<1>2. \A i \in 1..n : F[i].timestamp \in Int
                      /\ F[i] = [timestamp |-> F[i].timestamp, value |-> F[i].value]
  BY <1>1 DEF Sample
<1>3. Ascends(f, n)
  BY <1>1, <1>2 DEF Ascends, IsSamples
<1>4. Listed(f, n) = S
  <2>1. \A t : t \in Listed(f, n) <=> \E i \in 1..n : F[i].timestamp = t
    BY DEF Listed
  <2>2. \A t : t \in S <=> \E i \in 1..n : F[i].timestamp = t
    BY DEF IsSamples
  <2> HIDE DEF S, f, n
  <2> QED
    BY <2>1, <2>2
<1>5. Ordered(S) = f
  <2> HIDE DEF f, n, S
  <2> QED
    BY <1>1, <1>3, <1>4, OrderedIs
<1>6. SamplesAt(table, s, times)
        = [i \in 1..n |-> [timestamp |-> F[i].timestamp, value |-> table[<<s, F[i].timestamp>>]]]
  BY <1>5 DEF SamplesAt
<1>7. \A i \in 1..n : F[i].value = table[<<s, F[i].timestamp>>]
  BY DEF IsSamples
<1>8. F = [i \in 1..n |-> F[i]]
  BY <1>1
<1> HIDE DEF n
<1> QED
  BY <1>2, <1>6, <1>7, <1>8

-----------------------------------------------------------------------------
(* Cutting the samples of a series into blocks.                            *)

LEMMA Division ==
    ASSUME NEW a \in Nat, NEW M \in Nat \ {0}
    PROVE  a \div M \in Nat /\ (a \div M) * M <= a /\ a < (a \div M) * M + M
OBVIOUS

LEMMA Multiples ==
    ASSUME NEW a \in Nat, NEW b \in Nat, NEW M \in Nat
    PROVE  /\ a * M \in Nat /\ (a + 1) * M = a * M + M
           /\ a <= b => a * M <= b * M
OBVIOUS

\* The blocks of n samples: none is empty, and every sample is in one.
LEMMA CutBounds ==
    ASSUME NEW n \in Nat, NEW M \in Nat \ {0}, NEW c, c = (n + M - 1) \div M
    PROVE  /\ c \in Nat
           /\ \A i \in 1..c : /\ (i - 1) * M \in Nat /\ i * M = (i - 1) * M + M
                              /\ (i - 1) * M < n
           /\ \A i, j \in 1..c : i < j => i * M <= (j - 1) * M
           /\ \A p \in 1..n : \E i \in 1..c : (i - 1) * M < p /\ p <= i * M
<1>1. /\ n + M - 1 \in Nat /\ c \in Nat /\ c * M \in Nat
      /\ c * M <= n + M - 1 /\ n + M - 1 < c * M + M
  BY Division, Multiples
<1>2. ASSUME NEW i \in 1..c
      PROVE  (i - 1) * M \in Nat /\ i * M = (i - 1) * M + M /\ (i - 1) * M < n
  <2>1. i - 1 \in Nat /\ i \in Nat /\ i - 1 + 1 = i /\ i <= c
    BY <1>1
  <2>2. (i - 1) * M \in Nat /\ i * M = (i - 1) * M + M
    BY <2>1, Multiples
  <2>3. i * M <= c * M
    BY <1>1, <2>1, Multiples
  <2> QED
    BY <1>1, <2>2, <2>3
<1>3. ASSUME NEW i \in 1..c, NEW j \in 1..c, i < j PROVE i * M <= (j - 1) * M
  <2>1. i \in Nat /\ j - 1 \in Nat /\ i <= j - 1
    BY <1>1, <1>3
  <2> QED
    BY <2>1, Multiples
<1>4. ASSUME NEW p \in 1..n PROVE \E i \in 1..c : (i - 1) * M < p /\ p <= i * M
  <2> DEFINE q == (p - 1) \div M
  <2>1. p - 1 \in Nat
    OBVIOUS
  <2>2. q \in Nat /\ q * M <= p - 1 /\ p - 1 < q * M + M
    BY <2>1, Division
  <2> HIDE DEF q
  <2>3. q * M \in Nat /\ (q + 1) * M = q * M + M /\ (c <= q => c * M <= q * M)
    BY <1>1, <2>2, Multiples
  <2>4. q < c
    BY <1>1, <2>2, <2>3
  <2>5. q + 1 \in 1..c /\ q + 1 - 1 = q
    BY <1>1, <2>2, <2>4
  <2>6. ASSUME NEW i \in 1..c, i = q + 1 PROVE (i - 1) * M < p /\ p <= i * M
    <3>1. i - 1 = q
      BY <2>2, <2>6
    <3> QED
      BY <2>2, <2>3, <2>6, <3>1
  <2> QED
    BY <2>5, <2>6
<1> QED
  BY <1>1, <1>2, <1>3, <1>4

Block == [series : Series, samples : Seq(Sample)]

\* B has exactly the samples that the table holds for the series in R, in blocks of
\* 1 to MaxSamples, by series and then by time.
BlocksOf(B, table, R) ==
    /\ B \in Seq(Block)
    /\ \A i \in 1..Len(B) : B[i].series \in R /\ Len(B[i].samples) \in 1..MaxSamples
    /\ \A i \in 1..Len(B) : \A m \in 1..Len(B[i].samples) :
          LET x == B[i].samples[m]
          IN  /\ x.timestamp \in Times
              /\ x.value = table[<<B[i].series, x.timestamp>>] /\ x.value # None
    /\ \A i \in 1..Len(B) : \A m, l \in 1..Len(B[i].samples) :
          m < l => B[i].samples[m].timestamp < B[i].samples[l].timestamp
    /\ \A i, j \in 1..Len(B) : i < j =>
          \/ B[i].series < B[j].series
          \/ B[i].series = B[j].series /\ last_timestamp(B[i]) < first_timestamp(B[j])
    /\ \A s \in R, t \in Times : table[<<s, t>>] # None =>
          \E i \in 1..Len(B) : /\ B[i].series = s
                               /\ \E m \in 1..Len(B[i].samples) : B[i].samples[m].timestamp = t

\* The blocks of one series.
LEMMA CutIs ==
    ASSUME NEW table \in Tables, NEW s \in Series
    PROVE  BlocksOf(Cut(s, Samples(table, s)), table, {s})
<1> DEFINE F == Samples(table, s)
           n == Len(F)
           c == (n + MaxSamples - 1) \div MaxSamples
           upto(i) == IF i * MaxSamples < n THEN i * MaxSamples ELSE n
           C == [i \in 1..c |->
                    [series |-> s,
                     samples |-> SubSeq(F, (i - 1) * MaxSamples + 1, upto(i))]]
<1>0. MaxSamples \in Nat \ {0}
  BY ReadBounds
<1>1. IsSamples(F, table, s, Times)
  BY SamplesAtIs DEF Samples
<1> HIDE DEF F
<1>2. n \in Nat /\ \A p \in 1..n : F[p] \in Sample
  BY <1>1 DEF IsSamples
<1>3. Cut(s, F) = C
  BY DEF Cut
<1> HIDE DEF n
<1>4. /\ c \in Nat
      /\ \A i \in 1..c : /\ (i - 1) * MaxSamples \in Nat
                         /\ i * MaxSamples = (i - 1) * MaxSamples + MaxSamples
                         /\ (i - 1) * MaxSamples < n
      /\ \A i, j \in 1..c : i < j => i * MaxSamples <= (j - 1) * MaxSamples
      /\ \A p \in 1..n : \E i \in 1..c : (i - 1) * MaxSamples < p /\ p <= i * MaxSamples
  BY <1>0, <1>2, CutBounds
<1> HIDE DEF c
<1>5. ASSUME NEW i \in 1..c
      PROVE  /\ (i - 1) * MaxSamples \in Nat /\ upto(i) \in 1..n
             /\ C[i].series = s /\ C[i].samples \in Seq(Sample)
             /\ Len(C[i].samples) = upto(i) - (i - 1) * MaxSamples
             /\ Len(C[i].samples) \in 1..MaxSamples
             /\ \A m \in 1..Len(C[i].samples) :
                   /\ C[i].samples[m] = F[(i - 1) * MaxSamples + m]
                   /\ (i - 1) * MaxSamples + m \in 1..n
  <2> DEFINE a == (i - 1) * MaxSamples
             b == upto(i)
             S == SubSeq(F, a + 1, b)
  <2>1. C[i].series = s /\ C[i].samples = S
    OBVIOUS
  <2>2. /\ a \in Nat /\ b \in 1..n /\ a + 1 <= b /\ b - a \in 1..MaxSamples
        /\ a + 1 \in Int /\ b \in Int
    BY <1>0, <1>2, <1>4
  <2> HIDE DEF a, b, C
  <2>3. \A p \in a + 1..b : F[p] \in Sample
    BY <1>2, <2>2
  <2>4. /\ S \in Seq(Sample) /\ Len(S) = b - (a + 1) + 1
        /\ \A m \in 1..b - (a + 1) + 1 : S[m] = F[a + 1 + m - 1]
    <3>1. /\ S \in Seq(Sample)
          /\ Len(S) = IF a + 1 <= b THEN b - (a + 1) + 1 ELSE 0
          /\ \A m \in 1..b - (a + 1) + 1 : S[m] = F[a + 1 + m - 1]
      BY <2>2, <2>3, SubSeqProperties
    <3> QED
      BY <2>2, <3>1
  <2> HIDE DEF S
  <2>5. Len(S) = b - a
    BY <2>2, <2>4
  <2>6. ASSUME NEW m \in 1..Len(S) PROVE S[m] = F[a + m] /\ a + m \in 1..n
    <3>1. m \in 1..b - (a + 1) + 1 /\ a + 1 + m - 1 = a + m
      BY <2>2, <2>5
    <3>2. S[m] = F[a + 1 + m - 1]
      BY <2>4, <3>1
    <3> QED
      BY <1>2, <2>2, <2>5, <3>1, <3>2
  <2> QED
    BY <2>1, <2>2, <2>4, <2>5, <2>6 DEF a, b
<1>6. C \in Seq(Block) /\ Len(C) = c
  <2>0. \A x \in Seq(Sample) : [series |-> s, samples |-> x] \in Block
    BY DEF Block
  <2>1. \A i \in 1..c : C[i] = [series |-> s, samples |-> C[i].samples]
    OBVIOUS
  <2>2. C = [i \in 1..c |-> C[i]]
    OBVIOUS
  <2> HIDE DEF C
  <2>3. ASSUME NEW i \in 1..c PROVE C[i] \in Block
    <3>1. C[i].samples \in Seq(Sample)
      BY <1>5
    <3> QED
      BY <2>0, <2>1, <3>1, Zenon
  <2>4. C \in [1..c -> Block]
    BY <2>2, <2>3
  <2> QED
    BY <1>4, <2>4
<1> HIDE DEF C, upto
<1>7. /\ \A i, j \in 1..n : i < j => F[i].timestamp < F[j].timestamp
      /\ \A i \in 1..n : /\ F[i].timestamp \in Times
                         /\ F[i].value = table[<<s, F[i].timestamp>>] /\ F[i].value # None
      /\ \A t \in Times : table[<<s, t>>] # None => \E i \in 1..n : F[i].timestamp = t
  BY <1>1 DEF IsSamples, n
<1>8. ASSUME NEW i \in 1..c, NEW m \in 1..Len(C[i].samples)
      PROVE  LET x == C[i].samples[m]
             IN  /\ x.timestamp \in Times
                 /\ x.value = table[<<C[i].series, x.timestamp>>] /\ x.value # None
  <2>1. PICK p \in 1..n : C[i].samples[m] = F[p]
    BY <1>5
  <2>2. C[i].series = s
    BY <1>5
  <2> QED
    BY <1>7, <2>1, <2>2
<1>9. ASSUME NEW i \in 1..c, NEW m \in 1..Len(C[i].samples), NEW l \in 1..Len(C[i].samples), m < l
      PROVE  C[i].samples[m].timestamp < C[i].samples[l].timestamp
  <2> DEFINE a == (i - 1) * MaxSamples
  <2>1. /\ a \in Nat /\ a + m \in 1..n /\ a + l \in 1..n
        /\ C[i].samples[m] = F[a + m] /\ C[i].samples[l] = F[a + l]
    BY <1>5
  <2> HIDE DEF a
  <2>2. m \in Int /\ l \in Int
    BY <1>5
  <2>3. a + m < a + l
    BY <1>9, <2>1, <2>2
  <2> QED
    BY <1>7, <2>1, <2>3
<1>10. ASSUME NEW i \in 1..c, NEW j \in 1..c, i < j
       PROVE  last_timestamp(C[i]) < first_timestamp(C[j])
  <2> DEFINE a == (i - 1) * MaxSamples
             b == (j - 1) * MaxSamples
             m == Len(C[i].samples)
  <2>1. /\ a \in Nat /\ b \in Nat /\ a + MaxSamples <= b
    BY <1>4, <1>10
  <2>2. m \in 1..MaxSamples /\ C[i].samples[m] = F[a + m] /\ a + m \in 1..n
    <3>1. m \in 1..MaxSamples
      BY <1>5
    <3>2. m \in 1..m
      BY <1>0, <3>1
    <3> QED
      BY <1>5, <3>1, <3>2
  <2>3. C[j].samples[1] = F[b + 1] /\ b + 1 \in 1..n
    <3>1. 1 \in 1..Len(C[j].samples)
      BY <1>0, <1>5
    <3> QED
      BY <1>5, <3>1
  <2>4. last_timestamp(C[i]) = F[a + m].timestamp /\ first_timestamp(C[j]) = F[b + 1].timestamp
    BY <2>2, <2>3 DEF last_timestamp, first_timestamp
  <2> HIDE DEF a, b, m
  <2>5. a + m < b + 1
    BY <1>0, <2>1, <2>2
  <2> QED
    BY <1>7, <2>2, <2>3, <2>4, <2>5
<1>11. ASSUME NEW t \in Times, table[<<s, t>>] # None
       PROVE  \E i \in 1..c : \E m \in 1..Len(C[i].samples) : C[i].samples[m].timestamp = t
  <2>1. PICK p \in 1..n : F[p].timestamp = t
    BY <1>7, <1>11
  <2>2. PICK i \in 1..c : (i - 1) * MaxSamples < p /\ p <= i * MaxSamples
    BY <1>4
  <2> DEFINE a == (i - 1) * MaxSamples
             m == p - a
  <2>3. a \in Nat /\ i * MaxSamples = a + MaxSamples /\ i * MaxSamples \in Nat
    BY <1>0, <1>4
  <2>4. Len(C[i].samples) = upto(i) - a
    BY <1>5
  <2>5. p <= upto(i)
    BY <1>2, <2>2, <2>3 DEF upto
  <2> HIDE DEF a
  <2>6. upto(i) \in 1..n /\ a < p
    BY <1>5, <2>2 DEF a
  <2>7. m \in 1..Len(C[i].samples) /\ a + m = p
    BY <1>2, <2>3, <2>4, <2>5, <2>6
  <2> HIDE DEF m
  <2>8. C[i].samples[m] = F[a + m]
    BY <1>5, <2>7 DEF a
  <2> QED
    BY <2>1, <2>7, <2>8
<1>12. BlocksOf(C, table, {s})
  <2>1. \A i \in 1..Len(C) : C[i].series \in {s} /\ Len(C[i].samples) \in 1..MaxSamples
    BY <1>5, <1>6
  <2>2. \A i, j \in 1..Len(C) : i < j =>
          \/ C[i].series < C[j].series
          \/ C[i].series = C[j].series /\ last_timestamp(C[i]) < first_timestamp(C[j])
    BY <1>5, <1>6, <1>10
  <2>3. \A r \in {s}, t \in Times : table[<<r, t>>] # None =>
          \E i \in 1..Len(C) : /\ C[i].series = r
                               /\ \E m \in 1..Len(C[i].samples) : C[i].samples[m].timestamp = t
    <3>1. TAKE r \in {s}, t \in Times
    <3>2. HAVE table[<<r, t>>] # None
    <3>3. PICK i \in 1..c : \E m \in 1..Len(C[i].samples) : C[i].samples[m].timestamp = t
      BY <1>11, <3>2
    <3>4. C[i].series = r /\ i \in 1..Len(C)
      BY <1>5, <1>6
    <3> QED
      BY <3>3, <3>4
  <2> QED
    BY <1>6, <1>8, <1>9, <2>1, <2>2, <2>3 DEF BlocksOf
<1> QED
  BY <1>3, <1>12 DEF F

\* All the blocks of a table.
LEMMA BlocksAre ==
    ASSUME NEW table \in Tables
    PROVE  BlocksOf(blocks_from_snapshots(table), table, Series)
<1> DEFINE order == Ordered(Series)
           c == Cardinality(Series)
           seqs == [i \in 1..c |-> Cut(order[i], Samples(table, order[i]))]
           B == FlattenSeq(seqs)
<1>1. Series \in SUBSET Int /\ IsFiniteSet(Series)
  BY ReadBounds
<1>2. /\ c \in Nat /\ Ascends(order, c) /\ order \in [1..c -> Series]
      /\ \A x \in Series : \E i \in 1..c : order[i] = x
  BY <1>1, OrderedLists
<1>3. blocks_from_snapshots(table) = B
  <2>1. DOMAIN order = 1..c
    BY <1>2
  <2> QED
    BY <2>1 DEF blocks_from_snapshots
<1> HIDE DEF order, c
<1>4. \A i \in 1..c : BlocksOf(seqs[i], table, {order[i]})
  BY <1>2, CutIs
<1>5. seqs = [i \in 1..c |-> seqs[i]]
  OBVIOUS
<1> HIDE DEF seqs
<1>6. seqs \in Seq(Seq(Block)) /\ Len(seqs) = c
  <2>1. \A i \in 1..c : seqs[i] \in Seq(Block)
    BY <1>4 DEF BlocksOf
  <2>2. seqs \in [1..c -> Seq(Block)]
    BY <1>5, <2>1
  <2> QED
    BY <1>2, <2>2
<1>7. B \in Seq(Block) /\ \E g, k : Places(seqs, c, B, g, k)
  BY <1>6, Flattened
<1>8. PICK g, k : Places(seqs, c, B, g, k)
  BY <1>7
<1> HIDE DEF B
<1>9. ASSUME NEW p \in 1..Len(B)
      PROVE  /\ g[p] \in 1..c /\ k[p] \in 1..Len(seqs[g[p]]) /\ B[p] = seqs[g[p]][k[p]]
             /\ B[p].series = order[g[p]] /\ Len(B[p].samples) \in 1..MaxSamples
  <2>1. g[p] \in 1..c /\ k[p] \in 1..Len(seqs[g[p]]) /\ B[p] = seqs[g[p]][k[p]]
    BY <1>8 DEF Places
  <2>2. BlocksOf(seqs[g[p]], table, {order[g[p]]})
    BY <1>4, <2>1
  <2> QED
    BY <2>1, <2>2, SMTT(30) DEF BlocksOf
<1>10. ASSUME NEW p \in 1..Len(B), NEW m \in 1..Len(B[p].samples)
       PROVE  LET x == B[p].samples[m]
              IN  /\ x.timestamp \in Times
                  /\ x.value = table[<<B[p].series, x.timestamp>>] /\ x.value # None
  <2>1. BlocksOf(seqs[g[p]], table, {order[g[p]]})
    BY <1>4, <1>9
  <2> DEFINE C == seqs[g[p]]
             j == k[p]
  <2>2. j \in 1..Len(C) /\ B[p] = C[j]
    BY <1>9
  <2>3. \A i \in 1..Len(C) : \A l \in 1..Len(C[i].samples) :
          LET x == C[i].samples[l]
          IN  /\ x.timestamp \in Times
              /\ x.value = table[<<C[i].series, x.timestamp>>] /\ x.value # None
    BY <2>1 DEF BlocksOf
  <2> HIDE DEF C, j
  <2> QED
    BY <2>2, <2>3
<1>11. ASSUME NEW p \in 1..Len(B), NEW m \in 1..Len(B[p].samples), NEW l \in 1..Len(B[p].samples),
              m < l
       PROVE  B[p].samples[m].timestamp < B[p].samples[l].timestamp
  <2>1. BlocksOf(seqs[g[p]], table, {order[g[p]]})
    BY <1>4, <1>9
  <2> QED
    BY <1>9, <1>11, <2>1 DEF BlocksOf
<1>12. ASSUME NEW p \in 1..Len(B), NEW q \in 1..Len(B), p < q
       PROVE  \/ B[p].series < B[q].series
              \/ B[p].series = B[q].series /\ last_timestamp(B[p]) < first_timestamp(B[q])
  <2>1. g[p] < g[q] \/ (g[p] = g[q] /\ k[p] < k[q])
    BY <1>8, <1>12 DEF Places
  <2>2. CASE g[p] < g[q]
    <3>1. order[g[p]] < order[g[q]]
      BY <1>2, <1>9, <2>2 DEF Ascends
    <3> QED
      BY <1>9, <3>1
  <2>3. CASE g[p] = g[q] /\ k[p] < k[q]
    <3>1. BlocksOf(seqs[g[p]], table, {order[g[p]]})
      BY <1>4, <1>9
    <3>2. /\ k[p] \in 1..Len(seqs[g[p]]) /\ k[q] \in 1..Len(seqs[g[p]])
          /\ B[p] = seqs[g[p]][k[p]] /\ B[q] = seqs[g[p]][k[q]]
      BY <1>9, <2>3
    <3> DEFINE C == seqs[g[p]]
    <3>3. \A i, j \in 1..Len(C) : i < j =>
          \/ C[i].series < C[j].series
          \/ C[i].series = C[j].series /\ last_timestamp(C[i]) < first_timestamp(C[j])
      BY <3>1 DEF BlocksOf
    <3> HIDE DEF C
    <3>4. /\ k[p] \in 1..Len(C) /\ k[q] \in 1..Len(C)
          /\ B[p] = C[k[p]] /\ B[q] = C[k[q]]
      BY <3>2 DEF C
    <3> QED
      BY <2>3, <3>3, <3>4
  <2> QED
    BY <2>1, <2>2, <2>3
<1>13. ASSUME NEW s \in Series, NEW t \in Times, table[<<s, t>>] # None
       PROVE  \E p \in 1..Len(B) : /\ B[p].series = s
                                   /\ \E m \in 1..Len(B[p].samples) : B[p].samples[m].timestamp = t
  <2>1. PICK i \in 1..c : order[i] = s
    BY <1>2
  <2>2. PICK j \in 1..Len(seqs[i]) :
              \E m \in 1..Len(seqs[i][j].samples) : seqs[i][j].samples[m].timestamp = t
    BY <1>4, <1>13, <2>1 DEF BlocksOf
  <2>3. PICK p \in 1..Len(B) : g[p] = i /\ k[p] = j
    BY <1>8 DEF Places
  <2>4. B[p] = seqs[i][j] /\ B[p].series = s
    BY <1>9, <2>1, <2>3
  <2> QED
    BY <2>2, <2>4
<1>14. BlocksOf(B, table, Series)
  <2>1. \A p \in 1..Len(B) : B[p].series \in Series /\ Len(B[p].samples) \in 1..MaxSamples
    BY <1>2, <1>9
  <2> QED
    BY <1>7, <1>10, <1>11, <1>12, <1>13, <2>1 DEF BlocksOf
<1> QED
  BY <1>3, <1>14

\* Bounds of the samples of a block, and of those of two blocks.
LEMMA BlockFacts ==
    ASSUME NEW table \in Tables, NEW B, BlocksOf(B, table, Series), NEW i \in 1..Len(B)
    PROVE  /\ Len(B) \in Nat /\ DOMAIN B = 1..Len(B)
           /\ B[i] \in Block /\ B[i].series \in Series /\ B[i].series \in Nat /\ B[i].series # 0
           /\ B[i].samples \in Seq(Sample) /\ Len(B[i].samples) \in Nat
           /\ Len(B[i].samples) \in 1..MaxSamples
           /\ \A m \in 1..Len(B[i].samples) :
                 /\ B[i].samples[m] \in Sample /\ B[i].samples[m].timestamp \in Int
                 /\ first_timestamp(B[i]) <= B[i].samples[m].timestamp
                 /\ B[i].samples[m].timestamp <= last_timestamp(B[i])
           /\ first_timestamp(B[i]) \in Int /\ last_timestamp(B[i]) \in Int
           /\ first_timestamp(B[i]) <= last_timestamp(B[i])
<1>1. B \in Seq(Block)
  BY DEF BlocksOf
<1>2. Len(B) \in Nat /\ DOMAIN B = 1..Len(B) /\ B[i] \in Block
  BY <1>1, LenProperties
<1> DEFINE S == B[i].samples
           n == Len(S)
<1>3. B[i].series \in Series /\ S \in Seq(Sample)
  BY <1>2 DEF Block
<1>4. n \in 1..MaxSamples /\ n \in Nat
  BY <1>3, LenProperties DEF BlocksOf
<1>5. \A m \in 1..n : S[m] \in Sample /\ S[m].timestamp \in Int
  <2>1. \A x \in Sample : x.timestamp \in Int
    BY DEF Sample
  <2>2. \A m \in 1..n : S[m] \in Sample
    BY <1>3, ElementOfSeq
  <2> QED
    BY <2>1, <2>2
<1>6. \A m, l \in 1..n : m < l => S[m].timestamp < S[l].timestamp
  BY DEF BlocksOf
<1>7. first_timestamp(B[i]) = S[1].timestamp /\ last_timestamp(B[i]) = S[n].timestamp
  BY DEF first_timestamp, last_timestamp
<1> HIDE DEF n, S
<1>8. 1 \in 1..n /\ n \in 1..n
  BY <1>4
<1>9. \A m \in 1..n : S[1].timestamp <= S[m].timestamp /\ S[m].timestamp <= S[n].timestamp
  <2>1. TAKE m \in 1..n
  <2>2. (m = 1 \/ 1 < m) /\ (m = n \/ m < n)
    BY <1>4
  <2> QED
    BY <1>5, <1>6, <1>8, <2>2
<1>10. B[i].series \in Nat /\ B[i].series # 0
  BY <1>3, ReadBounds
<1> QED
  BY <1>2, <1>3, <1>4, <1>5, <1>7, <1>8, <1>9, <1>10 DEF n, S

-----------------------------------------------------------------------------
(* Where the blocks are in the file.                                       *)

LEMMA SizeIsPositive ==
    ASSUME NEW b \in Block
    PROVE  EncodedSize(b) \in Nat /\ EncodedSize(b) > 0
<1>1. b.series \in Series /\ b.samples \in Seq(Sample)
  BY DEF Block
<1>2. KeySize[b.series] \in Nat /\ Len(b.samples) \in Nat
  BY <1>1, LenProperties, ReadBounds
<1> QED
  BY <1>2 DEF EncodedSize, BlockPayload

\* A block begins where the one before it ends, the first after the header.
LEMMA OffsetsAre ==
    ASSUME NEW B \in Seq(Block)
    PROVE  /\ Offsets(B) \in [1..Len(B) + 1 -> Nat]
           /\ Offsets(B)[1] = HeaderSize
           /\ \A i \in 1..Len(B) : Offsets(B)[i + 1] = Offsets(B)[i] + EncodedSize(B[i])
<1> DEFINE N == Len(B)
           Start(f, i) == IF i = 1 THEN HeaderSize ELSE f[i - 1] + EncodedSize(B[i - 1])
           Body(f) == [i \in 1..N + 1 |-> Start(f, i)]
           Good(n) == n <= N => \E f \in [1..n + 1 -> Nat] : \A i \in 1..n + 1 : f[i] = Start(f, i)
           T == {n \in Nat : Good(n)}
<1>0. N \in Nat /\ \A i \in 1..N : EncodedSize(B[i]) \in Nat
  <2>1. N \in Nat /\ \A i \in 1..N : B[i] \in Block
    OBVIOUS
  <2> QED
    BY <2>1, SizeIsPositive
<1>1. Good(0)
  <2> DEFINE f == [i \in 1..0 + 1 |-> HeaderSize]
  <2>1. f \in [1..0 + 1 -> Nat] /\ \A i \in 1..0 + 1 : i = 1 /\ f[i] = HeaderSize
    BY DEF HeaderSize
  <2>2. \A i \in 1..0 + 1 : f[i] = Start(f, i)
    BY <2>1, Zenon
  <2> HIDE DEF f, Start
  <2> QED
    BY <2>1, <2>2
<1>2. ASSUME NEW n \in Nat, Good(n) PROVE Good(n + 1)
  <2>1. SUFFICES ASSUME n + 1 <= N
                 PROVE  \E f \in [1..n + 1 + 1 -> Nat] : \A i \in 1..n + 1 + 1 : f[i] = Start(f, i)
    BY Zenon
  <2>2. PICK f \in [1..n + 1 -> Nat] : \A i \in 1..n + 1 : f[i] = Start(f, i)
    <3>1. n <= N
      BY <1>0, <2>1
    <3> HIDE DEF Start
    <3> QED
      BY <1>2, <3>1
  <2> DEFINE v == f[n + 1] + EncodedSize(B[n + 1])
             g == [i \in 1..n + 1 + 1 |-> IF i = n + 2 THEN v ELSE f[i]]
  <2>3. v \in Nat
    <3>1. n + 1 \in 1..N /\ f[n + 1] \in Nat
      BY <1>0, <2>1, <2>2
    <3> QED
      BY <1>0, <3>1
  <2>4. g \in [1..n + 1 + 1 -> Nat]
    <3> HIDE DEF v
    <3> QED
      BY <2>2, <2>3
  <2>5. ASSUME NEW i \in 1..n + 1 + 1 PROVE g[i] = Start(g, i)
    <3>1. CASE i = n + 2
      <4>1. i # 1 /\ i - 1 = n + 1 /\ n + 1 \in 1..n + 1 + 1 /\ n + 1 # n + 2
        BY <3>1
      <4>2. g[i] = v /\ g[n + 1] = f[n + 1]
        BY <3>1, <4>1
      <4> QED
        BY <4>1, <4>2
    <3>2. CASE i # n + 2
      <4>1. i \in 1..n + 1 /\ g[i] = f[i] /\ (i # 1 => g[i - 1] = f[i - 1])
        BY <3>2
      <4>2. f[i] = Start(f, i)
        BY <2>2, <4>1
      <4> HIDE DEF g
      <4> QED
        BY <4>1, <4>2
    <3> QED
      BY <3>1, <3>2
  <2> HIDE DEF g, Start
  <2> QED
    BY <2>4, <2>5
<1>3. \A n \in Nat : n \in T
  <2> HIDE DEF Good
  <2>1. 0 \in T /\ \A n \in Nat : n \in T => n + 1 \in T
    BY <1>1, <1>2
  <2> HIDE DEF T
  <2> QED
    BY <2>1, NatInductive
<1>4. PICK f \in [1..N + 1 -> Nat] : \A i \in 1..N + 1 : f[i] = Start(f, i)
  <2>1. Good(N)
    BY <1>0, <1>3
  <2> HIDE DEF Start
  <2> QED
    BY <1>0, <2>1
<1> DEFINE offset == CHOOSE h : h = Body(h)
<1>5. f = Body(f)
  BY <1>4
<1>6. offset = Body(offset)
  <2> HIDE DEF Body
  <2> QED
    BY <1>5
<1>7. Offsets(B) = offset
  BY DEF Offsets
<1> HIDE DEF offset
<1>8. /\ offset = [i \in 1..N + 1 |-> offset[i]]
      /\ \A i \in 1..N + 1 : offset[i] = Start(offset, i)
  BY <1>6, Zenon
<1> HIDE DEF N
<1>9. offset[1] = HeaderSize
  <2>1. 1 \in 1..N + 1
    BY <1>0
  <2> QED
    BY <1>8, <2>1
<1>10. ASSUME NEW i \in 1..N PROVE offset[i + 1] = offset[i] + EncodedSize(B[i])
  <2>1. ASSUME NEW k \in 1..N + 1, k = i + 1 PROVE offset[k] = offset[i] + EncodedSize(B[i])
    <3>1. k # 1 /\ k - 1 = i
      BY <1>0, <2>1
    <3>2. offset[k] = offset[k - 1] + EncodedSize(B[k - 1])
      BY <1>8, <3>1, Zenon
    <3> QED
      BY <3>1, <3>2
  <2>2. i + 1 \in 1..N + 1
    BY <1>0
  <2> QED
    BY <2>1, <2>2, Zenon
<1>11. \A n \in Nat : n \in {m \in Nat : m <= N => offset[m + 1] \in Nat}
  <2> DEFINE U == {m \in Nat : m <= N => offset[m + 1] \in Nat}
  <2>1. 0 \in U
    BY <1>9 DEF HeaderSize
  <2>2. ASSUME NEW n \in Nat, n \in U PROVE n + 1 \in U
    <3>1. SUFFICES ASSUME n + 1 <= N PROVE offset[n + 1 + 1] \in Nat
      OBVIOUS
    <3>2. n + 1 \in 1..N /\ n <= N
      BY <1>0, <3>1
    <3>3. offset[n + 1 + 1] = offset[n + 1] + EncodedSize(B[n + 1])
      BY <1>10, <3>2, Zenon
    <3>4. offset[n + 1] \in Nat /\ EncodedSize(B[n + 1]) \in Nat
      BY <1>0, <2>2, <3>2 DEF N
    <3> QED
      BY <3>3, <3>4
  <2> HIDE DEF U
  <2>3. \A n \in Nat : n \in U
    BY <2>1, <2>2, NatInductive
  <2> QED
    BY <2>3 DEF U
<1>12. offset \in [1..N + 1 -> Nat]
  <2>1. \A i \in 1..N + 1 : offset[i] \in Nat
    <3>1. TAKE i \in 1..N + 1
    <3>2. i - 1 \in Nat /\ i - 1 + 1 = i /\ i - 1 <= N
      BY <1>0
    <3>3. i - 1 <= N => offset[i - 1 + 1] \in Nat
      BY <1>11, <3>2
    <3> QED
      BY <3>2, <3>3
  <2> QED
    BY <1>8, <2>1
<1> QED
  BY <1>7, <1>9, <1>10, <1>12 DEF N

\* So no two blocks begin at the same place, and a block ends before the next one.
LEMMA OffsetsAscend ==
    ASSUME NEW B \in Seq(Block)
    PROVE  \A i, j \in 1..Len(B) + 1 : i < j => Offsets(B)[i] < Offsets(B)[j]
<1> DEFINE N == Len(B)
           off == Offsets(B)
           Good(d) == \A i \in 1..N + 1 : i + d + 1 <= N + 1 => off[i] < off[i + d + 1]
           T == {d \in Nat : Good(d)}
<1>1. N \in Nat /\ off \in [1..N + 1 -> Nat]
  BY OffsetsAre
<1>2. \A i \in 1..N : off[i] < off[i + 1]
  <2>1. TAKE i \in 1..N
  <2>2. B[i] \in Block
    OBVIOUS
  <2>3. EncodedSize(B[i]) \in Nat /\ EncodedSize(B[i]) > 0
    BY <2>2, SizeIsPositive
  <2>4. off[i + 1] = off[i] + EncodedSize(B[i])
    BY OffsetsAre
  <2>5. off[i] \in Nat
    BY <1>1
  <2> QED
    BY <2>3, <2>4, <2>5
<1> HIDE DEF off, N
<1>3. Good(0)
  <2>1. TAKE i \in 1..N + 1
  <2>2. HAVE i + 0 + 1 <= N + 1
  <2>3. i \in 1..N /\ i + 0 + 1 = i + 1
    BY <1>1, <2>2
  <2> QED
    BY <1>2, <2>3
<1>4. ASSUME NEW d \in Nat, Good(d) PROVE Good(d + 1)
  <2>1. TAKE i \in 1..N + 1
  <2>2. HAVE i + (d + 1) + 1 <= N + 1
  <2> DEFINE j == i + d + 1
  <2>3. i \in Nat /\ j \in 1..N /\ j <= N + 1 /\ i + (d + 1) + 1 = j + 1
    BY <1>1, <2>2
  <2>4. off[i] < off[j]
    BY <1>4, <2>3
  <2>5. off[j] < off[j + 1]
    BY <1>2, <2>3
  <2> HIDE DEF j
  <2>6. off[i] \in Nat /\ off[j] \in Nat /\ off[j + 1] \in Nat
    BY <1>1, <2>3
  <2> QED
    BY <2>3, <2>4, <2>5, <2>6
<1>5. \A d \in Nat : d \in T
  <2> HIDE DEF Good
  <2>1. 0 \in T /\ \A d \in Nat : d \in T => d + 1 \in T
    BY <1>3, <1>4
  <2> HIDE DEF T
  <2> QED
    BY <2>1, NatInductive
<1>6. ASSUME NEW i \in 1..N + 1, NEW j \in 1..N + 1, i < j PROVE off[i] < off[j]
  <2>1. j - i - 1 \in Nat /\ i + (j - i - 1) + 1 = j
    BY <1>1, <1>6
  <2>2. Good(j - i - 1)
    BY <1>5, <2>1
  <2>3. off[i] < off[i + (j - i - 1) + 1]
    BY <1>1, <2>1, <2>2
  <2> QED
    BY <2>1, <2>3
<1> QED
  BY <1>6 DEF N, off

Entry == [series : Series, first_timestamp : Int, last_timestamp : Int,
          block_offset : Nat, block_size : Nat, sample_count : Nat]

\* The index of the blocks of a table.
LEMMA IndexIs ==
    ASSUME NEW table \in Tables, NEW B, BlocksOf(B, table, Series)
    PROVE  /\ IndexOf(B) \in Seq(Entry) /\ Len(IndexOf(B)) = Len(B)
           /\ DOMAIN IndexOf(B) = 1..Len(B)
           /\ \A i \in 1..Len(B) :
                 /\ IndexOf(B)[i].series = B[i].series
                 /\ IndexOf(B)[i].first_timestamp = first_timestamp(B[i])
                 /\ IndexOf(B)[i].last_timestamp = last_timestamp(B[i])
                 /\ IndexOf(B)[i].block_offset = Offsets(B)[i]
                 /\ IndexOf(B)[i].block_size = EncodedSize(B[i])
                 /\ IndexOf(B)[i].sample_count = Len(B[i].samples)
<1>1. B \in Seq(Block)
  BY DEF BlocksOf
<1>2. Len(B) \in Nat /\ DOMAIN B = 1..Len(B)
  BY <1>1, LenProperties
<1> DEFINE E(i) == [series |-> B[i].series,
                    first_timestamp |-> first_timestamp(B[i]),
                    last_timestamp |-> last_timestamp(B[i]),
                    block_offset |-> Offsets(B)[i],
                    block_size |-> EncodedSize(B[i]),
                    sample_count |-> Len(B[i].samples)]
<1>3. IndexOf(B) = [i \in 1..Len(B) |-> E(i)]
  BY <1>2 DEF IndexOf
<1>4. ASSUME NEW i \in 1..Len(B) PROVE E(i) \in Entry
  <2>1. /\ B[i].series \in Series /\ first_timestamp(B[i]) \in Int
        /\ last_timestamp(B[i]) \in Int /\ B[i] \in Block /\ Len(B[i].samples) \in Nat
    BY BlockFacts
  <2>2. EncodedSize(B[i]) \in Nat
    BY <2>1, SizeIsPositive
  <2>3. Offsets(B)[i] \in Nat
    BY <1>1, <1>2, OffsetsAre
  <2> QED
    BY <2>1, <2>2, <2>3 DEF Entry
<1>5. \A i \in 1..Len(B) :
                 /\ E(i).series = B[i].series
                 /\ E(i).first_timestamp = first_timestamp(B[i])
                 /\ E(i).last_timestamp = last_timestamp(B[i])
                 /\ E(i).block_offset = Offsets(B)[i]
                 /\ E(i).block_size = EncodedSize(B[i])
                 /\ E(i).sample_count = Len(B[i].samples)
  OBVIOUS
<1> HIDE DEF E
<1>6. IndexOf(B) \in [1..Len(B) -> Entry]
  BY <1>3, <1>4
<1>7. \A i \in 1..Len(B) : IndexOf(B)[i] = E(i)
  BY <1>3
<1>8. IndexOf(B) \in Seq(Entry) /\ Len(IndexOf(B)) = Len(B) /\ DOMAIN IndexOf(B) = 1..Len(B)
  BY <1>2, <1>6
<1> QED
  BY <1>5, <1>7, <1>8

\* A segment file whose index lists the blocks B and whose data is made of such
\* blocks, perhaps lost or at the wrong place.
FileOf(segment, B) ==
    /\ B # <<>>
    /\ segment = [intact |-> segment.intact,
                  index |-> IndexOf(B),
                  index_offset |-> Offsets(B)[Len(B) + 1],
                  blocks |-> segment.blocks]
    /\ segment.intact \in SUBSET Envelope
    /\ segment.blocks \in [{Offsets(B)[i] : i \in 1..Len(B)} -> ToSet(B) \cup {Garbage}]

\* The blocks are within the limits of a segment file.
Within(B) ==
    /\ Len(B) <= MaxBlocks
    /\ \A i \in 1..Len(B) : FitsBlock(B[i])
    /\ FitsIndex(IndexOf(B))

\* One that the medium has left alone.
Undamaged(segment, B) ==
    /\ FileOf(segment, B)
    /\ Within(B)
    /\ segment.intact = Envelope
    /\ \A i \in 1..Len(B) : segment.blocks[Offsets(B)[i]] = B[i]

\* What write_segment_file writes.
LEMMA WrittenIs ==
    ASSUME NEW table \in Tables, NEW B, BlocksOf(B, table, Series), B # <<>>, Within(B)
    PROVE  Undamaged(write_segment_file(B), B)
<1> DEFINE index == IndexOf(B)
           off == Offsets(B)
           n == Len(B)
           D == {e.block_offset : e \in ToSet(index)}
           Found1(o) == CHOOSE i \in DOMAIN index : index[i].block_offset = o
           data == [o \in D |-> B[Found1(o)]]
           file == write_segment_file(B)
<1>1. B \in Seq(Block)
  BY DEF BlocksOf
<1>2. n \in Nat /\ n # 0 /\ \A i \in 1..n : B[i] \in Block
  BY <1>1, EmptySeq
<1>3. /\ Len(index) = n /\ DOMAIN index = 1..n
      /\ \A i \in 1..n : index[i].block_offset = off[i] /\ index[i].block_size = EncodedSize(B[i])
  BY IndexIs
<1>4. /\ off \in [1..n + 1 -> Nat]
      /\ \A i \in 1..n : off[i + 1] = off[i] + EncodedSize(B[i])
      /\ \A i, j \in 1..n + 1 : i < j => off[i] < off[j]
  BY <1>1, OffsetsAre, OffsetsAscend
<1>5. file = [intact |-> Envelope, index |-> index,
              index_offset |-> index[Len(index)].block_offset + index[Len(index)].block_size,
              blocks |-> data]
  BY DEF write_segment_file
<1> HIDE DEF index, off, n
<1>6. index[Len(index)].block_offset + index[Len(index)].block_size = off[n + 1]
  <2>1. n \in 1..n
    BY <1>2
  <2> QED
    BY <1>3, <1>4, <2>1
<1>7. D = {off[i] : i \in 1..n}
  <2>1. \A o \in D : \E i \in 1..n : o = off[i]
    BY <1>3 DEF ToSet
  <2>2. \A i \in 1..n : off[i] \in D
    BY <1>3 DEF ToSet
  <2> QED
    BY <2>1, <2>2, Zenon
<1>8. ASSUME NEW i \in 1..n PROVE Found1(off[i]) = i
  <2>1. index[i].block_offset = off[i] /\ i \in DOMAIN index
    BY <1>3
  <2>2. \A j \in DOMAIN index : index[j].block_offset = off[i] => j = i
    <3>1. TAKE j \in DOMAIN index
    <3>2. j \in 1..n /\ index[j].block_offset = off[j]
      BY <1>3
    <3>3. j < i \/ i < j \/ i = j
      BY <3>2
    <3>4. i \in 1..n + 1 /\ j \in 1..n + 1
      BY <1>2, <3>2
    <3>5. off[i] \in Nat /\ off[j] \in Nat /\ (i < j => off[i] < off[j]) /\ (j < i => off[j] < off[i])
      BY <1>4, <3>4
    <3> QED
      BY <3>2, <3>3, <3>5
  <2> QED
    BY <2>1, <2>2
<1> HIDE DEF Found1, D
<1>9. \A i \in 1..n : off[i] \in D /\ data[off[i]] = B[i]
  BY <1>7, <1>8
<1>10. data \in [D -> ToSet(B) \cup {Garbage}]
  <2>1. \A o \in D : data[o] \in ToSet(B)
    <3>1. TAKE o \in D
    <3>2. PICK i \in 1..n : o = off[i]
      BY <1>7
    <3>3. DOMAIN B = 1..n
      BY <1>1, LenProperties DEF n
    <3> QED
      BY <1>9, <3>2, <3>3 DEF ToSet
  <2> QED
    BY <2>1
<1> HIDE DEF data
<1>11. /\ file.intact = Envelope /\ file.blocks = data
       /\ file = [intact |-> file.intact, index |-> index, index_offset |-> off[n + 1],
                  blocks |-> file.blocks]
  BY <1>5, <1>6
<1> HIDE DEF file
<1>12. FileOf(file, B)
  BY <1>7, <1>10, <1>11 DEF FileOf, index, off, n
<1>13. \A i \in 1..n : file.blocks[off[i]] = B[i]
  BY <1>9, <1>11
<1> QED
  BY <1>11, <1>12, <1>13 DEF Undamaged, off, n, file

\* It passes the checks of its writer and those of its reader.
LEMMA WrittenOpens ==
    ASSUME NEW table \in Tables, NEW B, BlocksOf(B, table, Series), NEW segment, Undamaged(segment, B)
    PROVE  Writable(B) /\ Opens(segment)
<1> DEFINE index == IndexOf(B)
           off == Offsets(B)
           n == Len(B)
<1>1. B \in Seq(Block) /\ B # <<>>
  BY DEF BlocksOf, Undamaged, FileOf
<1>2. n <= MaxBlocks /\ (\A i \in 1..n : FitsBlock(B[i])) /\ FitsIndex(index)
  BY DEF Undamaged, Within
<1>3. n \in Nat /\ n # 0 /\ DOMAIN B = 1..n /\ \A i \in 1..n : B[i] \in Block
  BY <1>1, EmptySeq
<1>4. \A i \in 1..n : i - 1 \in Nat /\ (i > 1 => i - 1 \in 1..n /\ i - 1 < i)
  BY <1>3
<1>5. \A i \in 2..n : \/ B[i - 1].series < B[i].series
                      \/ /\ B[i - 1].series = B[i].series
                         /\ last_timestamp(B[i - 1]) < first_timestamp(B[i])
  <2>1. \A i \in 2..n : i \in 1..n /\ i - 1 \in 1..n /\ i - 1 < i
    BY <1>3
  <2> QED
    BY <2>1 DEF BlocksOf
<1>6. validate_blocks(B)
  <2>1. \A i \in 1..n : Len(B[i].samples) \in 1..MaxSamples
    BY DEF BlocksOf
  <2>2. ASSUME NEW i \in 1..n, NEW j \in 2..Len(B[i].samples)
        PROVE  B[i].samples[j - 1].timestamp < B[i].samples[j].timestamp
    <3>1. Len(B[i].samples) \in Nat
      BY BlockFacts
    <3>2. j \in 1..Len(B[i].samples) /\ j - 1 \in 1..Len(B[i].samples) /\ j - 1 < j
      BY <3>1
    <3> QED
      BY <3>2 DEF BlocksOf
  <2> QED
    BY <1>1, <1>2, <1>3, <1>5, <2>1, <2>2 DEF validate_blocks
<1>7. /\ index \in Seq(Entry) /\ Len(index) = n /\ DOMAIN index = 1..n
      /\ \A i \in 1..n :
            /\ index[i].series = B[i].series
            /\ index[i].first_timestamp = first_timestamp(B[i])
            /\ index[i].last_timestamp = last_timestamp(B[i])
            /\ index[i].block_offset = off[i]
            /\ index[i].block_size = EncodedSize(B[i])
            /\ index[i].sample_count = Len(B[i].samples)
  BY IndexIs
<1>8. /\ off \in [1..n + 1 -> Nat] /\ off[1] = HeaderSize
      /\ \A i \in 1..n : off[i + 1] = off[i] + EncodedSize(B[i])
      /\ \A i, j \in 1..n + 1 : i < j => off[i] < off[j]
  BY <1>1, OffsetsAre, OffsetsAscend
<1>9. segment.intact = Envelope /\ segment.index = index /\ segment.index_offset = off[n + 1]
  BY DEF Undamaged, FileOf
<1> HIDE DEF index, off, n
<1>10. ASSUME NEW i \in 1..n
      PROVE  /\ index[i].block_offset = IF i = 1 THEN HeaderSize
                                        ELSE index[i - 1].block_offset + index[i - 1].block_size
             /\ index[i].block_size > 0
             /\ index[i].block_offset + index[i].block_size <= off[n + 1]
             /\ index[i].sample_count \in 1..MaxSamples
             /\ index[i].first_timestamp <= index[i].last_timestamp
             /\ i > 1 => \/ index[i - 1].series < index[i].series
                         \/ /\ index[i - 1].series = index[i].series
                            /\ index[i - 1].last_timestamp < index[i].first_timestamp
  <2>1. i = 1 => index[i].block_offset = HeaderSize /\ ~(i > 1)
    BY <1>7, <1>8
  <2>2. ASSUME i # 1
        PROVE  /\ index[i].block_offset = index[i - 1].block_offset + index[i - 1].block_size
               /\ i > 1 => \/ index[i - 1].series < index[i].series
                           \/ /\ index[i - 1].series = index[i].series
                              /\ index[i - 1].last_timestamp < index[i].first_timestamp
    <3>1. i \in 2..n /\ i - 1 \in 1..n /\ i - 1 + 1 = i
      BY <1>3, <2>2
    <3>2. off[i - 1 + 1] = off[i - 1] + EncodedSize(B[i - 1])
      BY <1>8, <3>1
    <3>3. off[i] = off[i - 1] + EncodedSize(B[i - 1])
      BY <3>1, <3>2
    <3> QED
      BY <1>5, <1>7, <3>1, <3>3
  <2>3. index[i].block_size > 0
    BY <1>3, <1>7, SizeIsPositive
  <2>4. index[i].block_offset + index[i].block_size <= off[n + 1]
    <3>1. i + 1 \in 1..n + 1 /\ n + 1 \in 1..n + 1 /\ (i + 1 = n + 1 \/ i + 1 < n + 1)
      BY <1>3
    <3>2. off[i + 1] \in Nat /\ off[n + 1] \in Nat
      BY <1>8, <3>1
    <3>3. off[i + 1] <= off[n + 1]
      BY <1>8, <3>1, <3>2
    <3> QED
      BY <1>7, <1>8, <3>3
  <2>5. index[i].sample_count \in 1..MaxSamples /\ index[i].first_timestamp <= index[i].last_timestamp
    BY <1>7, BlockFacts DEF n
  <2> QED
    BY <2>1, <2>2, <2>3, <2>4, <2>5
<1>11. index[n].block_offset + index[n].block_size = off[n + 1] /\ index # <<>>
  <2>1. n \in 1..n
    BY <1>3
  <2> QED
    BY <1>3, <1>7, <1>8, <2>1
<1>12. validate_index(index, off[n + 1])
  BY <1>7, <1>10, <1>11 DEF validate_index
<1>13. Writable(B)
  BY <1>2, <1>3, <1>6 DEF Writable, index
<1>14. Len(segment.index) \in 1..MaxBlocks
  BY <1>2, <1>3, <1>7, <1>9, ReadBounds
<1> QED
  BY <1>2, <1>9, <1>12, <1>13, <1>14
  DEF Opens, decode_header, decode_footer, decode_index, Envelope

=============================================================================
