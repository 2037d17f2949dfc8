-------------------------- MODULE SegmentReadsProofs --------------------------
(***************************************************************************)
(* The read path returns what was written, for every number of series,      *)
(* samples, blocks and segments: theorems about SegmentReads.               *)
(***************************************************************************)
EXTENDS SegmentLemmas

-----------------------------------------------------------------------------
(* Reading a block.                                                        *)

\* A block is read as what was written at its place, or not at all: no other block
\* of the file is taken for it.
LEMMA ReadBlockIs ==
    ASSUME NEW table \in Tables, NEW B, BlocksOf(B, table, Series),
           NEW segment, FileOf(segment, B), NEW n \in 1..Len(B)
    PROVE  \/ read_block(segment, segment.index[n]) = Found(B[n].samples)
           \/ read_block(segment, segment.index[n]) = Corrupt
<1> DEFINE e == segment.index[n]
           b == segment.blocks[e.block_offset]
<1>1. /\ e.block_offset = Offsets(B)[n] /\ e.series = B[n].series
      /\ e.first_timestamp = first_timestamp(B[n])
  BY IndexIs DEF FileOf
<1>2. b \in ToSet(B) \cup {Garbage}
  BY <1>1 DEF FileOf
<1>3. read_block(segment, e) = IF Matches(b, e) THEN Found(b.samples) ELSE Corrupt
  BY DEF read_block
<1> HIDE DEF b, e
<1>4. ASSUME Matches(b, e) PROVE b = B[n]
  <2>1. b # Garbage /\ b.series = B[n].series /\ first_timestamp(b) = first_timestamp(B[n])
    BY <1>1, <1>4 DEF Matches
  <2>2. DOMAIN B = 1..Len(B)
    BY BlockFacts
  <2>3. PICK j \in 1..Len(B) : b = B[j]
    BY <1>2, <2>1, <2>2 DEF ToSet
  <2>4. /\ B[j].series \in Nat /\ first_timestamp(B[j]) \in Int /\ last_timestamp(B[j]) \in Int
        /\ first_timestamp(B[j]) <= last_timestamp(B[j])
    BY BlockFacts
  <2>5. /\ B[n].series \in Nat /\ first_timestamp(B[n]) \in Int /\ last_timestamp(B[n]) \in Int
        /\ first_timestamp(B[n]) <= last_timestamp(B[n])
    BY BlockFacts
  <2>6. B[j].series = B[n].series /\ first_timestamp(B[j]) = first_timestamp(B[n])
    BY <2>1, <2>3
  <2>7. ~(j < n)
    <3>1. j < n => \/ B[j].series < B[n].series
                   \/ B[j].series = B[n].series /\ last_timestamp(B[j]) < first_timestamp(B[n])
      BY DEF BlocksOf
    <3> QED
      BY <2>4, <2>5, <2>6, <3>1
  <2>8. ~(n < j)
    <3>1. n < j => \/ B[n].series < B[j].series
                   \/ B[n].series = B[j].series /\ last_timestamp(B[n]) < first_timestamp(B[j])
      BY DEF BlocksOf
    <3> QED
      BY <2>4, <2>5, <2>6, <3>1
  <2> QED
    BY <2>3, <2>7, <2>8
<1> QED
  BY <1>3, <1>4 DEF e

\* Without damage it is read.
LEMMA ReadBlockUndamaged ==
    ASSUME NEW table \in Tables, NEW B, BlocksOf(B, table, Series),
           NEW segment, Undamaged(segment, B), NEW n \in 1..Len(B)
    PROVE  read_block(segment, segment.index[n]) = Found(B[n].samples)
<1> DEFINE e == segment.index[n]
<1>1. /\ e.block_offset = Offsets(B)[n] /\ e.series = B[n].series
      /\ e.first_timestamp = first_timestamp(B[n]) /\ e.last_timestamp = last_timestamp(B[n])
      /\ e.block_size = EncodedSize(B[n]) /\ e.sample_count = Len(B[n].samples)
  BY IndexIs DEF Undamaged, FileOf
<1>2. segment.blocks[e.block_offset] = B[n]
  BY <1>1 DEF Undamaged
<1>3. B[n] # Garbage
  <2>1. B[n].series # 0
    BY BlockFacts
  <2> QED
    BY <2>1 DEF Garbage
<1>4. FitsBlock(B[n])
  BY DEF Undamaged, Within
<1> HIDE DEF e
<1>5. Matches(B[n], e)
  BY <1>1, <1>3, <1>4 DEF Matches
<1>6. read_block(segment, e) = Found(B[n].samples)
  BY <1>2, <1>5 DEF read_block
<1> QED
  BY <1>6 DEF e

LEMMA Answers ==
    ASSUME NEW x
    PROVE  Found(x).ok /\ Found(x).samples = x /\ ~Corrupt.ok /\ Found(x) # Corrupt
BY DEF Found, Corrupt

-----------------------------------------------------------------------------
(* Searching.                                                              *)

LEMMA TimeBoundIs ==
    ASSUME NEW F \in Seq(Sample), NEW t \in Int
    PROVE  /\ TimeBound(F, t) \in 1..Len(F) + 1
           /\ \A j \in 1..TimeBound(F, t) - 1 : F[j].timestamp < t
           /\ TimeBound(F, t) <= Len(F) => ~(F[TimeBound(F, t)].timestamp < t)
<1> DEFINE S == {j \in 1..Len(F) : F[j].timestamp < t}
<1>0. Len(F) \in Nat
  OBVIOUS
<1> HIDE DEF S
<1>1. PICK i \in 1..Len(F) + 1 : (\A j \in 1..i - 1 : j \in S) /\ (i <= Len(F) => i \notin S)
  BY <1>0, FirstOutside
<1>2. /\ \A j \in 1..i - 1 : F[j].timestamp < t
      /\ i <= Len(F) => ~(F[i].timestamp < t)
  BY <1>0, <1>1 DEF S
<1>3. TimeBound(F, t) = CHOOSE b \in 1..Len(F) + 1 :
                           /\ \A j \in 1..b - 1 : F[j].timestamp < t
                           /\ b <= Len(F) => ~(F[b].timestamp < t)
  BY DEF TimeBound, LowerBound
<1> QED
  BY <1>1, <1>2, <1>3

LEMMA SeriesBeginIs ==
    ASSUME NEW index \in Seq(Entry), NEW s \in Series
    PROVE  /\ SeriesBegin(index, s) \in 1..Len(index) + 1
           /\ \A j \in 1..SeriesBegin(index, s) - 1 : index[j].series < s
           /\ SeriesBegin(index, s) <= Len(index) => ~(index[SeriesBegin(index, s)].series < s)
<1> DEFINE S == {j \in 1..Len(index) : index[j].series < s}
<1>0. Len(index) \in Nat
  OBVIOUS
<1> HIDE DEF S
<1>1. PICK i \in 1..Len(index) + 1 : /\ \A j \in 1..i - 1 : j \in S
                                     /\ i <= Len(index) => i \notin S
  BY <1>0, FirstOutside
<1>2. /\ \A j \in 1..i - 1 : index[j].series < s
      /\ i <= Len(index) => ~(index[i].series < s)
  BY <1>0, <1>1 DEF S
<1>3. SeriesBegin(index, s) = CHOOSE b \in 1..Len(index) + 1 :
                                 /\ \A j \in 1..b - 1 : index[j].series < s
                                 /\ b <= Len(index) => ~(index[b].series < s)
  BY DEF SeriesBegin, LowerBound
<1> QED
  BY <1>1, <1>2, <1>3

LEMMA SeriesEndIs ==
    ASSUME NEW index \in Seq(Entry), NEW s \in Series
    PROVE  /\ SeriesEnd(index, s) \in 1..Len(index) + 1
           /\ \A j \in 1..SeriesEnd(index, s) - 1 : ~(s < index[j].series)
           /\ SeriesEnd(index, s) <= Len(index) => s < index[SeriesEnd(index, s)].series
<1> DEFINE S == {j \in 1..Len(index) : ~(s < index[j].series)}
<1>0. Len(index) \in Nat
  OBVIOUS
<1> HIDE DEF S
<1>1. PICK i \in 1..Len(index) + 1 : /\ \A j \in 1..i - 1 : j \in S
                                     /\ i <= Len(index) => i \notin S
  BY <1>0, FirstOutside
<1>2. /\ \A j \in 1..i - 1 : ~(s < index[j].series)
      /\ i <= Len(index) => ~(~(s < index[i].series))
  BY <1>0, <1>1 DEF S
<1>3. SeriesEnd(index, s) = CHOOSE b \in 1..Len(index) + 1 :
                                 /\ \A j \in 1..b - 1 : ~(s < index[j].series)
                                 /\ b <= Len(index) => ~(~(s < index[b].series))
  BY DEF SeriesEnd, LowerBound
<1>4. /\ SeriesEnd(index, s) \in 1..Len(index) + 1
      /\ \A j \in 1..SeriesEnd(index, s) - 1 : ~(s < index[j].series)
      /\ SeriesEnd(index, s) <= Len(index) => ~(~(s < index[SeriesEnd(index, s)].series))
  BY <1>1, <1>2, <1>3
<1> QED
  BY <1>4

\* The series of the blocks never descend.
LEMMA SeriesAscend ==
    ASSUME NEW table \in Tables, NEW B, BlocksOf(B, table, Series),
           NEW i \in 1..Len(B), NEW j \in 1..Len(B), i <= j
    PROVE  B[i].series <= B[j].series
<1>1. B[i].series \in Nat /\ B[j].series \in Nat
  BY BlockFacts
<1>2. i = j \/ i < j
  OBVIOUS
<1>3. i < j => B[i].series < B[j].series \/ B[i].series = B[j].series
  BY DEF BlocksOf
<1> QED
  BY <1>1, <1>2, <1>3

\* The loops of get and range walk through the blocks of the series, all of them.
LEMMA RunIs ==
    ASSUME NEW table \in Tables, NEW B, BlocksOf(B, table, Series), NEW s \in Series
    PROVE  Run(IndexOf(B), s) = {i \in 1..Len(B) : B[i].series = s}
<1> DEFINE index == IndexOf(B)
           n == Len(B)
           from == SeriesBegin(index, s)
<1>0. n \in Nat /\ s \in Nat
  BY ReadBounds DEF BlocksOf
<1>1. /\ index \in Seq(Entry) /\ Len(index) = n
      /\ \A i \in 1..n : index[i].series = B[i].series
  BY IndexIs
<1>2. /\ from \in 1..n + 1
      /\ \A j \in 1..from - 1 : index[j].series < s
      /\ from <= n => ~(index[from].series < s)
  BY <1>1, SeriesBeginIs
<1>3. Run(index, s) = {i \in from..n : \A j \in from..i : index[j].series = s}
  BY <1>1 DEF Run
<1> HIDE DEF index, n, from
<1>4. \A i, j \in 1..n : i <= j => B[i].series <= B[j].series /\ B[i].series \in Nat
  BY SeriesAscend, BlockFacts DEF n
<1>5. ASSUME NEW i \in from..n, \A j \in from..i : index[j].series = s
      PROVE  i \in 1..n /\ B[i].series = s
  <2>1. i \in from..i /\ i \in 1..n
    BY <1>0, <1>2
  <2> QED
    BY <1>1, <1>5, <2>1
<1>6. ASSUME NEW i \in 1..n, B[i].series = s
      PROVE  i \in from..n /\ \A j \in from..i : index[j].series = s
  <2>1. ~(i < from)
    <3>1. SUFFICES ASSUME i < from PROVE FALSE
      OBVIOUS
    <3>2. i \in 1..from - 1
      BY <1>2, <3>1
    <3>3. index[i].series < s
      BY <1>2, <3>2
    <3> QED
      BY <1>0, <1>1, <1>6, <3>3
  <2>2. from \in 1..n /\ from <= i
    BY <1>0, <1>2, <2>1
  <2>3. ASSUME NEW j \in from..i PROVE index[j].series = s
    <3>1. j \in 1..n /\ from <= j /\ j <= i
      BY <1>0, <2>2
    <3>2. B[from].series <= B[j].series /\ B[j].series <= B[i].series
          /\ B[from].series \in Nat /\ B[j].series \in Nat
      BY <1>4, <2>2, <3>1
    <3>3. ~(B[from].series < s)
      BY <1>1, <1>2, <2>2
    <3> QED
      BY <1>0, <1>1, <1>6, <3>1, <3>2, <3>3
  <2> QED
    BY <1>0, <1>2, <2>1, <2>3
<1>7. Run(index, s) = {i \in 1..n : B[i].series = s}
  BY <1>3, <1>5, <1>6
<1> QED
  BY <1>7 DEF index, n

LEMMA FirstIs ==
    ASSUME NEW P \in SUBSET Nat, P # {}
    PROVE  First(P) \in P /\ \A j \in P : First(P) <= j
<1>1. \E x \in P : \A y \in P : x <= y
  BY LeastOfSet
<1> QED
  BY <1>1 DEF First

\* The samples at no time of the series, and at one.
LEMMA SamplesAtNone ==
    ASSUME NEW table \in Tables, NEW s \in Series, NEW times \in SUBSET Times,
           \A t \in times : table[<<s, t>>] = None
    PROVE  SamplesAt(table, s, times) = <<>>
<1>1. <<>> \in Seq(Sample) /\ Len(<<>>) = 0
  BY EmptySeq
<1>2. IsSamples(<<>>, table, s, times)
  BY <1>1 DEF IsSamples
<1> QED
  BY <1>2, SamplesAtOnly

LEMMA SamplesAtOne ==
    ASSUME NEW table \in Tables, NEW s \in Series, NEW t \in Times, NEW x \in Sample,
           x.timestamp = t, x.value = table[<<s, t>>], table[<<s, t>>] # None
    PROVE  SamplesAt(table, s, {t} \cap Times) = <<x>>
<1>1. <<x>> \in Seq(Sample) /\ Len(<<x>>) = 1 /\ <<x>>[1] = x
  OBVIOUS
<1>2. {t} \cap Times = {t} /\ {t} \in SUBSET Times
  OBVIOUS
<1> DEFINE F == <<x>>
<1>3. F \in Seq(Sample) /\ Len(F) = 1 /\ F[1] = x
  BY <1>1
<1> HIDE DEF F
<1>4. \A i \in 1..1 : F[i] = x
  BY <1>3
<1>5. IsSamples(F, table, s, {t})
  <2>1. \A i, j \in 1..Len(F) : i < j => F[i].timestamp < F[j].timestamp
    BY <1>3
  <2>2. \A i \in 1..Len(F) : /\ F[i].timestamp \in {t}
                             /\ F[i].value = table[<<s, F[i].timestamp>>] /\ F[i].value # None
    BY <1>3, <1>4
  <2>3. \A r \in {t} : table[<<s, r>>] # None => \E i \in 1..Len(F) : F[i].timestamp = r
    BY <1>3
  <2> QED
    BY <1>3, <2>1, <2>2, <2>3 DEF IsSamples
<1> QED
  BY <1>2, <1>5, SamplesAtOnly DEF F

\* The search in a block finds the sample if it is there.
LEMMA SampleAtIs ==
    ASSUME NEW F \in Seq(Sample), NEW t \in Int,
           \A i, j \in 1..Len(F) : i < j => F[i].timestamp < F[j].timestamp
    PROVE  /\ \A m \in 1..Len(F) : F[m].timestamp = t => SampleAt(F, t) = <<F[m]>>
           /\ (\A m \in 1..Len(F) : F[m].timestamp # t) => SampleAt(F, t) = <<>>
<1> DEFINE b == TimeBound(F, t)
           n == Len(F)
<1>1. n \in Nat /\ \A m \in 1..n : F[m].timestamp \in Int
  <2>1. \A x \in Sample : x.timestamp \in Int
    BY DEF Sample
  <2>2. n \in Nat /\ \A m \in 1..n : F[m] \in Sample
    BY LenProperties, ElementOfSeq
  <2> QED
    BY <2>1, <2>2
<1>2. /\ b \in 1..n + 1 /\ \A j \in 1..b - 1 : F[j].timestamp < t
      /\ b <= n => ~(F[b].timestamp < t)
  BY TimeBoundIs
<1>3. SampleAt(F, t) = IF b <= n /\ F[b].timestamp = t THEN <<F[b]>> ELSE <<>>
  BY DEF SampleAt
<1> HIDE DEF b, n
<1>4. ASSUME NEW m \in 1..n, F[m].timestamp = t PROVE b = m
  <2>1. ~(m < b)
    <3>1. m < b => m \in 1..b - 1
      BY <1>1, <1>2
    <3> QED
      BY <1>1, <1>2, <1>4, <3>1
  <2>2. ~(b < m)
    <3>1. b < m => b \in 1..n /\ F[b].timestamp < F[m].timestamp
      BY <1>1, <1>2 DEF n
    <3> QED
      BY <1>1, <1>2, <1>4, <3>1
  <2> QED
    BY <1>1, <1>2, <2>1, <2>2
<1>5. ASSUME NEW m \in 1..n, F[m].timestamp = t PROVE SampleAt(F, t) = <<F[m]>>
  BY <1>1, <1>3, <1>4, <1>5
<1>6. ASSUME \A m \in 1..n : F[m].timestamp # t PROVE SampleAt(F, t) = <<>>
  <2>1. b <= n => b \in 1..n
    BY <1>1, <1>2
  <2> QED
    BY <1>3, <1>6, <2>1
<1> QED
  BY <1>5, <1>6 DEF n

-----------------------------------------------------------------------------
(* The queries of a segment.                                               *)

\* A query of a segment met a block of s that it could not read.
Missed(segment, B, s) ==
    \E n \in 1..Len(B) : B[n].series = s /\ ~read_block(segment, segment.index[n]).ok

\* get: the sample of the table at t, unless the one block that may have it is lost.
LEMMA SegmentGetIs ==
    ASSUME NEW table \in Tables, NEW B, BlocksOf(B, table, Series),
           NEW segment, FileOf(segment, B), NEW s \in Series, NEW t \in Int
    PROVE  \/ SegmentGet(segment, s, t) = Found(SamplesAt(table, s, {t} \cap Times))
           \/ /\ SegmentGet(segment, s, t) = Corrupt
              /\ \E n \in 1..Len(B) :
                    /\ ~read_block(segment, segment.index[n]).ok
                    /\ B[n].series = s
                    /\ first_timestamp(B[n]) <= t /\ t <= last_timestamp(B[n])
<1> DEFINE N == Len(B)
           index == segment.index
           reached == {i \in Run(index, s) : t <= index[i].last_timestamp}
           f == First(reached)
           block == read_block(segment, index[f])
           answer == SamplesAt(table, s, {t} \cap Times)
           r == SegmentGet(segment, s, t)
<1>0. r = IF reached = {} \/ t < index[f].first_timestamp THEN Found(<<>>)
          ELSE IF ~block.ok THEN Corrupt
          ELSE Found(SampleAt(block.samples, t))
  BY DEF SegmentGet
<1>1. index = IndexOf(B)
  BY DEF FileOf
<1>2. \A i \in 1..N : /\ index[i].first_timestamp = first_timestamp(B[i])
                      /\ index[i].last_timestamp = last_timestamp(B[i])
  BY <1>1, IndexIs
<1>3. Run(index, s) = {i \in 1..N : B[i].series = s}
  BY <1>1, RunIs
<1>4. \A i : i \in reached <=> i \in 1..N /\ B[i].series = s /\ t <= last_timestamp(B[i])
  BY <1>2, <1>3
<1>5. \A i \in 1..N : /\ i \in Nat /\ first_timestamp(B[i]) \in Int /\ last_timestamp(B[i]) \in Int
                      /\ first_timestamp(B[i]) <= last_timestamp(B[i])
                      /\ B[i].samples \in Seq(Sample)
  BY BlockFacts
<1> HIDE DEF reached
<1>6. reached # {} => f \in reached /\ \A j \in reached : f <= j
  BY <1>4, <1>5, FirstIs
<1> HIDE DEF f
\* A sample at t is in a block that get reaches, and no other holds one.
<1>7. ASSUME t \in Times, table[<<s, t>>] # None
      PROVE  /\ reached # {} /\ first_timestamp(B[f]) <= t
             /\ \E m \in 1..Len(B[f].samples) : B[f].samples[m].timestamp = t
  <2>1. PICK j \in 1..N : /\ B[j].series = s
                          /\ \E m \in 1..Len(B[j].samples) : B[j].samples[m].timestamp = t
    BY <1>7 DEF BlocksOf
  <2>2. first_timestamp(B[j]) <= t /\ t <= last_timestamp(B[j])
    BY <2>1, BlockFacts
  <2>3. j \in reached
    BY <1>4, <2>1, <2>2
  <2>4. f \in 1..N /\ B[f].series = s /\ t <= last_timestamp(B[f]) /\ f <= j
    BY <1>4, <1>6, <2>3
  <2>5. f = j
    <3>1. f < j => \/ B[f].series < B[j].series
                   \/ B[f].series = B[j].series /\ last_timestamp(B[f]) < first_timestamp(B[j])
      BY <2>4 DEF BlocksOf
    <3>2. B[j].series \in Nat
      BY BlockFacts
    <3>3. f < j => FALSE
      BY <1>5, <2>1, <2>2, <2>4, <3>1, <3>2
    <3> QED
      BY <1>5, <2>4, <3>3
  <2> QED
    BY <2>1, <2>2, <2>3, <2>5
<1>8. ASSUME ~(t \in Times /\ table[<<s, t>>] # None) PROVE answer = <<>>
  <2>1. {t} \cap Times \in SUBSET Times /\ \A x \in {t} \cap Times : table[<<s, x>>] = None
    BY <1>8
  <2> HIDE DEF answer
  <2> QED
    BY <2>1, SamplesAtNone DEF answer
<1>9. CASE reached = {} \/ t < index[f].first_timestamp
  <2>1. ~(t \in Times /\ table[<<s, t>>] # None)
    <3>1. SUFFICES ASSUME t \in Times, table[<<s, t>>] # None PROVE FALSE
      OBVIOUS
    <3>2. reached # {} /\ first_timestamp(B[f]) <= t
      BY <1>7, <3>1
    <3>3. f \in 1..N
      BY <1>4, <1>6, <3>2
    <3> QED
      BY <1>2, <1>5, <1>9, <3>2, <3>3
  <2> QED
    BY <1>0, <1>8, <1>9, <2>1
<1>10. CASE ~(reached = {} \/ t < index[f].first_timestamp)
  <2>1. f \in 1..N /\ B[f].series = s /\ t <= last_timestamp(B[f])
    BY <1>4, <1>6, <1>10
  <2>2. first_timestamp(B[f]) <= t
    BY <1>2, <1>5, <1>10, <2>1
  <2>3. CASE ~block.ok
    BY <1>0, <1>10, <2>1, <2>2, <2>3
  <2>4. CASE block.ok
    <3>1. block = Found(B[f].samples)
      BY <2>1, <2>4, ReadBlockIs, Answers
    <3>2. r = Found(SampleAt(B[f].samples, t))
      BY <1>0, <1>10, <2>4, <3>1, Answers
    <3> DEFINE F == B[f].samples
    <3>3. F \in Seq(Sample) /\ \A i, j \in 1..Len(F) : i < j => F[i].timestamp < F[j].timestamp
      BY <1>5, <2>1 DEF BlocksOf
    <3>4. CASE t \in Times /\ table[<<s, t>>] # None
      <4>1. PICK m \in 1..Len(F) : F[m].timestamp = t
        BY <1>7, <3>4
      <4>2. SampleAt(F, t) = <<F[m]>>
        BY <3>3, <4>1, SampleAtIs
      <4>3. F[m].value = table[<<s, t>>] /\ F[m] \in Sample
        <5>1. F[m].value = table[<<B[f].series, F[m].timestamp>>]
          BY <2>1, <4>1 DEF BlocksOf
        <5> QED
          BY <2>1, <3>3, <4>1, <5>1, ElementOfSeq
      <4>4. answer = <<F[m]>>
        BY <3>4, <4>1, <4>3, SamplesAtOne
      <4> QED
        BY <3>2, <4>2, <4>4
    <3>5. CASE ~(t \in Times /\ table[<<s, t>>] # None)
      <4>1. \A m \in 1..Len(F) : F[m].timestamp # t
        <5>1. \A m \in 1..Len(F) : /\ F[m].timestamp \in Times
                                   /\ F[m].value = table[<<s, F[m].timestamp>>] /\ F[m].value # None
          BY <2>1 DEF BlocksOf
        <5> QED
          BY <3>5, <5>1
      <4>2. SampleAt(F, t) = <<>>
        BY <3>3, <4>1, SampleAtIs
      <4> QED
        BY <1>8, <3>2, <3>5, <4>2
    <3> QED
      BY <3>4, <3>5
  <2> QED
    BY <2>3, <2>4
<1> QED
  BY <1>9, <1>10

\* The newest of some samples.
LastOf(F) == IF F = <<>> THEN <<>> ELSE <<F[Len(F)]>>

\* latest: the newest sample of the series, unless the last block of it is lost.
LEMMA SegmentLatestIs ==
    ASSUME NEW table \in Tables, NEW B, BlocksOf(B, table, Series),
           NEW segment, FileOf(segment, B), NEW s \in Series
    PROVE  \/ SegmentLatest(segment, s) = Found(LastOf(Samples(table, s)))
           \/ SegmentLatest(segment, s) = Corrupt /\ Missed(segment, B, s)
<1> DEFINE N == Len(B)
           index == segment.index
           end == SeriesEnd(index, s)
           block == read_block(segment, index[end - 1])
           r == SegmentLatest(segment, s)
           all == Samples(table, s)
<1>0. r = IF end = 1 \/ index[end - 1].series # s THEN Found(<<>>)
          ELSE IF ~block.ok THEN Corrupt
          ELSE Found(<<block.samples[Len(block.samples)]>>)
  BY DEF SegmentLatest
<1>1. index = IndexOf(B)
  BY DEF FileOf
<1>2. index \in Seq(Entry) /\ Len(index) = N /\ \A i \in 1..N : index[i].series = B[i].series
  BY <1>1, IndexIs
<1>3. /\ end \in 1..N + 1 /\ \A j \in 1..end - 1 : ~(s < index[j].series)
      /\ end <= N => s < index[end].series
  BY <1>2, SeriesEndIs
<1>4. N \in Nat /\ s \in Nat /\ \A i \in 1..N : B[i].series \in Nat
  <2>1. B \in Seq(Block)
    BY DEF BlocksOf
  <2>2. N \in Nat /\ s \in Nat
    BY <2>1, LenProperties, ReadBounds
  <2> QED
    BY <2>2, BlockFacts
<1> HIDE DEF index, end
<1>5. \A j \in 1..N : B[j].series = s => j <= end - 1
  <2>1. TAKE j \in 1..N
  <2>2. HAVE B[j].series = s
  <2>3. SUFFICES ASSUME end <= j PROVE FALSE
    BY <1>3, <1>4
  <2>4. end \in 1..N
    BY <1>3, <1>4, <2>3
  <2>5. B[end].series <= B[j].series /\ s < B[end].series /\ B[end].series \in Nat
    BY <1>2, <1>3, <1>4, <2>3, <2>4, SeriesAscend
  <2> QED
    BY <1>4, <2>2, <2>5
<1>6. ASSUME end = 1 \/ index[end - 1].series # s PROVE \A j \in 1..N : B[j].series # s
  <2>1. TAKE j \in 1..N
  <2>2. SUFFICES ASSUME B[j].series = s PROVE FALSE
    OBVIOUS
  <2>3. j <= end - 1
    BY <1>5, <2>2
  <2>4. end - 1 \in 1..N /\ end - 1 \in 1..end - 1 /\ end # 1
    BY <1>3, <1>4, <2>3
  <2>5. B[j].series <= B[end - 1].series /\ ~(s < B[end - 1].series) /\ B[end - 1].series \in Nat
    BY <1>2, <1>3, <1>4, <2>3, <2>4, SeriesAscend
  <2>6. B[end - 1].series # s
    BY <1>2, <1>6, <2>4
  <2> QED
    BY <1>4, <2>2, <2>5, <2>6
<1>7. IsSamples(all, table, s, Times)
  BY SamplesAtIs DEF Samples
<1> HIDE DEF all
<1>8. CASE end = 1 \/ index[end - 1].series # s
  <2>1. \A t \in Times : table[<<s, t>>] = None
    BY <1>6, <1>8 DEF BlocksOf
  <2>2. all = <<>>
    BY <2>1, SamplesAtNone DEF all, Samples
  <2> QED
    BY <1>0, <1>8, <2>2 DEF LastOf, all
<1>9. CASE ~(end = 1 \/ index[end - 1].series # s)
  <2> DEFINE l == end - 1
             F == B[l].samples
             x == F[Len(F)]
  <2>1. l \in 1..N /\ B[l].series = s
    BY <1>2, <1>3, <1>4, <1>9
  <2>2. CASE ~block.ok
    BY <1>0, <1>9, <2>1, <2>2 DEF Missed, index
  <2>3. CASE block.ok
    <3>1. block = Found(F)
      <4>1. block = Found(F) \/ block = Corrupt
        BY <2>1, ReadBlockIs DEF index
      <4> QED
        BY <2>3, <4>1, Answers
    <3>2. r = Found(<<x>>)
      BY <1>0, <1>9, <2>3, <3>1, Answers
    <3>3. Len(F) \in 1..MaxSamples /\ MaxSamples \in Nat
      BY <2>1, ReadBounds DEF BlocksOf
    <3>4. Len(F) \in 1..Len(F)
      BY <3>3
    <3>5. /\ F \in Seq(Sample) /\ x \in Sample /\ x.timestamp \in Times
          /\ x.value = table[<<s, x.timestamp>>] /\ x.value # None
          /\ x.timestamp = last_timestamp(B[l])
      <4>1. F \in Seq(Sample)
        BY <2>1, BlockFacts
      <4>2. x \in Sample
        BY <3>4, <4>1, ElementOfSeq
      <4>3. \A m \in 1..Len(F) : /\ F[m].timestamp \in Times
                                 /\ F[m].value = table[<<s, F[m].timestamp>>] /\ F[m].value # None
        BY <2>1 DEF BlocksOf
      <4> QED
        BY <3>4, <4>1, <4>2, <4>3 DEF last_timestamp
    <3> HIDE DEF x, F
    <3>6. ASSUME NEW t \in Times, table[<<s, t>>] # None PROVE t <= x.timestamp
      <4>1. PICK j \in 1..N : /\ B[j].series = s
                              /\ \E m \in 1..Len(B[j].samples) : B[j].samples[m].timestamp = t
        BY <3>6 DEF BlocksOf
      <4>2. t <= last_timestamp(B[j]) /\ t \in Int /\ last_timestamp(B[j]) \in Int
        BY <4>1, BlockFacts
      <4>3. j <= l
        BY <1>5, <4>1
      <4>4. CASE j = l
        BY <3>5, <4>2, <4>4
      <4>5. CASE j # l
        <5>1. j < l
          BY <1>3, <4>3, <4>5
        <5>2. B[j].series < B[l].series \/ last_timestamp(B[j]) < first_timestamp(B[l])
          BY <2>1, <5>1 DEF BlocksOf
        <5>3. last_timestamp(B[j]) < first_timestamp(B[l])
          BY <1>4, <2>1, <4>1, <5>2
        <5>4. /\ first_timestamp(B[l]) <= last_timestamp(B[l])
              /\ first_timestamp(B[l]) \in Int /\ last_timestamp(B[l]) \in Int
          BY <2>1, BlockFacts
        <5> QED
          BY <3>5, <4>2, <5>3, <5>4
      <4> QED
        BY <4>4, <4>5
    <3>7. all # <<>> /\ all[Len(all)] = x
      <4>1. PICK i \in 1..Len(all) : all[i].timestamp = x.timestamp
        BY <1>7, <3>5 DEF IsSamples
      <4> DEFINE n == Len(all)
      <4>2. n \in Nat /\ n # 0 /\ n \in 1..n /\ \A j \in 1..n : all[j] \in Sample
        <5>1. all \in Seq(Sample)
          BY <1>7 DEF IsSamples
        <5>2. n \in Nat /\ \A j \in 1..n : all[j] \in Sample
          BY <5>1, LenProperties, ElementOfSeq
        <5> QED
          BY <4>1, <5>2
      <4>3. all[n].timestamp \in Times /\ table[<<s, all[n].timestamp>>] # None
            /\ all[n].value = table[<<s, all[n].timestamp>>]
        BY <1>7, <4>2 DEF IsSamples
      <4>4. all[n].timestamp <= x.timestamp
        BY <3>6, <4>3
      <4>5. \A y \in Sample : y.timestamp \in Int
                             /\ y = [timestamp |-> y.timestamp, value |-> y.value]
        BY DEF Sample
      <4>6. i = n
        <5>1. i < n => all[i].timestamp < all[n].timestamp
          BY <1>7, <4>1, <4>2 DEF IsSamples
        <5>2. all[i].timestamp \in Int /\ all[n].timestamp \in Int
          BY <4>1, <4>2, <4>5
        <5> QED
          BY <4>1, <4>2, <4>4, <5>1, <5>2
      <4>7. all[n].timestamp = x.timestamp /\ all[n].value = x.value
        BY <3>5, <4>1, <4>3, <4>6
      <4>8. all[n] = x
        BY <3>5, <4>2, <4>5, <4>7
      <4>9. all # <<>>
        BY <4>2, EmptySeq
      <4> QED
        BY <4>8, <4>9
    <3>8. LastOf(all) = <<x>>
      BY <3>7 DEF LastOf
    <3> QED
      BY <3>2, <3>8 DEF all
  <2> QED
    BY <2>2, <2>3
<1> QED
  BY <1>8, <1>9

\* G has the samples of F in the interval, in order.
IsBetween(G, F, start, end) ==
    /\ G \in Seq(Sample)
    /\ \A i, j \in 1..Len(G) : i < j => G[i].timestamp < G[j].timestamp
    /\ \A i \in 1..Len(G) : /\ \E m \in 1..Len(F) : G[i] = F[m]
                            /\ start <= G[i].timestamp /\ G[i].timestamp < end
    /\ \A m \in 1..Len(F) : start <= F[m].timestamp /\ F[m].timestamp < end =>
          \E i \in 1..Len(G) : G[i] = F[m]

\* The samples of a block in an interval.
LEMMA SamplesBetweenIs ==
    ASSUME NEW F \in Seq(Sample), NEW start \in Int, NEW end \in Int, start <= end,
           \A i, j \in 1..Len(F) : i < j => F[i].timestamp < F[j].timestamp
    PROVE  IsBetween(SamplesBetween(F, start, end), F, start, end)
<1> DEFINE n == Len(F)
           a == TimeBound(F, start)
           b == TimeBound(F, end)
           G == SubSeq(F, a, b - 1)
<1>1. n \in Nat /\ \A m \in 1..n : F[m] \in Sample /\ F[m].timestamp \in Int
  <2>1. \A x \in Sample : x.timestamp \in Int
    BY DEF Sample
  <2>2. n \in Nat /\ \A m \in 1..n : F[m] \in Sample
    BY LenProperties, ElementOfSeq
  <2> QED
    BY <2>1, <2>2
<1>2. /\ a \in 1..n + 1 /\ \A j \in 1..a - 1 : F[j].timestamp < start
      /\ a <= n => ~(F[a].timestamp < start)
  BY TimeBoundIs
<1>3. /\ b \in 1..n + 1 /\ \A j \in 1..b - 1 : F[j].timestamp < end
      /\ b <= n => ~(F[b].timestamp < end)
  BY TimeBoundIs
<1>4. SamplesBetween(F, start, end) = G
  BY DEF SamplesBetween
<1>5. \A i, j \in 1..n : i < j => F[i].timestamp < F[j].timestamp
  OBVIOUS
<1> HIDE DEF n, a, b
<1>6. a <= b
  <2>1. SUFFICES ASSUME b < a PROVE FALSE
    BY <1>2, <1>3
  <2>2. b \in 1..a - 1 /\ b <= n /\ b \in 1..n
    BY <1>1, <1>2, <1>3, <2>1
  <2>3. F[b].timestamp < start /\ ~(F[b].timestamp < end) /\ F[b].timestamp \in Int
    BY <1>1, <1>2, <1>3, <2>2
  <2> QED
    BY <2>3
<1>7. /\ G \in Seq(Sample) /\ Len(G) = b - a
      /\ \A i \in 1..b - a : G[i] = F[a + i - 1] /\ a + i - 1 \in 1..n
  <2>1. a \in Int /\ b - 1 \in Int /\ \A i \in a..b - 1 : i \in 1..n /\ F[i] \in Sample
    BY <1>1, <1>2, <1>3
  <2>2. /\ G \in Seq(Sample)
        /\ Len(G) = IF a <= b - 1 THEN b - 1 - a + 1 ELSE 0
        /\ \A i \in 1..b - 1 - a + 1 : G[i] = F[a + i - 1]
    BY <2>1, SubSeqProperties
  <2> HIDE DEF G
  <2>3. b - 1 - a + 1 = b - a /\ Len(G) = b - a
    BY <1>2, <1>3, <1>6, <2>2
  <2>4. \A i \in 1..b - a : a + i - 1 \in 1..n
    BY <1>1, <1>2, <1>3
  <2> QED
    BY <2>2, <2>3, <2>4
<1> HIDE DEF G
<1>8. ASSUME NEW i \in 1..Len(G), NEW j \in 1..Len(G), i < j PROVE G[i].timestamp < G[j].timestamp
  <2>1. /\ G[i] = F[a + i - 1] /\ a + i - 1 \in 1..n
        /\ G[j] = F[a + j - 1] /\ a + j - 1 \in 1..n
    BY <1>7
  <2>2. a + i - 1 < a + j - 1
    BY <1>2, <1>3, <1>7, <1>8
  <2> QED
    BY <1>5, <2>1, <2>2
<1>9. ASSUME NEW i \in 1..Len(G)
      PROVE  /\ \E m \in 1..n : G[i] = F[m]
             /\ start <= G[i].timestamp /\ G[i].timestamp < end
  <2> DEFINE m == a + i - 1
  <2>1. m \in 1..n /\ G[i] = F[m]
    BY <1>7
  <2>2. a <= m /\ a \in 1..n /\ m \in 1..b - 1 /\ i \in Int
    BY <1>1, <1>2, <1>3, <1>7
  <2> HIDE DEF m
  <2>3. F[m].timestamp < end
    BY <1>3, <2>2
  <2>4. F[m].timestamp \in Int /\ F[a].timestamp \in Int /\ start <= F[a].timestamp
    BY <1>1, <1>2, <2>1, <2>2, SMTT(30)
  <2>5. F[a].timestamp <= F[m].timestamp
    <3>1. a = m \/ a < m
      BY <2>1, <2>2
    <3> QED
      BY <1>5, <2>1, <2>2, <2>4, <3>1
  <2> QED
    BY <2>1, <2>3, <2>4, <2>5
<1>10. ASSUME NEW m \in 1..n, start <= F[m].timestamp, F[m].timestamp < end
       PROVE  \E i \in 1..Len(G) : G[i] = F[m]
  <2>0. F[m].timestamp \in Int
    BY <1>1
  <2>1. a <= m
    <3>1. SUFFICES ASSUME m < a PROVE FALSE
      BY <1>1, <1>2
    <3>2. m \in 1..a - 1
      BY <1>1, <1>2, <3>1
    <3> QED
      BY <1>2, <1>10, <2>0, <3>2
  <2>2. m < b
    <3>1. SUFFICES ASSUME b <= m PROVE FALSE
      BY <1>1, <1>3
    <3>2. b \in 1..n /\ (b = m \/ b < m)
      BY <1>1, <1>3, <3>1
    <3>3. ~(F[b].timestamp < end) /\ F[b].timestamp \in Int /\ (b < m => F[b].timestamp < F[m].timestamp)
      BY <1>1, <1>3, <1>5, <3>2
    <3> QED
      BY <1>10, <2>0, <3>2, <3>3
  <2> DEFINE i == m - a + 1
  <2>3. i \in 1..b - a /\ a + i - 1 = m
    BY <1>1, <1>2, <1>3, <2>1, <2>2
  <2> HIDE DEF i
  <2>4. i \in 1..Len(G) /\ G[i] = F[a + i - 1]
    BY <1>7, <2>3
  <2> QED
    BY <2>3, <2>4
<1> QED
  BY <1>4, <1>7, <1>8, <1>9, <1>10 DEF n, IsBetween

\* range: the samples of the series in the interval, unless a block is lost.
LEMMA SegmentRangeIs ==
    ASSUME NEW table \in Tables, NEW B, BlocksOf(B, table, Series),
           NEW segment, FileOf(segment, B), NEW s \in Series,
           NEW start \in Int, NEW end \in Int, start <= end
    PROVE  \/ SegmentRange(segment, s, start, end)
                = Found(SamplesAt(table, s, {t \in Times : start <= t /\ t < end}))
           \/ SegmentRange(segment, s, start, end) = Corrupt /\ Missed(segment, B, s)
<1> DEFINE N == Len(B)
           index == segment.index
           P == RangeBlocks(index, s, start, end)
           order == Ordered(P)
           c == Cardinality(P)
           read == [n \in DOMAIN order |-> read_block(segment, index[order[n]])]
           parts == [n \in DOMAIN read |-> SamplesBetween(read[n].samples, start, end)]
           F == FlattenSeq(parts)
           times == {t \in Times : start <= t /\ t < end}
           r == SegmentRange(segment, s, start, end)
<1>0. r = IF start = end THEN Found(<<>>)
          ELSE IF \E n \in DOMAIN read : ~read[n].ok THEN Corrupt
          ELSE Found(F)
  BY DEF SegmentRange
<1>1. index = IndexOf(B)
  BY DEF FileOf
<1>2. \A i \in 1..N : /\ index[i].first_timestamp = first_timestamp(B[i])
                      /\ index[i].last_timestamp = last_timestamp(B[i])
  BY <1>1, IndexIs
<1>3. Run(index, s) = {i \in 1..N : B[i].series = s}
  BY <1>1, RunIs
<1>4. \A i : i \in P <=> /\ i \in 1..N /\ B[i].series = s
                         /\ last_timestamp(B[i]) >= start /\ first_timestamp(B[i]) < end
  BY <1>2, <1>3 DEF RangeBlocks
<1>5. N \in Nat
  <2>1. B \in Seq(Block)
    BY DEF BlocksOf
  <2> QED
    BY <2>1, LenProperties
<1> HIDE DEF P
<1>6. P \in SUBSET Int /\ IsFiniteSet(P)
  <2>1. P \in SUBSET (1..N) /\ IsFiniteSet(1..N)
    BY <1>4, <1>5, FS_Interval
  <2>2. P \in SUBSET Int
    BY <1>5, <2>1
  <2> QED
    BY <2>1, <2>2, FS_Subset
<1>7. /\ c \in Nat /\ Ascends(order, c) /\ order \in [1..c -> P] /\ DOMAIN order = 1..c
      /\ \A x \in P : \E i \in 1..c : order[i] = x
  BY <1>6, OrderedLists
<1> HIDE DEF order, c
<1>8. \A n \in 1..c : read[n] = read_block(segment, index[order[n]]) /\ order[n] \in P
  BY <1>7
<1>9. DOMAIN read = 1..c
  BY <1>7
<1> HIDE DEF read
<1>10. CASE start = end
  <2>1. times = {}
    <3>1. \A t \in Times : t \in Int
      BY ReadBounds
    <3> QED
      BY <1>10, <3>1
  <2>2. SamplesAt(table, s, times) = <<>>
    BY <2>1, SamplesAtNone
  <2> QED
    BY <1>0, <1>10, <2>2
<1>11. CASE start # end /\ \E n \in 1..c : ~read[n].ok
  <2>1. PICK n \in 1..c : ~read[n].ok
    BY <1>11
  <2>2. order[n] \in 1..N /\ B[order[n]].series = s
    BY <1>4, <1>8
  <2>3. Missed(segment, B, s)
    BY <1>8, <2>1, <2>2 DEF Missed
  <2> QED
    BY <1>0, <1>9, <1>11, <2>3
<1>12. CASE start # end /\ \A n \in 1..c : read[n].ok
  <2>1. r = Found(F)
    BY <1>0, <1>9, <1>12
  <2>2. ASSUME NEW n \in 1..c
        PROVE  /\ order[n] \in 1..N /\ B[order[n]].series = s
               /\ read[n].samples = B[order[n]].samples
    <3>1. order[n] \in 1..N /\ B[order[n]].series = s
      BY <1>4, <1>8
    <3>2. read[n] = Found(B[order[n]].samples) \/ read[n] = Corrupt
      BY <1>8, <3>1, ReadBlockIs
    <3>3. read[n] = Found(B[order[n]].samples)
      BY <1>12, <3>2, Answers
    <3> QED
      BY <3>1, <3>3, Answers
  <2>3. parts = [n \in 1..c |-> SamplesBetween(read[n].samples, start, end)]
    BY <1>9
  <2>4. \A n \in 1..c : parts[n] = SamplesBetween(B[order[n]].samples, start, end)
    BY <2>2, <2>3
  <2>5. ASSUME NEW n \in 1..c
        PROVE  IsBetween(parts[n], B[order[n]].samples, start, end)
    <3>1. order[n] \in 1..N
      BY <2>2
    <3> DEFINE H == B[order[n]].samples
    <3>2. H \in Seq(Sample) /\ \A i, j \in 1..Len(H) : i < j => H[i].timestamp < H[j].timestamp
      BY <3>1, BlockFacts DEF BlocksOf
    <3>3. parts[n] = SamplesBetween(H, start, end)
      BY <2>4
    <3> HIDE DEF H, parts
    <3> QED
      BY <3>2, <3>3, SamplesBetweenIs DEF H
  <2> HIDE DEF parts
  <2>6. parts \in Seq(Seq(Sample)) /\ Len(parts) = c
    <3>1. \A n \in 1..c : parts[n] \in Seq(Sample)
      BY <2>5 DEF IsBetween
    <3>2. parts = [n \in 1..c |-> parts[n]]
      BY <2>3
    <3>3. parts \in [1..c -> Seq(Sample)]
      BY <3>1, <3>2
    <3> QED
      BY <1>7, <3>3
  <2>7. F \in Seq(Sample) /\ \E g, k : Places(parts, c, F, g, k)
    BY <2>6, Flattened
  <2>8. PICK g, k : Places(parts, c, F, g, k)
    BY <2>7
  <2> HIDE DEF F
  <2>9. ASSUME NEW p \in 1..Len(F)
        PROVE  /\ g[p] \in 1..c /\ k[p] \in 1..Len(parts[g[p]]) /\ F[p] = parts[g[p]][k[p]]
               /\ order[g[p]] \in 1..N /\ B[order[g[p]]].series = s
               /\ \E m \in 1..Len(B[order[g[p]]].samples) : F[p] = B[order[g[p]]].samples[m]
               /\ start <= F[p].timestamp /\ F[p].timestamp < end
    <3>1. g[p] \in 1..c /\ k[p] \in 1..Len(parts[g[p]]) /\ F[p] = parts[g[p]][k[p]]
      BY <2>8 DEF Places
    <3>2. IsBetween(parts[g[p]], B[order[g[p]]].samples, start, end)
      BY <2>5, <3>1
    <3>3. order[g[p]] \in 1..N /\ B[order[g[p]]].series = s
      BY <2>2, <3>1
    <3> QED
      BY <3>1, <3>2, <3>3 DEF IsBetween
  <2>10. ASSUME NEW p \in 1..Len(F), NEW q \in 1..Len(F), p < q
         PROVE  F[p].timestamp < F[q].timestamp
    <3>1. g[p] < g[q] \/ (g[p] = g[q] /\ k[p] < k[q])
      BY <2>8, <2>10 DEF Places
    <3>2. CASE g[p] < g[q]
      <4> DEFINE i == order[g[p]]
                 j == order[g[q]]
      <4>1. i < j
        BY <1>7, <2>9, <3>2 DEF Ascends
      <4>2. /\ i \in 1..N /\ B[i].series = s /\ \E m \in 1..Len(B[i].samples) : F[p] = B[i].samples[m]
            /\ j \in 1..N /\ B[j].series = s /\ \E m \in 1..Len(B[j].samples) : F[q] = B[j].samples[m]
        BY <2>9
      <4> HIDE DEF i, j
      <4>3. F[p].timestamp \in Int /\ F[p].timestamp <= last_timestamp(B[i]) /\ last_timestamp(B[i]) \in Int
        BY <4>2, BlockFacts
      <4>4. F[q].timestamp \in Int /\ first_timestamp(B[j]) <= F[q].timestamp /\ first_timestamp(B[j]) \in Int
        BY <4>2, BlockFacts
      <4>5. B[i].series < B[j].series \/ last_timestamp(B[i]) < first_timestamp(B[j])
        BY <4>1, <4>2 DEF BlocksOf
      <4>6. last_timestamp(B[i]) < first_timestamp(B[j])
        BY <4>2, <4>5, ReadBounds
      <4> QED
        BY <4>3, <4>4, <4>6
    <3>3. CASE g[p] = g[q] /\ k[p] < k[q]
      <4> DEFINE G == parts[g[p]]
      <4>1. \A i, j \in 1..Len(G) : i < j => G[i].timestamp < G[j].timestamp
        BY <2>5, <2>9 DEF IsBetween
      <4>2. /\ k[p] \in 1..Len(G) /\ k[q] \in 1..Len(G) /\ F[p] = G[k[p]] /\ F[q] = G[k[q]]
        BY <2>9, <3>3
      <4> HIDE DEF G
      <4> QED
        BY <3>3, <4>1, <4>2
    <3> QED
      BY <3>1, <3>2, <3>3
  <2>11. ASSUME NEW p \in 1..Len(F)
         PROVE  /\ F[p].timestamp \in times
                /\ F[p].value = table[<<s, F[p].timestamp>>] /\ F[p].value # None
    <3> DEFINE i == order[g[p]]
    <3>1. i \in 1..N /\ B[i].series = s
      BY <2>9
    <3>2. PICK m \in 1..Len(B[i].samples) : F[p] = B[i].samples[m]
      BY <2>9
    <3>3. /\ B[i].samples[m].timestamp \in Times
          /\ B[i].samples[m].value = table[<<B[i].series, B[i].samples[m].timestamp>>]
          /\ B[i].samples[m].value # None
      BY <3>1, <3>2 DEF BlocksOf
    <3> HIDE DEF i
    <3> QED
      BY <2>9, <3>1, <3>2, <3>3
  <2>12. ASSUME NEW t \in times, table[<<s, t>>] # None
         PROVE  \E p \in 1..Len(F) : F[p].timestamp = t
    <3>1. t \in Times /\ start <= t /\ t < end /\ t \in Int
      BY ReadBounds
    <3>2. PICK j \in 1..N : /\ B[j].series = s
                            /\ \E m \in 1..Len(B[j].samples) : B[j].samples[m].timestamp = t
      BY <2>12, <3>1 DEF BlocksOf
    <3>3. PICK m \in 1..Len(B[j].samples) : B[j].samples[m].timestamp = t
      BY <3>2
    <3>4. /\ first_timestamp(B[j]) <= t /\ t <= last_timestamp(B[j])
          /\ first_timestamp(B[j]) \in Int /\ last_timestamp(B[j]) \in Int
      BY <3>3, BlockFacts
    <3>5. j \in P
      BY <1>4, <3>1, <3>2, <3>4
    <3>6. PICK n \in 1..c : order[n] = j
      BY <1>7, <3>5
    <3>7. PICK i \in 1..Len(parts[n]) : parts[n][i] = B[j].samples[m]
      <4>1. start <= B[j].samples[m].timestamp /\ B[j].samples[m].timestamp < end
        BY <3>1, <3>3
      <4> QED
        BY <2>5, <3>3, <3>6, <4>1 DEF IsBetween
    <3>8. PICK p \in 1..Len(F) : g[p] = n /\ k[p] = i
      BY <2>8 DEF Places
    <3> QED
      BY <2>9, <3>3, <3>7, <3>8
  <2>13. IsSamples(F, table, s, times)
    BY <2>7, <2>10, <2>11, <2>12 DEF IsSamples
  <2>14. F = SamplesAt(table, s, times)
    <3>1. times \in SUBSET Times
      OBVIOUS
    <3> HIDE DEF times
    <3> QED
      BY <2>13, <3>1, SamplesAtOnly
  <2> QED
    BY <2>1, <2>14
<1> QED
  BY <1>10, <1>11, <1>12

-----------------------------------------------------------------------------
(* Tables on top of one another.                                           *)

\* w has at every key the value of the uppermost of the n tables that has one.
Layers(stack, n, w) ==
    \A key \in Keys :
        \/ w[key] = None /\ \A i \in 1..n : stack[i][key] = None
        \/ /\ w[key] # None
           /\ \E i \in 1..n : /\ stack[i][key] = w[key]
                              /\ \A j \in 1..n : i < j => stack[j][key] = None

LEMMA LayersExist ==
    ASSUME NEW n \in Nat, NEW stack \in [1..n -> Tables]
    PROVE  \E w \in Tables : Layers(stack, n, w)
<1> DEFINE hits(key) == {i \in 1..n : stack[i][key] # None}
           w == [key \in Keys |-> IF hits(key) = {} THEN None ELSE stack[Max(hits(key))][key]]
<1>1. ASSUME NEW key \in Keys
      PROVE  /\ w[key] \in Nat
             /\ \/ w[key] = None /\ \A i \in 1..n : stack[i][key] = None
                \/ /\ w[key] # None
                   /\ \E i \in 1..n : /\ stack[i][key] = w[key]
                                      /\ \A j \in 1..n : i < j => stack[j][key] = None
  <2>1. CASE hits(key) = {}
    BY <2>1 DEF None
  <2>2. CASE hits(key) # {}
    <3> DEFINE m == Max(hits(key))
    <3>1. hits(key) \in SUBSET (1..n)
      OBVIOUS
    <3>2. m \in hits(key) /\ \A y \in hits(key) : y <= m
      <4> HIDE DEF hits
      <4> QED
        BY <2>2, <3>1, GreatestOfBounded
    <3>3. w[key] = stack[m][key]
      BY <2>2
    <3> HIDE DEF m, w
    <3>4. m \in 1..n /\ stack[m][key] # None
      BY <3>2
    <3>5. stack[m][key] \in Nat
      BY <3>4 DEF Tables
    <3>6. \A j \in 1..n : m < j => stack[j][key] = None
      BY <3>2, <3>4
    <3> QED
      BY <3>3, <3>4, <3>5, <3>6
  <2> QED
    BY <2>1, <2>2
<1> HIDE DEF hits
<1>2. w \in Tables
  <2>1. w \in [Keys -> Nat]
    BY <1>1
  <2> QED
    BY <2>1 DEF Tables
<1> HIDE DEF w
<1>3. Layers(stack, n, w)
  BY <1>1 DEF Layers
<1> QED
  BY <1>2, <1>3

\* The sample at t as a sequence of none or one.
LEMMA OneSample ==
    ASSUME NEW table \in Tables, NEW s \in Series, NEW t \in Int
    PROVE  SamplesAt(table, s, {t} \cap Times)
             = IF t \in Times /\ table[<<s, t>>] # None
               THEN <<[timestamp |-> t, value |-> table[<<s, t>>]]>> ELSE <<>>
<1>1. CASE t \in Times /\ table[<<s, t>>] # None
  <2> DEFINE x == [timestamp |-> t, value |-> table[<<s, t>>]]
  <2>1. x.timestamp = t /\ x.value = table[<<s, t>>] /\ x \in Sample
    BY <1>1 DEF Sample, Tables, Keys
  <2> HIDE DEF x
  <2>2. SamplesAt(table, s, {t} \cap Times) = <<x>>
    BY <1>1, <2>1, SamplesAtOne
  <2> QED
    BY <1>1, <2>2 DEF x
<1>2. CASE ~(t \in Times /\ table[<<s, t>>] # None)
  <2>1. {t} \cap Times \in SUBSET Times /\ \A x \in {t} \cap Times : table[<<s, x>>] = None
    BY <1>2
  <2>2. SamplesAt(table, s, {t} \cap Times) = <<>>
    BY <2>1, SamplesAtNone
  <2> QED
    BY <1>2, <2>2
<1> QED
  BY <1>1, <1>2

\* The newest sample of a table.
LEMMA LastIs ==
    ASSUME NEW table \in Tables, NEW s \in Series
    PROVE  \/ LastOf(Samples(table, s)) = <<>> /\ \A t \in Times : table[<<s, t>>] = None
           \/ \E t \in Times :
                 /\ LastOf(Samples(table, s)) = <<[timestamp |-> t, value |-> table[<<s, t>>]]>>
                 /\ table[<<s, t>>] # None
                 /\ \A u \in Times : table[<<s, u>>] # None => u <= t
<1> DEFINE F == Samples(table, s)
           n == Len(F)
<1>1. IsSamples(F, table, s, Times)
  BY SamplesAtIs DEF Samples
<1> HIDE DEF F
<1>2. F \in Seq(Sample)
  BY <1>1 DEF IsSamples
<1>3. n \in Nat /\ \A i \in 1..n : F[i] \in Sample
  BY <1>2, LenProperties, ElementOfSeq
<1>4. \A y \in Sample : y.timestamp \in Int
                       /\ y = [timestamp |-> y.timestamp, value |-> y.value]
  BY DEF Sample
<1>5. CASE F = <<>>
  <2>1. n = 0
    BY <1>5, EmptySeq
  <2>2. \A t \in Times : table[<<s, t>>] = None
    BY <1>1, <2>1 DEF IsSamples
  <2> QED
    BY <1>5, <2>2 DEF LastOf, F
<1>6. CASE F # <<>>
  <2>1. n # 0 /\ n \in 1..n
    BY <1>2, <1>3, <1>6, EmptySeq
  <2> DEFINE t == F[n].timestamp
  <2>2. t \in Times /\ F[n].value = table[<<s, t>>] /\ F[n].value # None
    BY <1>1, <2>1 DEF IsSamples
  <2>3. F[n] = [timestamp |-> t, value |-> table[<<s, t>>]]
    BY <1>3, <1>4, <2>1, <2>2
  <2>4. ASSUME NEW u \in Times, table[<<s, u>>] # None PROVE u <= t
    <3>1. PICK i \in 1..n : F[i].timestamp = u
      BY <1>1, <2>4 DEF IsSamples
    <3>2. i < n => F[i].timestamp < t
      BY <1>1, <2>1 DEF IsSamples
    <3>3. F[i].timestamp \in Int /\ t \in Int
      BY <1>3, <1>4, <2>1, <3>1
    <3> QED
      BY <1>3, <3>1, <3>2, <3>3
  <2>5. LastOf(F) = <<[timestamp |-> t, value |-> table[<<s, t>>]]>>
    BY <1>6, <2>3 DEF LastOf
  <2> HIDE DEF t
  <2> QED
    BY <2>2, <2>4, <2>5 DEF F
<1> QED
  BY <1>5, <1>6

\* The times of some samples, and those at which a table has a sample.
TimesOf(F) == {F[p].timestamp : p \in DOMAIN F}
StoredTimes(table, s, times) == {t \in times : table[<<s, t>>] # None}

\* The samples of each table.
PartsOf(parts, stack, n, s, times) ==
    /\ parts \in Seq(Seq(Sample)) /\ Len(parts) = n
    /\ \A i \in 1..n : IsSamples(parts[i], stack[i], s, times)

\* A std::map that is filled with the samples of one table after the other holds
\* the value of the uppermost.
LEMMA AssignedIs ==
    ASSUME NEW n \in Nat, NEW stack \in [1..n -> Tables], NEW w \in Tables, Layers(stack, n, w),
           NEW s \in Series, NEW times \in SUBSET Times,
           NEW parts, PartsOf(parts, stack, n, s, times)
    PROVE  /\ \A t \in times : Assigned(FlattenSeq(parts), t) = w[<<s, t>>]
           /\ TimesOf(FlattenSeq(parts)) = StoredTimes(w, s, times)
<1> DEFINE F == FlattenSeq(parts)
<1>1. F \in Seq(Sample) /\ \E g, k : Places(parts, n, F, g, k)
  BY Flattened DEF PartsOf
<1>2. PICK g, k : Places(parts, n, F, g, k)
  BY <1>1
<1> HIDE DEF F
<1>3. Len(F) \in Nat /\ DOMAIN F = 1..Len(F)
  BY <1>1, LenProperties
<1>4. ASSUME NEW p \in 1..Len(F)
      PROVE  /\ g[p] \in 1..n /\ F[p].timestamp \in times
             /\ F[p].value = stack[g[p]][<<s, F[p].timestamp>>] /\ F[p].value # None
  <2>1. g[p] \in 1..n /\ k[p] \in 1..Len(parts[g[p]]) /\ F[p] = parts[g[p]][k[p]]
    BY <1>2 DEF Places
  <2>2. IsSamples(parts[g[p]], stack[g[p]], s, times)
    BY <2>1 DEF PartsOf
  <2> QED
    BY <2>1, <2>2 DEF IsSamples
<1>5. ASSUME NEW t \in times, NEW i \in 1..n, stack[i][<<s, t>>] # None
      PROVE  \E p \in 1..Len(F) : g[p] = i /\ F[p].timestamp = t
  <2>1. IsSamples(parts[i], stack[i], s, times)
    BY DEF PartsOf
  <2>2. PICK m \in 1..Len(parts[i]) : parts[i][m].timestamp = t
    BY <1>5, <2>1 DEF IsSamples
  <2>3. PICK p \in 1..Len(F) : g[p] = i /\ k[p] = m
    BY <1>2 DEF Places
  <2>4. F[p] = parts[g[p]][k[p]]
    BY <1>2 DEF Places
  <2> QED
    BY <2>2, <2>3, <2>4
<1>6. \A t \in times : <<s, t>> \in Keys
  BY DEF Keys
<1>7. ASSUME NEW t \in times
      PROVE  (\E p \in 1..Len(F) : F[p].timestamp = t) <=> w[<<s, t>>] # None
  <2>1. ASSUME NEW p \in 1..Len(F), F[p].timestamp = t PROVE w[<<s, t>>] # None
    <3>1. g[p] \in 1..n /\ stack[g[p]][<<s, t>>] # None
      BY <1>4, <2>1
    <3> QED
      BY <1>6, <3>1 DEF Layers
  <2>2. ASSUME w[<<s, t>>] # None PROVE \E p \in 1..Len(F) : F[p].timestamp = t
    <3>1. PICK i \in 1..n : stack[i][<<s, t>>] = w[<<s, t>>]
      BY <1>6, <2>2 DEF Layers
    <3> QED
      BY <1>5, <2>2, <3>1
  <2> QED
    BY <2>1, <2>2
<1>8. ASSUME NEW t \in times PROVE Assigned(F, t) = w[<<s, t>>]
  <2> DEFINE hits == {p \in DOMAIN F : F[p].timestamp = t}
  <2>1. Assigned(F, t) = IF hits = {} THEN None ELSE F[Max(hits)].value
    BY DEF Assigned
  <2>2. CASE hits = {}
    <3>1. ~\E p \in 1..Len(F) : F[p].timestamp = t
      BY <1>3, <2>2
    <3> QED
      BY <1>7, <2>1, <2>2, <3>1
  <2>3. CASE hits # {}
    <3> DEFINE p == Max(hits)
    <3>1. hits \in SUBSET (1..Len(F))
      BY <1>3
    <3>2. p \in hits /\ \A y \in hits : y <= p
      <4> HIDE DEF hits
      <4> QED
        BY <1>3, <2>3, <3>1, GreatestOfBounded
    <3>3. Assigned(F, t) = F[p].value
      BY <2>1, <2>3
    <3> HIDE DEF p
    <3>4. p \in 1..Len(F) /\ F[p].timestamp = t /\ \A q \in 1..Len(F) : F[q].timestamp = t => q <= p
      BY <1>3, <3>2
    <3>5. g[p] \in 1..n /\ F[p].value = stack[g[p]][<<s, t>>] /\ F[p].value # None
      BY <1>4, <3>4
    <3>6. w[<<s, t>>] # None
      BY <1>7, <3>4
    <3>7. PICK i \in 1..n : /\ stack[i][<<s, t>>] = w[<<s, t>>]
                            /\ \A j \in 1..n : i < j => stack[j][<<s, t>>] = None
      BY <1>6, <3>6 DEF Layers
    <3>8. PICK q \in 1..Len(F) : g[q] = i /\ F[q].timestamp = t
      BY <1>5, <3>6, <3>7
    <3>9. q <= p
      BY <3>4, <3>8
    <3>10. g[q] <= g[p]
      <4>1. q < p => g[q] < g[p] \/ g[q] = g[p]
        BY <1>2, <3>4 DEF Places
      <4>2. g[q] \in 1..n
        BY <1>4
      <4> QED
        BY <3>4, <3>5, <3>9, <4>1, <4>2
    <3>11. ~(i < g[p])
      BY <3>5, <3>7
    <3>12. g[p] = i
      BY <3>5, <3>8, <3>10, <3>11
    <3> QED
      BY <3>3, <3>5, <3>7, <3>12
  <2> QED
    BY <2>2, <2>3
<1>9. TimesOf(F) = StoredTimes(w, s, times)
  BY <1>3, <1>4, <1>7 DEF TimesOf, StoredTimes
<1> QED
  BY <1>8, <1>9 DEF F

\* range's merge: the samples of the uppermost tables, in order.
LEMMA MergedIs ==
    ASSUME NEW n \in Nat, NEW stack \in [1..n -> Tables], NEW w \in Tables, Layers(stack, n, w),
           NEW s \in Series, NEW times \in SUBSET Times,
           NEW parts, PartsOf(parts, stack, n, s, times)
    PROVE  Merged(FlattenSeq(parts)) = SamplesAt(w, s, times)
<1> DEFINE F == FlattenSeq(parts)
           S == StoredTimes(w, s, times)
           order == Ordered(S)
<1>1. /\ \A t \in times : Assigned(F, t) = w[<<s, t>>]
      /\ TimesOf(F) = S
  BY AssignedIs, ZenonT(60)
<1> HIDE DEF F
<1>2. Merged(F) = [i \in DOMAIN order |-> [timestamp |-> order[i], value |-> Assigned(F, order[i])]]
  BY <1>1 DEF Merged, TimesOf
<1>3. SamplesAt(w, s, times)
        = [i \in DOMAIN order |-> [timestamp |-> order[i], value |-> w[<<s, order[i]>>]]]
  BY DEF SamplesAt, StoredTimes
<1>4. S \in SUBSET Int /\ IsFiniteSet(S) /\ S \subseteq times
  BY ReadBounds, FS_Subset DEF StoredTimes
<1> HIDE DEF S
<1>5. order \in [1..Cardinality(S) -> S]
  BY <1>4, OrderedLists
<1>6. \A i \in DOMAIN order : Assigned(F, order[i]) = w[<<s, order[i]>>]
  BY <1>1, <1>4, <1>5
<1> HIDE DEF order
<1>7. Merged(F) = SamplesAt(w, s, times)
  BY <1>2, <1>3, <1>6
<1> QED
  BY <1>7 DEF F

-----------------------------------------------------------------------------
(* latest's loop.                                                          *)

\* What a query for the newest sample may answer.
Single(answer) ==
    \/ answer = Corrupt
    \/ answer = Found(<<>>)
    \/ \E x \in Sample : answer = Found(<<x>>)

\* r is the answer with the greatest timestamp, of equal ones the last, among the
\* first n; it is an error if one of them is.
Best(c, n, r) ==
    \/ r = Corrupt /\ \E j \in 1..n : c[j] = Corrupt
    \/ r = Found(<<>>) /\ \A j \in 1..n : c[j] = Found(<<>>)
    \/ \E i \in 1..n :
          /\ r = c[i] /\ c[i].ok /\ c[i].samples # <<>>
          /\ \A j \in 1..n :
                \/ c[j] = Found(<<>>)
                \/ /\ c[j].ok /\ c[j].samples[1].timestamp <= c[i].samples[1].timestamp
                   /\ i < j => c[j].samples[1].timestamp < c[i].samples[1].timestamp

LEMMA SingleFacts ==
    ASSUME NEW a, Single(a)
    PROVE  /\ a.ok \in BOOLEAN /\ (~a.ok => a = Corrupt)
           /\ a.ok /\ a.samples = <<>> => a = Found(<<>>)
           /\ a.ok /\ a.samples # <<>> => a.samples[1].timestamp \in Int
           /\ a = Found(<<>>) => a.samples = <<>>
<1>1. CASE a = Corrupt
  BY <1>1 DEF Corrupt, Found
<1>2. CASE a = Found(<<>>)
  BY <1>2 DEF Found
<1>3. ASSUME NEW x \in Sample, a = Found(<<x>>)
      PROVE  a.ok = TRUE /\ a.samples = <<x>> /\ <<x>> # <<>> /\ a.samples[1].timestamp \in Int
  BY <1>3 DEF Found, Sample
<1> QED
  BY <1>1, <1>2, <1>3 DEF Single, Found

LEMMA LaterStep ==
    ASSUME NEW n \in Nat, NEW c, \A j \in 1..n + 1 : Single(c[j]), NEW r, Best(c, n, r)
    PROVE  Best(c, n + 1, Later(r, c[n + 1]))
<1> DEFINE d == c[n + 1]
<1>0. n + 1 \in 1..n + 1 /\ \A j \in 1..n : j \in 1..n + 1
  OBVIOUS
<1>1. Single(d) /\ \A j \in 1..n : Single(c[j])
  BY <1>0
<1>2. \A j \in 1..n + 1 : j = n + 1 \/ j \in 1..n
  OBVIOUS
<1>3. CASE r = Corrupt /\ \E j \in 1..n : c[j] = Corrupt
  <2>1. Later(r, d) = Corrupt
    BY <1>3 DEF Later, Corrupt
  <2> QED
    BY <1>0, <1>3, <2>1 DEF Best
<1>4. CASE r = Found(<<>>) /\ \A j \in 1..n : c[j] = Found(<<>>)
  <2>1. r.ok /\ r.samples = <<>>
    BY <1>4 DEF Found
  <2>2. CASE ~d.ok
    <3>1. d = Corrupt /\ Later(r, d) = Corrupt
      BY <1>1, <2>2, SingleFacts DEF Later
    <3> QED
      BY <1>0, <3>1 DEF Best
  <2>3. CASE d.ok /\ d.samples = <<>>
    <3>1. d = Found(<<>>) /\ Later(r, d) = r
      BY <1>1, <2>1, <2>3, SingleFacts DEF Later
    <3>2. \A j \in 1..n + 1 : c[j] = Found(<<>>)
      BY <1>2, <1>4, <3>1
    <3> QED
      BY <1>4, <3>1, <3>2 DEF Best
  <2>4. CASE d.ok /\ d.samples # <<>>
    <3>1. Later(r, d) = d
      BY <2>1, <2>4 DEF Later
    <3>2. d.samples[1].timestamp \in Int
      BY <1>1, <2>4, SingleFacts
    <3>3. \A j \in 1..n + 1 :
                \/ c[j] = Found(<<>>)
                \/ /\ c[j].ok /\ c[j].samples[1].timestamp <= d.samples[1].timestamp
                   /\ n + 1 < j => c[j].samples[1].timestamp < d.samples[1].timestamp
      BY <1>2, <1>4, <2>4, <3>2
    <3> QED
      BY <1>0, <2>4, <3>1, <3>3 DEF Best
  <2> QED
    BY <1>1, <2>2, <2>3, <2>4, SingleFacts
<1>5. ASSUME NEW i \in 1..n, r = c[i], c[i].ok, c[i].samples # <<>>,
             \A j \in 1..n :
                \/ c[j] = Found(<<>>)
                \/ /\ c[j].ok /\ c[j].samples[1].timestamp <= c[i].samples[1].timestamp
                   /\ i < j => c[j].samples[1].timestamp < c[i].samples[1].timestamp
      PROVE  Best(c, n + 1, Later(r, d))
  <2>0. c[i].samples[1].timestamp \in Int
    BY <1>1, <1>5, SingleFacts
  <2>1. CASE ~d.ok
    <3>1. d = Corrupt /\ Later(r, d) = Corrupt
      BY <1>1, <2>1, SingleFacts DEF Later
    <3> QED
      BY <1>0, <3>1 DEF Best
  <2>2. CASE d.ok /\ d.samples = <<>>
    <3>1. d = Found(<<>>) /\ Later(r, d) = r
      BY <1>1, <1>5, <2>2, SingleFacts DEF Later
    <3>2. \A j \in 1..n + 1 :
                \/ c[j] = Found(<<>>)
                \/ /\ c[j].ok /\ c[j].samples[1].timestamp <= c[i].samples[1].timestamp
                   /\ i < j => c[j].samples[1].timestamp < c[i].samples[1].timestamp
      BY <1>2, <1>5, <3>1
    <3> QED
      BY <1>0, <1>5, <3>1, <3>2 DEF Best
  <2>3. CASE /\ d.ok /\ d.samples # <<>>
             /\ d.samples[1].timestamp >= c[i].samples[1].timestamp
    <3>1. Later(r, d) = d
      BY <1>5, <2>3 DEF Later
    <3>2. d.samples[1].timestamp \in Int
      BY <1>1, <2>3, SingleFacts
    <3>3. ASSUME NEW j \in 1..n + 1
          PROVE  \/ c[j] = Found(<<>>)
                 \/ /\ c[j].ok /\ c[j].samples[1].timestamp <= d.samples[1].timestamp
                    /\ n + 1 < j => c[j].samples[1].timestamp < d.samples[1].timestamp
      <4>1. CASE j = n + 1
        BY <2>3, <3>2, <4>1
      <4>2. CASE j \in 1..n /\ c[j] # Found(<<>>)
        <5>1. c[j].ok /\ c[j].samples[1].timestamp <= c[i].samples[1].timestamp
          BY <1>5, <4>2
        <5>2. c[j].samples[1].timestamp \in Int
          BY <1>1, <4>2, <5>1, SingleFacts
        <5>3. c[j].samples[1].timestamp <= d.samples[1].timestamp
          BY <2>0, <2>3, <3>2, <5>1, <5>2
        <5>4. ~(n + 1 < j)
          BY <4>2
        <5> QED
          BY <5>1, <5>3, <5>4
      <4> QED
        BY <1>2, <4>1, <4>2
    <3> QED
      BY <1>0, <2>3, <3>1, <3>3 DEF Best
  <2>4. CASE /\ d.ok /\ d.samples # <<>>
             /\ ~(d.samples[1].timestamp >= c[i].samples[1].timestamp)
    <3>1. Later(r, d) = r
      BY <1>5, <2>4 DEF Later
    <3>2. d.samples[1].timestamp \in Int
      BY <1>1, <2>4, SingleFacts
    <3>3. d.samples[1].timestamp < c[i].samples[1].timestamp
      BY <2>0, <2>4, <3>2
    <3>4. \A j \in 1..n + 1 :
                \/ c[j] = Found(<<>>)
                \/ /\ c[j].ok /\ c[j].samples[1].timestamp <= c[i].samples[1].timestamp
                   /\ i < j => c[j].samples[1].timestamp < c[i].samples[1].timestamp
      BY <1>2, <1>5, <2>0, <2>4, <3>2, <3>3
    <3> QED
      BY <1>0, <1>5, <3>1, <3>4 DEF Best
  <2> QED
    BY <1>1, <2>1, <2>2, <2>3, <2>4, SingleFacts
<1> QED
  BY <1>3, <1>4, <1>5 DEF Best

LEMMA LatestOfIs ==
    ASSUME NEW c, NEW N \in Nat, Len(c) = N, \A j \in 1..N : Single(c[j])
    PROVE  Best(c, N, LatestOf(c))
<1> DEFINE Body(f) == [i \in 0..N |-> IF i = 0 THEN Found(<<>>) ELSE Later(f[i - 1], c[i])]
           Good(n) == n <= N => \E f : /\ f = [i \in 0..n |-> f[i]]
                                       /\ f[0] = Found(<<>>)
                                       /\ \A i \in 1..n : f[i] = Later(f[i - 1], c[i])
           T == {n \in Nat : Good(n)}
<1>1. Good(0)
  <2> DEFINE f == [i \in 0..0 |-> Found(<<>>)]
  <2>1. f = [i \in 0..0 |-> f[i]] /\ f[0] = Found(<<>>) /\ \A i \in 1..0 : FALSE
    OBVIOUS
  <2> HIDE DEF f
  <2>2. \A i \in 1..0 : f[i] = Later(f[i - 1], c[i])
    BY <2>1, Zenon
  <2> QED
    BY <2>1, <2>2
<1>2. ASSUME NEW n \in Nat, Good(n) PROVE Good(n + 1)
  <2>1. SUFFICES ASSUME n + 1 <= N
                 PROVE  \E f : /\ f = [i \in 0..n + 1 |-> f[i]]
                               /\ f[0] = Found(<<>>)
                               /\ \A i \in 1..n + 1 : f[i] = Later(f[i - 1], c[i])
    BY Zenon
  <2>2. n <= N
    BY <2>1
  <2>3. PICK f : /\ f = [i \in 0..n |-> f[i]]
                 /\ f[0] = Found(<<>>)
                 /\ \A i \in 1..n : f[i] = Later(f[i - 1], c[i])
    BY <1>2, <2>2
  <2> DEFINE g == [i \in 0..n + 1 |-> IF i = n + 1 THEN Later(f[n], c[n + 1]) ELSE f[i]]
  <2>4. /\ g = [i \in 0..n + 1 |-> g[i]]
        /\ g[n + 1] = Later(f[n], c[n + 1]) /\ \A i \in 0..n : g[i] = f[i]
    OBVIOUS
  <2> HIDE DEF g
  <2>5. ASSUME NEW i \in 1..n + 1 PROVE g[i] = Later(g[i - 1], c[i])
    <3>1. CASE i = n + 1
      <4>1. i - 1 = n /\ n \in 0..n
        BY <3>1
      <4> QED
        BY <2>4, <3>1, <4>1
    <3>2. CASE i # n + 1
      <4>1. i \in 1..n /\ i \in 0..n /\ i - 1 \in 0..n
        BY <3>2
      <4> QED
        BY <2>3, <2>4, <4>1
    <3> QED
      BY <3>1, <3>2
  <2>6. g[0] = Found(<<>>)
    BY <2>3, <2>4
  <2> QED
    BY <2>4, <2>5, <2>6
<1>3. \A n \in Nat : n \in T
  <2> HIDE DEF Good
  <2>1. 0 \in T /\ \A n \in Nat : n \in T => n + 1 \in T
    BY <1>1, <1>2
  <2> HIDE DEF T
  <2> QED
    BY <2>1, NatInductive
<1>4. PICK f : /\ f = [i \in 0..N |-> f[i]]
               /\ f[0] = Found(<<>>)
               /\ \A i \in 1..N : f[i] = Later(f[i - 1], c[i])
  <2>1. Good(N) /\ N <= N
    BY <1>3
  <2> QED
    BY <2>1
<1> DEFINE best == CHOOSE h : h = Body(h)
<1>5. f = Body(f)
  <2>1. \A i \in 0..N : f[i] = IF i = 0 THEN Found(<<>>) ELSE Later(f[i - 1], c[i])
    BY <1>4
  <2> QED
    BY <1>4, <2>1, Zenon
<1>6. best = Body(best)
  <2> HIDE DEF Body
  <2> QED
    BY <1>5
<1>7. LatestOf(c) = best[N]
  BY DEF LatestOf
<1> HIDE DEF best
<1>8. \A i \in 0..N : best[i] = IF i = 0 THEN Found(<<>>) ELSE Later(best[i - 1], c[i])
  BY <1>6, Zenon
<1> DEFINE U == {n \in Nat : n <= N => Best(c, n, best[n])}
<1>9. 0 \in U
  <2>1. best[0] = Found(<<>>)
    BY <1>8
  <2> QED
    BY <2>1 DEF Best
<1>10. ASSUME NEW n \in Nat, n \in U PROVE n + 1 \in U
  <2>1. SUFFICES ASSUME n + 1 <= N PROVE Best(c, n + 1, best[n + 1])
    OBVIOUS
  <2>2. Best(c, n, best[n])
    BY <1>10, <2>1
  <2>3. ASSUME NEW m \in 0..N, m = n + 1 PROVE best[m] = Later(best[n], c[n + 1])
    <3>1. m # 0 /\ m - 1 = n
      BY <2>3
    <3>2. best[m] = Later(best[m - 1], c[m])
      BY <1>8, <3>1, Zenon
    <3> QED
      BY <2>3, <3>1, <3>2
  <2>4. n + 1 \in 0..N /\ \A j \in 1..n + 1 : j \in 1..N
    BY <2>1
  <2>5. best[n + 1] = Later(best[n], c[n + 1])
    BY <2>3, <2>4, Zenon
  <2>6. \A j \in 1..n + 1 : Single(c[j])
    BY <2>4
  <2> QED
    BY <2>2, <2>5, <2>6, LaterStep
<1> HIDE DEF U
<1>11. \A n \in Nat : n \in U
  BY <1>9, <1>10, NatInductive
<1>12. Best(c, N, best[N])
  BY <1>11 DEF U
<1> QED
  BY <1>7, <1>12

-----------------------------------------------------------------------------
(* compact's reading.                                                      *)

\* The blocks of a series, one after the other, have its samples in order.
LEMMA CompactReads ==
    ASSUME NEW table \in Tables, NEW B, BlocksOf(B, table, Series),
           NEW segment, FileOf(segment, B), NEW s \in Series,
           \A n \in 1..Len(B) : read_block(segment, segment.index[n]).ok
    PROVE  LET F == FlattenSeq([n \in DOMAIN segment.index |->
                       IF segment.index[n].series = s THEN Blocks(segment)[n].samples ELSE <<>>])
           IN  F \in Seq(Sample) /\ IsSamples(F, table, s, Times)
<1> DEFINE N == Len(B)
           index == segment.index
           parts == [n \in DOMAIN index |->
                        IF index[n].series = s THEN Blocks(segment)[n].samples ELSE <<>>]
           F == FlattenSeq(parts)
<1>1. index = IndexOf(B)
  BY DEF FileOf
<1>2. DOMAIN index = 1..N /\ \A i \in 1..N : index[i].series = B[i].series
  BY <1>1, IndexIs
<1>3. ASSUME NEW n \in 1..N PROVE Blocks(segment)[n].samples = B[n].samples
  <2>1. Blocks(segment)[n] = read_block(segment, index[n])
    BY <1>2 DEF Blocks
  <2>2. read_block(segment, index[n]) = Found(B[n].samples)
    BY ReadBlockIs, Answers
  <2> QED
    BY <2>1, <2>2, Answers
<1>4. N \in Nat
  <2>1. B \in Seq(Block)
    BY DEF BlocksOf
  <2> QED
    BY <2>1, LenProperties
<1>5. \A n \in 1..N : parts[n] = IF B[n].series = s THEN B[n].samples ELSE <<>>
  BY <1>2, <1>3
<1>6. parts = [n \in 1..N |-> parts[n]]
  BY <1>2
<1> HIDE DEF parts, N
<1>7. parts \in Seq(Seq(Sample)) /\ Len(parts) = N
  <2>1. \A n \in 1..N : B[n].samples \in Seq(Sample)
    BY BlockFacts DEF N
  <2>2. \A n \in 1..N : parts[n] \in Seq(Sample)
    BY <1>5, <2>1, EmptySeq
  <2>3. parts \in [1..N -> Seq(Sample)]
    BY <1>6, <2>2
  <2> QED
    BY <1>4, <2>3
<1>8. F \in Seq(Sample) /\ \E g, k : Places(parts, N, F, g, k)
  BY <1>7, Flattened
<1>9. PICK g, k : Places(parts, N, F, g, k)
  BY <1>8
<1> HIDE DEF F
<1>10. ASSUME NEW p \in 1..Len(F)
       PROVE  /\ g[p] \in 1..N /\ B[g[p]].series = s
              /\ k[p] \in 1..Len(B[g[p]].samples) /\ F[p] = B[g[p]].samples[k[p]]
  <2>1. g[p] \in 1..N /\ k[p] \in 1..Len(parts[g[p]]) /\ F[p] = parts[g[p]][k[p]]
    BY <1>9 DEF Places
  <2>2. B[g[p]].series = s
    <3>1. SUFFICES ASSUME B[g[p]].series # s PROVE FALSE
      OBVIOUS
    <3>2. parts[g[p]] = <<>> /\ Len(<<>>) = 0
      BY <1>5, <2>1, <3>1, EmptySeq
    <3> QED
      BY <2>1, <3>2
  <2>3. parts[g[p]] = B[g[p]].samples
    BY <1>5, <2>1, <2>2
  <2> QED
    BY <2>1, <2>2, <2>3
<1>11. ASSUME NEW p \in 1..Len(F), NEW q \in 1..Len(F), p < q PROVE F[p].timestamp < F[q].timestamp
  <2> DEFINE i == g[p]
             j == g[q]
  <2>1. /\ i \in 1..N /\ B[i].series = s /\ k[p] \in 1..Len(B[i].samples) /\ F[p] = B[i].samples[k[p]]
        /\ j \in 1..N /\ B[j].series = s /\ k[q] \in 1..Len(B[j].samples) /\ F[q] = B[j].samples[k[q]]
    BY <1>10
  <2>2. i < j \/ (i = j /\ k[p] < k[q])
    BY <1>9, <1>11 DEF Places
  <2> HIDE DEF i, j
  <2>3. CASE i < j
    <3>1. F[p].timestamp \in Int /\ F[p].timestamp <= last_timestamp(B[i]) /\ last_timestamp(B[i]) \in Int
      BY <2>1, BlockFacts DEF N
    <3>2. F[q].timestamp \in Int /\ first_timestamp(B[j]) <= F[q].timestamp /\ first_timestamp(B[j]) \in Int
      BY <2>1, BlockFacts DEF N
    <3>3. B[i].series < B[j].series \/ last_timestamp(B[i]) < first_timestamp(B[j])
      BY <2>1, <2>3 DEF BlocksOf, N
    <3>4. last_timestamp(B[i]) < first_timestamp(B[j])
      BY <2>1, <3>3, ReadBounds
    <3> QED
      BY <3>1, <3>2, <3>4
  <2>4. CASE i = j /\ k[p] < k[q]
    BY <2>1, <2>4 DEF BlocksOf, N
  <2> QED
    BY <2>2, <2>3, <2>4
<1>12. ASSUME NEW p \in 1..Len(F)
       PROVE  /\ F[p].timestamp \in Times
              /\ F[p].value = table[<<s, F[p].timestamp>>] /\ F[p].value # None
  <2> DEFINE i == g[p]
  <2>1. i \in 1..N /\ B[i].series = s /\ k[p] \in 1..Len(B[i].samples) /\ F[p] = B[i].samples[k[p]]
    BY <1>10
  <2> HIDE DEF i
  <2>2. LET x == B[i].samples[k[p]]
        IN  x.timestamp \in Times /\ x.value = table[<<B[i].series, x.timestamp>>] /\ x.value # None
    BY <2>1 DEF BlocksOf, N
  <2> QED
    BY <2>1, <2>2
<1>13. ASSUME NEW t \in Times, table[<<s, t>>] # None PROVE \E p \in 1..Len(F) : F[p].timestamp = t
  <2>1. PICK j \in 1..N : /\ B[j].series = s
                          /\ \E m \in 1..Len(B[j].samples) : B[j].samples[m].timestamp = t
    <3>1. \A r \in Series, u \in Times : table[<<r, u>>] # None =>
             \E j \in 1..Len(B) : /\ B[j].series = r
                                 /\ \E m \in 1..Len(B[j].samples) : B[j].samples[m].timestamp = u
      BY Zenon DEF BlocksOf
    <3>2. \E j \in 1..Len(B) : /\ B[j].series = s
                                /\ \E m \in 1..Len(B[j].samples) : B[j].samples[m].timestamp = t
      BY <1>13, <3>1, Zenon
    <3> QED
      BY <3>2 DEF N
  <2>2. PICK m \in 1..Len(B[j].samples) : B[j].samples[m].timestamp = t
    BY <2>1
  <2>3. parts[j] = B[j].samples
    BY <1>5, <2>1
  <2>4. PICK p \in 1..Len(F) : g[p] = j /\ k[p] = m
    BY <1>9, <2>2, <2>3 DEF Places
  <2> QED
    BY <1>10, <2>2, <2>4
<1>14. IsSamples(F, table, s, Times)
  BY <1>8, <1>11, <1>12, <1>13 DEF IsSamples
<1> QED
  BY <1>8, <1>14 DEF F, parts

-----------------------------------------------------------------------------
(* The invariant.                                                          *)

SegmentFile ==
    [intact : SUBSET Envelope, index : Seq(Entry), index_offset : Nat,
     blocks : UNION {[D -> Block \cup {Garbage}] : D \in SUBSET Nat}]

ReadsTypeOK ==
    /\ phase \in {"ready", "failed", "refused"}
    /\ memtable \in Tables /\ written \in Tables
    /\ segments \in Seq(SegmentFile)
    /\ nput \in Nat /\ ndamage \in Nat

\* Every segment is the file of a table; the tables, and memory on top, make up
\* what was written.
Stacked(stack) ==
    /\ stack \in [1..Len(segments) + 1 -> Tables]
    /\ stack[Len(segments) + 1] = memtable
    /\ \A i \in 1..Len(segments) : FileOf(segments[i], blocks_from_snapshots(stack[i]))
    /\ Layers(stack, Len(segments) + 1, written)
    /\ ndamage = 0 => \A i \in 1..Len(segments) :
                         Undamaged(segments[i], blocks_from_snapshots(stack[i]))

ReadsInv ==
    /\ ReadsTypeOK
    /\ \E stack : Stacked(stack)
    /\ OnlyDamageOrSizeFails

\* A segment file has the type of one.
LEMMA FileIs ==
    ASSUME NEW table \in Tables, NEW B, BlocksOf(B, table, Series),
           NEW segment, FileOf(segment, B)
    PROVE  segment \in SegmentFile
<1> DEFINE D == {Offsets(B)[i] : i \in 1..Len(B)}
<1>1. B \in Seq(Block)
  BY DEF BlocksOf
<1>2. /\ Len(B) \in Nat /\ Offsets(B) \in [1..Len(B) + 1 -> Nat]
      /\ IndexOf(B) \in Seq(Entry)
  BY <1>1, LenProperties, OffsetsAre, IndexIs
<1>3. D \in SUBSET Nat /\ Offsets(B)[Len(B) + 1] \in Nat
  BY <1>2
<1>4. segment.blocks \in [D -> Block \cup {Garbage}]
  <2>1. ToSet(B) \subseteq Block
    BY <1>1 DEF ToSet
  <2>2. segment.blocks \in [D -> ToSet(B) \cup {Garbage}]
    BY DEF FileOf
  <2> HIDE DEF D
  <2> QED
    BY <2>1, <2>2
<1> HIDE DEF D
<1>5. segment.blocks \in UNION {[E -> Block \cup {Garbage}] : E \in SUBSET Nat}
  BY <1>3, <1>4
<1> DEFINE data == UNION {[E -> Block \cup {Garbage}] : E \in SUBSET Nat}
<1>6. \A a \in SUBSET Envelope, b \in Seq(Entry), c \in Nat, d \in data :
          [intact |-> a, index |-> b, index_offset |-> c, blocks |-> d] \in SegmentFile
  <2> HIDE DEF data
  <2>1. SegmentFile = [intact : SUBSET Envelope, index : Seq(Entry), index_offset : Nat, blocks : data]
    BY DEF SegmentFile, data
  <2> QED
    BY <2>1
<1> HIDE DEF data
<1>7. segment.blocks \in data /\ segment.intact \in SUBSET Envelope
  BY <1>5 DEF data, FileOf
<1>8. segment = [intact |-> segment.intact, index |-> IndexOf(B),
                 index_offset |-> Offsets(B)[Len(B) + 1], blocks |-> segment.blocks]
  BY DEF FileOf
<1> QED
  BY <1>2, <1>3, <1>6, <1>7, <1>8, Zenon

LEMMA StackFacts ==
    ASSUME ReadsTypeOK, NEW stack, Stacked(stack)
    PROVE  /\ Len(segments) \in Nat /\ DOMAIN segments = 1..Len(segments)
           /\ stack[Len(segments) + 1] = memtable
           /\ \A i \in 1..Len(segments) + 1 : stack[i] \in Tables
           /\ \A i \in 1..Len(segments) :
                 /\ BlocksOf(blocks_from_snapshots(stack[i]), stack[i], Series)
                 /\ FileOf(segments[i], blocks_from_snapshots(stack[i]))
                 /\ DOMAIN segments[i].index = 1..Len(blocks_from_snapshots(stack[i]))
                 /\ segments[i].index = IndexOf(blocks_from_snapshots(stack[i]))
<1>1. Len(segments) \in Nat /\ DOMAIN segments = 1..Len(segments)
  BY LenProperties DEF ReadsTypeOK
<1>2. \A i \in 1..Len(segments) + 1 : stack[i] \in Tables
  BY DEF Stacked
<1>3. ASSUME NEW i \in 1..Len(segments)
      PROVE  /\ BlocksOf(blocks_from_snapshots(stack[i]), stack[i], Series)
             /\ FileOf(segments[i], blocks_from_snapshots(stack[i]))
             /\ DOMAIN segments[i].index = 1..Len(blocks_from_snapshots(stack[i]))
             /\ segments[i].index = IndexOf(blocks_from_snapshots(stack[i]))
  <2>1. stack[i] \in Tables
    BY <1>1, <1>2
  <2>2. BlocksOf(blocks_from_snapshots(stack[i]), stack[i], Series)
    BY <2>1, BlocksAre
  <2>3. FileOf(segments[i], blocks_from_snapshots(stack[i]))
    BY DEF Stacked
  <2>4. segments[i].index = IndexOf(blocks_from_snapshots(stack[i]))
    BY <2>3 DEF FileOf
  <2> QED
    BY <2>1, <2>2, <2>3, <2>4, IndexIs
<1> QED
  BY <1>1, <1>2, <1>3 DEF Stacked

\* Some block that could have answered for t is lost.
LostAt(s, t) ==
    \E i \in DOMAIN segments : \E n \in DOMAIN segments[i].index :
        /\ Lost(i, n)
        /\ segments[i].index[n].series = s
        /\ segments[i].index[n].first_timestamp <= t /\ t <= segments[i].index[n].last_timestamp

\* The segments from the newest to the oldest.
LEMMA SegmentsAnswer ==
    ASSUME ReadsTypeOK, NEW stack, Stacked(stack), NEW s \in Series, NEW t \in Int
    PROVE  \/ get_in_segments(s, t) = Corrupt /\ LostAt(s, t)
           \/ /\ get_in_segments(s, t) = Found(<<>>)
              /\ \A i \in 1..Len(segments) : SamplesAt(stack[i], s, {t} \cap Times) = <<>>
           \/ \E i \in 1..Len(segments) :
                 /\ get_in_segments(s, t) = Found(SamplesAt(stack[i], s, {t} \cap Times))
                 /\ SamplesAt(stack[i], s, {t} \cap Times) # <<>>
                 /\ \A j \in 1..Len(segments) :
                       i < j => SamplesAt(stack[j], s, {t} \cap Times) = <<>>
<1> DEFINE N == Len(segments)
           at(i) == SamplesAt(stack[i], s, {t} \cap Times)
           ask(i) == SegmentGet(segments[i], s, t)
           answering == {i \in DOMAIN segments : ask(i) # Found(<<>>)}
           last == CHOOSE i \in answering : \A j \in answering : i >= j
<1>1. N \in Nat /\ DOMAIN segments = 1..N
  BY StackFacts
<1>2. ASSUME NEW i \in 1..N PROVE ask(i) = Found(at(i)) \/ (ask(i) = Corrupt /\ LostAt(s, t))
  <2> DEFINE B == blocks_from_snapshots(stack[i])
  <2>1. /\ stack[i] \in Tables /\ BlocksOf(B, stack[i], Series) /\ FileOf(segments[i], B)
        /\ DOMAIN segments[i].index = 1..Len(B) /\ segments[i].index = IndexOf(B)
    BY <1>1, StackFacts
  <2> HIDE DEF B
  <2>2. CASE ask(i) = Found(at(i))
    BY <2>2
  <2>3. ASSUME ask(i) = Corrupt,
               NEW n \in 1..Len(B), ~read_block(segments[i], segments[i].index[n]).ok,
               B[n].series = s, first_timestamp(B[n]) <= t, t <= last_timestamp(B[n])
        PROVE  LostAt(s, t)
    <3>1. /\ segments[i].index[n].series = B[n].series
          /\ segments[i].index[n].first_timestamp = first_timestamp(B[n])
          /\ segments[i].index[n].last_timestamp = last_timestamp(B[n])
      BY <2>1, IndexIs
    <3> QED
      BY <1>1, <2>1, <2>3, <3>1 DEF LostAt, Lost
  <2>4. \/ ask(i) = Found(at(i))
        \/ /\ ask(i) = Corrupt
           /\ \E n \in 1..Len(B) :
                    /\ ~read_block(segments[i], segments[i].index[n]).ok
                    /\ B[n].series = s
                    /\ first_timestamp(B[n]) <= t /\ t <= last_timestamp(B[n])
    BY <2>1, SegmentGetIs
  <2> QED
    BY <2>2, <2>3, <2>4
<1>3. get_in_segments(s, t) = IF answering = {} THEN Found(<<>>) ELSE ask(last)
  BY DEF get_in_segments
<1>4. \A x : Found(x).samples = x /\ Found(x) # Corrupt
  BY Answers
<1> HIDE DEF ask, at
<1>5. CASE answering = {}
  <2>1. \A i \in 1..N : at(i) = <<>>
    BY <1>1, <1>2, <1>4, <1>5
  <2> QED
    BY <1>3, <1>5, <2>1 DEF at
<1>6. CASE answering # {}
  <2>1. answering \in SUBSET (1..N)
    BY <1>1
  <2>2. last = Max(answering)
    BY DEF Max
  <2> HIDE DEF last
  <2>3. last \in answering /\ \A y \in answering : y <= last
    <3> HIDE DEF answering
    <3> QED
      BY <1>1, <1>6, <2>1, <2>2, GreatestOfBounded
  <2>4. last \in 1..N /\ ask(last) # Found(<<>>)
    BY <2>1, <2>3
  <2>5. \A j \in 1..N : last < j => ask(j) = Found(<<>>)
    BY <1>1, <2>3, <2>4
  <2>6. \A j \in 1..N : last < j => at(j) = <<>>
    BY <1>2, <1>4, <2>5
  <2>7. CASE ask(last) = Corrupt
    BY <1>2, <1>3, <1>4, <1>6, <2>4, <2>7
  <2>8. CASE ask(last) = Found(at(last))
    <3>1. get_in_segments(s, t) = Found(at(last)) /\ at(last) # <<>>
      BY <1>3, <1>6, <2>4, <2>8
    <3> QED
      BY <2>4, <2>6, <3>1 DEF at
  <2> QED
    BY <1>2, <2>4, <2>7, <2>8
<1> QED
  BY <1>5, <1>6

\* Memory and the segments: the newest value of exactly the time asked for.
LEMMA GetIs ==
    ASSUME ReadsTypeOK, NEW stack, Stacked(stack), NEW s \in Series, NEW t \in Int
    PROVE  \/ get(s, t) = Found(SamplesAt(written, s, {t} \cap Times))
           \/ get(s, t) = Corrupt /\ LostAt(s, t)
<1> DEFINE N == Len(segments)
           at(table) == SamplesAt(table, s, {t} \cap Times)
           has(table) == t \in Times /\ table[<<s, t>>] # None
<1>1. /\ N \in Nat /\ stack[N + 1] = memtable
      /\ \A i \in 1..N + 1 : stack[i] \in Tables
  BY StackFacts
<1>2. written \in Tables /\ memtable \in Tables
  BY DEF ReadsTypeOK
<1>3. get(s, t) = IF at(memtable) # <<>> THEN Found(at(memtable)) ELSE get_in_segments(s, t)
  BY DEF get, MemTableGet
<1>4. \A table \in Tables :
          at(table) = IF has(table) THEN <<[timestamp |-> t, value |-> table[<<s, t>>]]>> ELSE <<>>
  BY OneSample
<1>5. \A x : <<x>> # <<>>
  OBVIOUS
<1>6. \A table \in Tables : at(table) # <<>> <=> has(table)
  BY <1>4, <1>5
<1>7. t \in Times =>
        \/ ~has(written) /\ \A i \in 1..N + 1 : ~has(stack[i])
        \/ /\ has(written)
           /\ \E i \in 1..N + 1 : /\ stack[i][<<s, t>>] = written[<<s, t>>]
                                  /\ \A j \in 1..N + 1 : i < j => ~has(stack[j])
  <2>1. t \in Times => <<s, t>> \in Keys
    BY DEF Keys
  <2> QED
    BY <2>1 DEF Stacked, Layers
<1> HIDE DEF at, N
\* The uppermost table that has a value has the one that was written last.
<1>8. ASSUME NEW i \in 1..N + 1, has(stack[i]), \A j \in 1..N + 1 : i < j => ~has(stack[j])
      PROVE  at(stack[i]) = at(written)
  <2>1. has(written)
    BY <1>7, <1>8
  <2>2. PICK m \in 1..N + 1 : /\ stack[m][<<s, t>>] = written[<<s, t>>]
                              /\ \A j \in 1..N + 1 : m < j => ~has(stack[j])
    BY <1>7, <2>1
  <2>3. has(stack[m])
    BY <2>1, <2>2
  <2>4. m = i
    BY <1>1, <1>8, <2>2, <2>3
  <2> QED
    BY <1>1, <1>2, <1>4, <1>8, <2>1, <2>2, <2>4
<1>9. ASSUME \A i \in 1..N + 1 : ~has(stack[i]) PROVE at(written) = <<>>
  <2>1. ~has(written)
    BY <1>7, <1>9
  <2> QED
    BY <1>2, <1>4, <2>1
<1> HIDE DEF has
<1>10. N + 1 \in 1..N + 1 /\ \A i \in 1..N : i \in 1..N + 1
  BY <1>1
<1>11. CASE at(memtable) # <<>>
  <2>1. has(stack[N + 1]) /\ \A j \in 1..N + 1 : N + 1 < j => FALSE
    BY <1>1, <1>2, <1>6, <1>11
  <2>2. at(memtable) = at(written)
    BY <1>1, <1>8, <1>10, <2>1
  <2> QED
    BY <1>3, <1>11, <2>2 DEF at
<1>12. CASE at(memtable) = <<>>
  <2>1. ~has(stack[N + 1]) /\ get(s, t) = get_in_segments(s, t)
    BY <1>1, <1>2, <1>3, <1>6, <1>12
  <2>2. CASE get_in_segments(s, t) = Corrupt /\ LostAt(s, t)
    BY <2>1, <2>2
  <2>3. CASE get_in_segments(s, t) = Found(<<>>) /\ \A i \in 1..N : at(stack[i]) = <<>>
    <3>1. \A i \in 1..N : ~has(stack[i])
      BY <1>1, <1>6, <1>10, <2>3
    <3>2. \A i \in 1..N + 1 : i \in 1..N \/ i = N + 1
      BY <1>1
    <3>3. at(written) = <<>>
      BY <1>9, <2>1, <3>1, <3>2
    <3> QED
      BY <2>1, <2>3, <3>3 DEF at
  <2>4. ASSUME NEW i \in 1..N, get_in_segments(s, t) = Found(at(stack[i])), at(stack[i]) # <<>>,
               \A j \in 1..N : i < j => at(stack[j]) = <<>>
        PROVE  get(s, t) = Found(at(written))
    <3>1. has(stack[i])
      BY <1>1, <1>6, <1>10, <2>4
    <3>2. ASSUME NEW j \in 1..N + 1, i < j PROVE ~has(stack[j])
      <4>1. j \in 1..N \/ j = N + 1
        BY <1>1
      <4>2. j \in 1..N => ~has(stack[j])
        BY <1>1, <1>6, <2>4, <3>2
      <4> QED
        BY <2>1, <4>1, <4>2
    <3>3. at(stack[i]) = at(written)
      BY <1>8, <1>10, <3>1, <3>2
    <3> QED
      BY <2>1, <2>4, <3>3
  <2>5. \/ get_in_segments(s, t) = Corrupt /\ LostAt(s, t)
        \/ get_in_segments(s, t) = Found(<<>>) /\ \A i \in 1..N : at(stack[i]) = <<>>
        \/ \E i \in 1..N : /\ get_in_segments(s, t) = Found(at(stack[i]))
                           /\ at(stack[i]) # <<>>
                           /\ \A j \in 1..N : i < j => at(stack[j]) = <<>>
    BY SegmentsAnswer DEF at, N
  <2> QED
    BY <2>2, <2>3, <2>4, <2>5 DEF at
<1> QED
  BY <1>11, <1>12

\* A query of a segment that missed a block.
LEMMA MissedIsDamage ==
    ASSUME ReadsTypeOK, NEW stack, Stacked(stack), NEW i \in 1..Len(segments), NEW s,
           Missed(segments[i], blocks_from_snapshots(stack[i]), s)
    PROVE  Damaged
<1>1. i \in DOMAIN segments /\ DOMAIN segments[i].index = 1..Len(blocks_from_snapshots(stack[i]))
  BY StackFacts
<1> QED
  BY <1>1 DEF Missed, Damaged, Lost

\* latest: the newest value at the greatest time.
LEMMA LatestIs ==
    ASSUME ReadsTypeOK, NEW stack, Stacked(stack), NEW s \in Series
    PROVE  \/ latest(s) = Found(LastOf(Samples(written, s)))
           \/ latest(s) = Corrupt /\ Damaged
<1> DEFINE N == Len(segments)
           last(table) == LastOf(Samples(table, s))
           ask(i) == SegmentLatest(segments[i], s)
           asked == [i \in DOMAIN segments |-> ask(i)]
           c == Append(asked, Found(MemTableLatest(s)))
           has(table, t) == table[<<s, t>>] # None
           sample(table, t) == [timestamp |-> t, value |-> table[<<s, t>>]]
<1>1. /\ N \in Nat /\ DOMAIN segments = 1..N /\ stack[N + 1] = memtable
      /\ \A i \in 1..N + 1 : stack[i] \in Tables
  BY StackFacts
<1>2. written \in Tables /\ memtable \in Tables
  BY DEF ReadsTypeOK
<1>3. latest(s) = LatestOf(c)
  BY DEF latest
<1>4. MemTableLatest(s) = last(memtable)
  BY DEF MemTableLatest, LastOf
<1>5. ASSUME NEW i \in 1..N PROVE ask(i) = Found(last(stack[i])) \/ (ask(i) = Corrupt /\ Damaged)
  <2> DEFINE B == blocks_from_snapshots(stack[i])
  <2>1. stack[i] \in Tables /\ BlocksOf(B, stack[i], Series) /\ FileOf(segments[i], B)
    BY <1>1, StackFacts
  <2>2. ask(i) = Found(last(stack[i])) \/ (ask(i) = Corrupt /\ Missed(segments[i], B, s))
    <3> HIDE DEF B
    <3> QED
      BY <2>1, SegmentLatestIs
  <2> QED
    BY <2>2, MissedIsDamage
<1>6. /\ Len(c) = N + 1
      /\ \A i \in 1..N : c[i] = ask(i)
      /\ c[N + 1] = Found(last(memtable))
  <2> DEFINE A == {ask(i) : i \in 1..N} \cup {Found(MemTableLatest(s))}
  <2>1. asked \in [1..N -> A] /\ \A i \in 1..N : asked[i] = ask(i)
    BY <1>1
  <2>2. Found(MemTableLatest(s)) \in A
    OBVIOUS
  <2> HIDE DEF A, asked, ask
  <2>3. asked \in Seq(A) /\ Len(asked) = N
    BY <1>1, <2>1
  <2>4. /\ Len(c) = Len(asked) + 1
        /\ \A i \in 1..Len(asked) : c[i] = asked[i]
        /\ c[Len(asked) + 1] = Found(MemTableLatest(s))
    BY <2>2, <2>3, AppendProperties
  <2> QED
    BY <1>4, <2>1, <2>3, <2>4
<1> HIDE DEF c, ask, N
<1>7. \A i \in 1..N + 1 : \/ c[i] = Found(last(stack[i]))
                          \/ c[i] = Corrupt /\ Damaged
  <2>1. \A i \in 1..N + 1 : i \in 1..N \/ i = N + 1
    BY <1>1
  <2> QED
    BY <1>1, <1>5, <1>6, <2>1
<1>8. ASSUME NEW table \in Tables
      PROVE  \/ last(table) = <<>> /\ \A t \in Times : ~has(table, t)
             \/ \E t \in Times : /\ last(table) = <<sample(table, t)>> /\ has(table, t)
                                 /\ \A u \in Times : has(table, u) => u <= t
  BY LastIs
<1>9. \A table \in Tables, t \in Times : sample(table, t) \in Sample
  BY ReadBounds DEF Sample, Tables, Keys
<1>10. \A table, t : sample(table, t).timestamp = t /\ sample(table, t).value = table[<<s, t>>]
  OBVIOUS
<1>11. \A t \in Times : t \in Int
  BY ReadBounds
<1>12. \A t \in Times :
          \/ ~has(written, t) /\ \A i \in 1..N + 1 : ~has(stack[i], t)
          \/ /\ has(written, t)
             /\ \E i \in 1..N + 1 : /\ stack[i][<<s, t>>] = written[<<s, t>>]
                                    /\ \A j \in 1..N + 1 : i < j => ~has(stack[j], t)
  <2>1. \A t \in Times : <<s, t>> \in Keys
    BY DEF Keys
  <2> QED
    BY <2>1 DEF Stacked, Layers, N
<1> HIDE DEF last, sample
<1>13. \A i \in 1..N + 1 : Single(c[i])
  <2>1. TAKE i \in 1..N + 1
  <2>2. stack[i] \in Tables
    BY <1>1
  <2>3. last(stack[i]) = <<>> \/ \E t \in Times : last(stack[i]) = <<sample(stack[i], t)>>
    BY <1>8, <2>2
  <2> QED
    BY <1>7, <1>9, <2>2, <2>3 DEF Single
<1>14. Best(c, N + 1, LatestOf(c))
  <2>1. N + 1 \in Nat
    BY <1>1
  <2> QED
    BY <1>6, <1>13, <2>1, LatestOfIs
<1> DEFINE r == LatestOf(c)
<1> HIDE DEF r
<1>15. CASE r = Corrupt /\ \E j \in 1..N + 1 : c[j] = Corrupt
  BY <1>3, <1>7, <1>15, Answers DEF r
<1>16. CASE r = Found(<<>>) /\ \A j \in 1..N + 1 : c[j] = Found(<<>>)
  <2>1. ASSUME NEW j \in 1..N + 1, NEW t \in Times PROVE ~has(stack[j], t)
    <3>1. stack[j] \in Tables
      BY <1>1
    <3>2. last(stack[j]) = <<>>
      BY <1>7, <1>16, Answers
    <3>3. \A x : <<x>> # <<>>
      OBVIOUS
    <3> QED
      BY <1>8, <3>1, <3>2, <3>3
  <2>2. \A t \in Times : ~has(written, t)
    BY <1>12, <2>1
  <2>3. last(written) = <<>>
    BY <1>2, <1>8, <2>2
  <2> QED
    BY <1>3, <1>16, <2>3 DEF r, last
<1>17. ASSUME NEW i \in 1..N + 1, r = c[i], c[i].ok, c[i].samples # <<>>,
              \A j \in 1..N + 1 :
                 \/ c[j] = Found(<<>>)
                 \/ /\ c[j].ok /\ c[j].samples[1].timestamp <= c[i].samples[1].timestamp
                    /\ i < j => c[j].samples[1].timestamp < c[i].samples[1].timestamp
       PROVE  r = Found(last(written))
  <2>0. \A j \in 1..N + 1 : stack[j] \in Tables /\ (c[j].ok => c[j] = Found(last(stack[j])))
    BY <1>1, <1>7, Answers
  <2>1. c[i] = Found(last(stack[i])) /\ last(stack[i]) # <<>>
    BY <1>17, <2>0, Answers
  <2>2. PICK t \in Times : /\ last(stack[i]) = <<sample(stack[i], t)>> /\ has(stack[i], t)
                           /\ \A u \in Times : has(stack[i], u) => u <= t
    BY <1>8, <2>0, <2>1
  <2>3. c[i].samples[1].timestamp = t
    BY <1>10, <2>1, <2>2, Answers
  \* No table has a later sample, and none above a sample as late.
  <2>4. ASSUME NEW j \in 1..N + 1, NEW u \in Times, has(stack[j], u)
        PROVE  u <= t /\ (i < j => u < t)
    <3>1. PICK v \in Times : /\ last(stack[j]) = <<sample(stack[j], v)>>
                             /\ \A x \in Times : has(stack[j], x) => x <= v
      BY <1>8, <2>0, <2>4
    <3>2. u <= v
      BY <2>4, <3>1
    <3>3. \A x : <<x>> # <<>> /\ <<x>>[1] = x
      OBVIOUS
    <3>4. c[j] = Found(last(stack[j])) /\ c[j] # Found(<<>>)
      <4>1. last(stack[j]) # <<>>
        BY <3>1, <3>3
      <4>2. c[j] = Found(<<>>) => c[j].ok
        BY Answers
      <4>3. c[j].ok
        BY <1>17, <4>2
      <4> QED
        BY <2>0, <4>1, <4>3, Answers
    <3>5. c[j].samples[1].timestamp = v
      BY <1>10, <3>1, <3>3, <3>4, Answers
    <3>6. v <= t /\ (i < j => v < t)
      BY <1>17, <2>3, <3>4, <3>5
    <3> QED
      BY <1>11, <3>2, <3>6
  <2>5. has(written, t) /\ written[<<s, t>>] = stack[i][<<s, t>>]
    <3>1. has(written, t)
      BY <1>12, <2>2
    <3>2. PICK m \in 1..N + 1 : /\ stack[m][<<s, t>>] = written[<<s, t>>]
                                /\ \A j \in 1..N + 1 : m < j => ~has(stack[j], t)
      BY <1>12, <3>1
    <3>3. ~(m < i)
      BY <2>2, <3>2
    <3>4. ~(i < m)
      <4>1. has(stack[m], t)
        BY <3>1, <3>2
      <4>2. i < m => t < t
        BY <2>4, <4>1
      <4> QED
        BY <1>11, <4>2
    <3>5. m = i
      BY <1>1, <3>3, <3>4
    <3> QED
      BY <3>1, <3>2, <3>5
  <2>6. \A u \in Times : has(written, u) => u <= t
    <3>1. TAKE u \in Times
    <3>2. HAVE has(written, u)
    <3>3. PICK j \in 1..N + 1 : stack[j][<<s, u>>] = written[<<s, u>>]
      BY <1>12, <3>2
    <3>4. has(stack[j], u)
      BY <3>2, <3>3
    <3> QED
      BY <2>4, <3>4
  <2>7. PICK v \in Times : /\ last(written) = <<sample(written, v)>> /\ has(written, v)
                           /\ \A u \in Times : has(written, u) => u <= v
    BY <1>2, <1>8, <2>5
  <2>8. v = t
    BY <1>11, <2>5, <2>6, <2>7
  <2>9. sample(written, t) = sample(stack[i], t)
    BY <2>5 DEF sample
  <2> QED
    BY <1>17, <2>1, <2>2, <2>7, <2>8, <2>9
<1> QED
  <2>1. Best(c, N + 1, r)
    BY <1>14 DEF r
  <2>2. r = Found(last(written)) \/ (r = Corrupt /\ \E j \in 1..N + 1 : c[j] = Corrupt)
        \/ (r = Found(<<>>) /\ \A j \in 1..N + 1 : c[j] = Found(<<>>))
    BY <1>17, <2>1 DEF Best
  <2> QED
    BY <1>3, <1>15, <1>16, <2>2 DEF r, last

\* range: the newest values at the times of the interval, in order.
LEMMA RangeIs ==
    ASSUME ReadsTypeOK, NEW stack, Stacked(stack), NEW s \in Series,
           NEW start \in Int, NEW end \in Int, start <= end
    PROVE  \/ range(s, start, end)
                = Found(SamplesAt(written, s, {t \in Times : start <= t /\ t < end}))
           \/ range(s, start, end) = Corrupt /\ Damaged
<1> DEFINE N == Len(segments)
           times == {t \in Times : start <= t /\ t < end}
           at(table) == SamplesAt(table, s, times)
           ask(i) == SegmentRange(segments[i], s, start, end)
           read == [i \in DOMAIN segments |-> ask(i)]
           got == [i \in DOMAIN read |-> read[i].samples]
           parts == Append(got, MemTableRange(s, start, end))
<1>1. /\ N \in Nat /\ DOMAIN segments = 1..N /\ stack[N + 1] = memtable
      /\ \A i \in 1..N + 1 : stack[i] \in Tables
  BY StackFacts
<1>2. written \in Tables /\ memtable \in Tables /\ times \in SUBSET Times
  BY DEF ReadsTypeOK
<1>3. range(s, start, end) = IF \E i \in DOMAIN read : ~read[i].ok THEN Corrupt
                             ELSE Found(Merged(FlattenSeq(parts)))
  BY DEF range
<1>4. MemTableRange(s, start, end) = at(memtable)
  BY DEF MemTableRange
<1>5. ASSUME NEW i \in 1..N PROVE ask(i) = Found(at(stack[i])) \/ (ask(i) = Corrupt /\ Damaged)
  <2> DEFINE B == blocks_from_snapshots(stack[i])
  <2>1. stack[i] \in Tables /\ BlocksOf(B, stack[i], Series) /\ FileOf(segments[i], B)
    BY <1>1, StackFacts
  <2>2. ask(i) = Found(at(stack[i])) \/ (ask(i) = Corrupt /\ Missed(segments[i], B, s))
    <3> HIDE DEF B
    <3> QED
      BY <2>1, SegmentRangeIs
  <2> QED
    BY <2>2, MissedIsDamage
<1>6. DOMAIN read = 1..N /\ \A i \in 1..N : read[i] = ask(i)
  BY <1>1
<1> HIDE DEF times, ask, N
<1>7. CASE \E i \in DOMAIN read : ~read[i].ok
  <2>1. PICK i \in 1..N : ~ask(i).ok
    BY <1>6, <1>7
  <2>2. Damaged
    BY <1>5, <2>1, Answers
  <2> QED
    BY <1>3, <1>7, <2>2
<1>8. CASE ~\E i \in DOMAIN read : ~read[i].ok
  <2>1. \A i \in 1..N : read[i].samples = at(stack[i])
    <3>1. TAKE i \in 1..N
    <3>2. ask(i) = Found(at(stack[i]))
      BY <1>5, <1>6, <1>8, Answers
    <3> QED
      BY <1>6, <3>2, Answers
  <2>2. got = [i \in 1..N |-> read[i].samples]
    BY <1>6
  <2> HIDE DEF read
  <2>3. \A i \in 1..N : got[i] = at(stack[i])
    BY <2>1, <2>2
  <2>4. got = [i \in 1..N |-> got[i]]
    BY <2>2
  <2> HIDE DEF got
  <2>5. ASSUME NEW table \in Tables
        PROVE  IsSamples(at(table), table, s, times) /\ at(table) \in Seq(Sample)
    <3>1. IsSamples(at(table), table, s, times)
      BY <1>2, SamplesAtIs
    <3> QED
      BY <3>1 DEF IsSamples
  <2> HIDE DEF at
  <2>6. got \in Seq(Seq(Sample)) /\ Len(got) = N
    <3>1. \A i \in 1..N : got[i] \in Seq(Sample)
      BY <1>1, <2>3, <2>5
    <3>2. got \in [1..N -> Seq(Sample)]
      BY <2>4, <3>1
    <3> QED
      BY <1>1, <3>2
  <2>7. /\ parts \in Seq(Seq(Sample)) /\ Len(parts) = N + 1
        /\ \A i \in 1..N : parts[i] = got[i]
        /\ parts[N + 1] = at(memtable)
    <3>1. at(memtable) \in Seq(Sample)
      BY <1>2, <2>5
    <3> QED
      BY <1>4, <2>6, <3>1, AppendProperties
  <2> HIDE DEF parts
  <2>8. ASSUME NEW i \in 1..N + 1 PROVE IsSamples(parts[i], stack[i], s, times)
    <3>1. i \in 1..N \/ i = N + 1
      BY <1>1
    <3>2. parts[i] = at(stack[i])
      BY <1>1, <2>3, <2>7, <3>1
    <3> QED
      BY <1>1, <2>5, <3>2
  <2>9. PartsOf(parts, stack, N + 1, s, times)
    BY <2>7, <2>8 DEF PartsOf
  <2>10. N + 1 \in Nat /\ stack \in [1..N + 1 -> Tables] /\ Layers(stack, N + 1, written)
    BY <1>1 DEF Stacked, N
  <2>11. Merged(FlattenSeq(parts)) = SamplesAt(written, s, times)
    BY <1>2, <2>9, <2>10, MergedIs
  <2> QED
    BY <1>3, <1>8, <2>11 DEF times
<1> QED
  BY <1>7, <1>8

HasBlock(B, s) == \E n \in 1..Len(B) : B[n].series = s
HasSample(table, s) == \E t \in Times : table[<<s, t>>] # None

\* A table has a block of a series exactly if it has a sample of it.
LEMMA SeriesOfBlocks ==
    ASSUME NEW table \in Tables, NEW B, BlocksOf(B, table, Series), NEW s \in Series
    PROVE  HasBlock(B, s) <=> HasSample(table, s)
<1>1. ASSUME NEW n \in 1..Len(B), B[n].series = s PROVE \E t \in Times : table[<<s, t>>] # None
  <2>1. 1 \in 1..Len(B[n].samples)
    BY BlockFacts
  <2>2. \A m \in 1..Len(B[n].samples) :
            LET x == B[n].samples[m]
            IN  /\ x.timestamp \in Times
                /\ x.value = table[<<B[n].series, x.timestamp>>] /\ x.value # None
    BY Zenon DEF BlocksOf
  <2>3. /\ B[n].samples[1].timestamp \in Times
        /\ table[<<s, B[n].samples[1].timestamp>>] # None
    BY <1>1, <2>1, <2>2
  <2> QED
    BY <2>3
<1>2. ASSUME NEW t \in Times, table[<<s, t>>] # None PROVE \E n \in 1..Len(B) : B[n].series = s
  BY <1>2 DEF BlocksOf
<1> QED
  BY <1>1, <1>2 DEF HasBlock, HasSample

\* series: those that have a sample.
LEMMA SeriesIs ==
    ASSUME ReadsTypeOK, NEW stack, Stacked(stack)
    PROVE  series = {s \in Series : \E t \in Times : written[<<s, t>>] # None}
<1> DEFINE N == Len(segments)
           B(i) == blocks_from_snapshots(stack[i])
           listed(i) == {e.series : e \in ToSet(segments[i].index)}
           inMemory == {s \in Series : Samples(memtable, s) # <<>>}
<1>1. /\ N \in Nat /\ DOMAIN segments = 1..N /\ stack[N + 1] = memtable
      /\ \A i \in 1..N + 1 : stack[i] \in Tables
  BY StackFacts
<1>2. memtable \in Tables
  BY DEF ReadsTypeOK
<1>3. series = (UNION {listed(i) : i \in DOMAIN segments}) \cup inMemory
  BY DEF series
<1>4. ASSUME NEW i \in 1..N
      PROVE  \A s : s \in listed(i) <=> s \in Series /\ \E t \in Times : stack[i][<<s, t>>] # None
  <2>1. /\ stack[i] \in Tables /\ BlocksOf(B(i), stack[i], Series)
        /\ DOMAIN segments[i].index = 1..Len(B(i)) /\ segments[i].index = IndexOf(B(i))
    BY <1>1, StackFacts
  <2> HIDE DEF B
  <2>2. \A n \in 1..Len(B(i)) : segments[i].index[n].series = B(i)[n].series /\ B(i)[n].series \in Series
    BY <2>1, IndexIs, BlockFacts
  <2>3. \A s : s \in listed(i) <=> HasBlock(B(i), s)
    BY <2>1, <2>2 DEF ToSet, HasBlock
  <2>4. ASSUME NEW s
        PROVE  s \in listed(i) <=> s \in Series /\ \E t \in Times : stack[i][<<s, t>>] # None
    <3>1. CASE s \in Series
      <4> HIDE DEF listed
      <4>1. HasBlock(B(i), s) <=> HasSample(stack[i], s)
        BY <2>1, <3>1, SeriesOfBlocks, Zenon
      <4> QED
        BY <2>3, <3>1, <4>1 DEF HasSample
    <3>2. CASE s \notin Series
      BY <2>2, <2>3, <3>2 DEF HasBlock
    <3> QED
      BY <3>1, <3>2
  <2> QED
    BY <2>4
<1>5. ASSUME NEW s \in Series
      PROVE  s \in inMemory <=> \E t \in Times : memtable[<<s, t>>] # None
  <2>1. IsSamples(Samples(memtable, s), memtable, s, Times)
    BY <1>2, SamplesAtIs DEF Samples
  <2>2. ASSUME NEW t \in Times, memtable[<<s, t>>] # None PROVE Samples(memtable, s) # <<>>
    <3>1. \E i \in 1..Len(Samples(memtable, s)) : TRUE
      BY <2>1, <2>2 DEF IsSamples
    <3>2. \A i \in 1..Len(<<>>) : FALSE
      BY EmptySeq
    <3> QED
      BY <3>1, <3>2
  <2>3. ASSUME Samples(memtable, s) # <<>> PROVE \E t \in Times : memtable[<<s, t>>] # None
    <3>1. Times \in SUBSET Times
      OBVIOUS
    <3> QED
      BY <1>2, <2>3, <3>1, SamplesAtNone DEF Samples
  <2> QED
    BY <2>2, <2>3
<1>6. \A s : s \in series <=> (\E i \in 1..N : s \in listed(i)) \/ s \in inMemory
  <2> DEFINE U == {listed(i) : i \in DOMAIN segments}
             V == UNION U
  <2>1. \A x : x \in U <=> \E i \in 1..N : x = listed(i)
    BY <1>1
  <2>2. series = V \cup inMemory
    BY <1>3
  <2> HIDE DEF U, listed, inMemory
  <2>3. \A s : s \in V <=> \E i \in 1..N : s \in listed(i)
    <3>1. \A s : s \in V <=> \E x \in U : s \in x
      OBVIOUS
    <3> HIDE DEF V
    <3> QED
      BY <2>1, <3>1
  <2> HIDE DEF V
  <2> QED
    BY <2>2, <2>3, Zenon
<1> HIDE DEF listed
<1>7. ASSUME NEW s \in Series
      PROVE  s \in series <=> \E i \in 1..N + 1 : \E t \in Times : stack[i][<<s, t>>] # None
  <2>1. \A i \in 1..N + 1 : i \in 1..N \/ i = N + 1
    BY <1>1
  <2>2. N + 1 \in 1..N + 1 /\ \A i \in 1..N : i \in 1..N + 1
    BY <1>1
  <2> HIDE DEF inMemory
  <2> QED
    BY <1>1, <1>4, <1>5, <1>6, <2>1, <2>2
<1>8. ASSUME NEW s \in Series, NEW t \in Times
      PROVE  written[<<s, t>>] # None <=> \E i \in 1..N + 1 : stack[i][<<s, t>>] # None
  <2>1. <<s, t>> \in Keys
    BY DEF Keys
  <2>2. Layers(stack, N + 1, written)
    BY DEF Stacked
  <2> QED
    BY <2>1, <2>2 DEF Layers
<1>9. \A s \in series : s \in Series
  BY <1>4, <1>6
<1> QED
  BY <1>7, <1>8, <1>9

-----------------------------------------------------------------------------
(* The invariant is inductive.                                             *)

\* The empty table, and one that has a value.
LEMMA EmptyTable ==
    /\ Empty \in Tables /\ \A key \in Keys : Empty[key] = None
    /\ \A table \in Tables : table # Empty => \E key \in Keys : table[key] # None
<1>1. Empty \in Tables /\ \A key \in Keys : Empty[key] = None
  BY DEF Empty, Tables, None
<1>2. ASSUME NEW table \in Tables, \A key \in Keys : table[key] = None PROVE table = Empty
  BY <1>2 DEF Empty, Tables
<1> QED
  BY <1>1, <1>2

\* A table that has a value has a block.
LEMMA SomeBlock ==
    ASSUME NEW table \in Tables, NEW B, BlocksOf(B, table, Series),
           NEW key \in Keys, table[key] # None
    PROVE  B # <<>>
<1>1. PICK s \in Series, t \in Times : key = <<s, t>>
  BY DEF Keys
<1>2. \E i \in 1..Len(B) : TRUE
  BY <1>1 DEF BlocksOf
<1>3. \A i \in 1..Len(<<>>) : FALSE
  BY EmptySeq
<1> QED
  BY <1>2, <1>3

\* A table that has a value is written and the file is accepted, unless it exceeds a
\* limit.
LEMMA PublishIs ==
    ASSUME NEW table \in Tables, NEW key \in Keys, table[key] # None, NEW others,
           Publish(table, others)
    PROVE  LET B == blocks_from_snapshots(table)
           IN  \/ /\ segments' = Append(others, write_segment_file(B)) /\ phase' = phase
                  /\ Undamaged(write_segment_file(B), B)
               \/ TooLarge(table) /\ phase' = "failed" /\ segments' = segments
<1> DEFINE B == blocks_from_snapshots(table)
<1>1. BlocksOf(B, table, Series)
  BY BlocksAre
<1>2. IF Writable(B) /\ Opens(write_segment_file(B))
      THEN segments' = Append(others, write_segment_file(B)) /\ UNCHANGED phase
      ELSE phase' = "failed" /\ UNCHANGED segments
  BY DEF Publish
<1>3. TooLarge(table) <=> \/ Len(B) > MaxBlocks
                          \/ \E i \in DOMAIN B : ~FitsBlock(B[i])
                          \/ ~FitsIndex(IndexOf(B))
  BY DEF TooLarge
<1> HIDE DEF B
<1>4. Len(B) \in Nat /\ DOMAIN B = 1..Len(B) /\ MaxBlocks \in Nat
  <2>1. B \in Seq(Block)
    BY <1>1 DEF BlocksOf
  <2> QED
    BY <2>1, LenProperties, ReadBounds
<1>5. Within(B) <=> ~TooLarge(table)
  <2>1. Len(B) <= MaxBlocks <=> ~(Len(B) > MaxBlocks)
    BY <1>4
  <2> QED
    BY <1>3, <1>4, <2>1 DEF Within
<1>6. CASE Within(B)
  <2>1. Undamaged(write_segment_file(B), B)
    BY <1>1, <1>6, SomeBlock, WrittenIs
  <2>2. Writable(B) /\ Opens(write_segment_file(B))
    BY <1>1, <2>1, WrittenOpens
  <2>3. segments' = Append(others, write_segment_file(B)) /\ phase' = phase
    BY <1>2, <2>2
  <2> QED
    BY <2>1, <2>3 DEF B
<1>7. CASE ~Within(B)
  <2>1. ~Writable(B)
    BY <1>4, <1>7 DEF Writable, validate_blocks, Within
  <2>2. TooLarge(table) /\ phase' = "failed" /\ segments' = segments
    BY <1>2, <1>5, <1>7, <2>1
  <2> QED
    BY <2>2
<1> QED
  BY <1>6, <1>7

\* A mutation that fails leaves everything but the phase as it was.
LEMMA FailedStep ==
    ASSUME ReadsInv, phase' = "failed", UNCHANGED <<memtable, segments, written, nput, ndamage>>,
           ndamage = 0 => TooLarge(memtable) \/ TooLarge(Compacted)
    PROVE  ReadsInv'
<1>1. ReadsTypeOK
  BY DEF ReadsInv
<1>2. PICK stack : Stacked(stack)
  BY DEF ReadsInv
<1>3. ReadsTypeOK'
  BY <1>1 DEF ReadsTypeOK
<1>4. Stacked(stack)'
  BY <1>2 DEF Stacked
<1>5. Compacted' = Compacted
  BY DEF Compacted, Assignments
<1>6. OnlyDamageOrSizeFails'
  BY <1>5 DEF OnlyDamageOrSizeFails
<1> QED
  BY <1>3, <1>4, <1>6 DEF ReadsInv

LEMMA ReadsInit ==
    ASSUME Init
    PROVE  ReadsInv
<1>1. ReadsTypeOK
  <2>1. segments \in Seq(SegmentFile)
    BY EmptySeq DEF Init
  <2> QED
    BY <2>1, EmptyTable DEF Init, ReadsTypeOK
<1> DEFINE stack == [i \in 1..1 |-> Empty]
<1>2. Len(segments) = 0
  BY EmptySeq DEF Init
<1>3. stack \in [1..1 -> Tables] /\ stack[1] = Empty
  BY EmptyTable
<1> HIDE DEF stack
<1>4. Layers(stack, 1, written)
  BY <1>3, EmptyTable DEF Layers, Init
<1>5. Stacked(stack)
  BY <1>2, <1>3, <1>4 DEF Stacked, Init
<1>6. OnlyDamageOrSizeFails
  BY DEF Init, OnlyDamageOrSizeFails
<1> QED
  BY <1>1, <1>5, <1>6 DEF ReadsInv

\* A put changes memory, which is on top.
LEMMA PutStep ==
    ASSUME ReadsInv, NEW s \in Series, NEW t \in Times, Put(s, t)
    PROVE  ReadsInv'
<1> DEFINE N == Len(segments)
           k == <<s, t>>
           v == nput + 1
<1>1. ReadsTypeOK /\ OnlyDamageOrSizeFails
  BY DEF ReadsInv
<1>2. PICK stack : Stacked(stack)
  BY DEF ReadsInv
<1>3. /\ N \in Nat /\ stack[N + 1] = memtable
      /\ stack \in [1..N + 1 -> Tables] /\ Layers(stack, N + 1, written)
  BY <1>1, <1>2, StackFacts DEF Stacked
<1>4. /\ memtable' = [memtable EXCEPT ![k] = v] /\ written' = [written EXCEPT ![k] = v]
      /\ segments' = segments /\ phase' = "ready" /\ ndamage' = ndamage /\ nput' = v
  BY DEF Put
<1>5. /\ memtable \in Tables /\ written \in Tables /\ k \in Keys /\ v \in Nat /\ v # None
  BY <1>1 DEF ReadsTypeOK, Keys, None
<1> HIDE DEF k, v
<1>6. /\ memtable' \in Tables /\ written' \in Tables
      /\ memtable'[k] = v /\ written'[k] = v
      /\ \A q \in Keys : q # k => memtable'[q] = memtable[q] /\ written'[q] = written[q]
  BY <1>4, <1>5 DEF Tables
<1>7. ReadsTypeOK'
  BY <1>1, <1>4, <1>5, <1>6 DEF ReadsTypeOK
<1>8. OnlyDamageOrSizeFails'
  BY <1>1, <1>4 DEF OnlyDamageOrSizeFails
<1>9. PICK new : new = [stack EXCEPT ![N + 1] = memtable']
  OBVIOUS
<1>10. N + 1 \in 1..N + 1 /\ \A i \in 1..N : i \in 1..N + 1 /\ i # N + 1
  BY <1>3
<1>11. /\ new \in [1..N + 1 -> Tables] /\ new[N + 1] = memtable'
       /\ \A i \in 1..N + 1 : i # N + 1 => new[i] = stack[i]
  BY <1>3, <1>6, <1>9, <1>10
<1>12. Layers(new, N + 1, written')
  <2>1. ASSUME NEW q \in Keys, q # k
        PROVE  written'[q] = written[q] /\ \A i \in 1..N + 1 : new[i][q] = stack[i][q]
    BY <1>3, <1>6, <1>11, <2>1
  <2>2. /\ written'[k] # None /\ new[N + 1][k] = written'[k]
        /\ \A j \in 1..N + 1 : N + 1 < j => FALSE
    BY <1>3, <1>5, <1>6, <1>11
  <2>3. ASSUME NEW q \in Keys
        PROVE  \/ written'[q] = None /\ \A i \in 1..N + 1 : new[i][q] = None
               \/ /\ written'[q] # None
                  /\ \E i \in 1..N + 1 : /\ new[i][q] = written'[q]
                                         /\ \A j \in 1..N + 1 : i < j => new[j][q] = None
    <3>1. CASE q = k
      BY <1>10, <2>2, <3>1
    <3>2. CASE q # k
      <4>1. \/ written[q] = None /\ \A i \in 1..N + 1 : stack[i][q] = None
            \/ /\ written[q] # None
               /\ \E i \in 1..N + 1 : /\ stack[i][q] = written[q]
                                      /\ \A j \in 1..N + 1 : i < j => stack[j][q] = None
        BY <1>3 DEF Layers
      <4> QED
        BY <2>1, <3>2, <4>1
    <3> QED
      BY <3>1, <3>2
  <2> QED
    BY <2>3 DEF Layers
<1>13. Stacked(new)'
  <2>1. \A i \in 1..N : new[i] = stack[i]
    BY <1>10, <1>11
  <2>2. /\ \A i \in 1..N : FileOf(segments[i], blocks_from_snapshots(stack[i]))
        /\ ndamage = 0 => \A i \in 1..N : Undamaged(segments[i], blocks_from_snapshots(stack[i]))
    BY <1>2 DEF Stacked
  <2>3. Len(segments') = N
    BY <1>4
  <2> QED
    BY <1>4, <1>11, <1>12, <2>1, <2>2, <2>3 DEF Stacked
<1> QED
  BY <1>7, <1>8, <1>13 DEF ReadsInv

\* A file of a table on top of the others, and an empty memory above it.
LEMMA FlushStep ==
    ASSUME ReadsInv, Flush
    PROVE  ReadsInv'
<1> DEFINE N == Len(segments)
           B == blocks_from_snapshots(memtable)
           file == write_segment_file(B)
<1>1. ReadsTypeOK /\ OnlyDamageOrSizeFails
  BY DEF ReadsInv
<1>2. PICK stack : Stacked(stack)
  BY DEF ReadsInv
<1>3. /\ N \in Nat /\ stack[N + 1] = memtable
      /\ stack \in [1..N + 1 -> Tables] /\ Layers(stack, N + 1, written)
  BY <1>1, <1>2, StackFacts DEF Stacked
<1>4. /\ memtable \in Tables /\ memtable # Empty /\ segments \in Seq(SegmentFile)
      /\ phase = "ready" /\ Publish(memtable, segments)
      /\ memtable' = IF phase' = "ready" THEN Empty ELSE memtable
      /\ written' = written /\ nput' = nput /\ ndamage' = ndamage
  BY <1>1 DEF Flush, ReadsTypeOK
<1>5. PICK key \in Keys : memtable[key] # None
  BY <1>4, EmptyTable
<1>6. \/ segments' = Append(segments, file) /\ phase' = "ready" /\ Undamaged(file, B)
      \/ TooLarge(memtable) /\ phase' = "failed" /\ segments' = segments
  BY <1>4, <1>5, PublishIs
<1>7. CASE TooLarge(memtable) /\ phase' = "failed" /\ segments' = segments
  <2>1. memtable' = memtable
    BY <1>4, <1>7
  <2> QED
    BY <1>4, <1>7, <2>1, FailedStep
<1>8. SUFFICES ASSUME segments' = Append(segments, file), phase' = "ready", Undamaged(file, B)
               PROVE  ReadsInv'
  BY <1>6, <1>7
<1>9. BlocksOf(B, memtable, Series) /\ FileOf(file, B)
  BY <1>4, <1>8, BlocksAre DEF Undamaged
<1> HIDE DEF file
<1>10. file \in SegmentFile
  <2> HIDE DEF B
  <2> QED
    BY <1>4, <1>9, FileIs
<1>11. /\ segments' \in Seq(SegmentFile) /\ Len(segments') = N + 1
       /\ \A i \in 1..N : segments'[i] = segments[i]
       /\ segments'[N + 1] = file
  BY <1>4, <1>8, <1>10, AppendProperties
<1>12. memtable' = Empty /\ memtable' \in Tables
  BY <1>4, <1>8, EmptyTable
<1>13. ReadsTypeOK' /\ OnlyDamageOrSizeFails'
  BY <1>1, <1>4, <1>8, <1>11, <1>12 DEF ReadsTypeOK, OnlyDamageOrSizeFails
<1>14. PICK new : new = [i \in 1..N + 2 |-> IF i = N + 2 THEN Empty ELSE stack[i]]
  OBVIOUS
<1>15. /\ N + 1 \in 1..N + 1 /\ N + 2 \in 1..N + 2 /\ (N + 1) + 1 = N + 2
       /\ \A i \in 1..N + 1 : i \in 1..N + 2 /\ i # N + 2 /\ i < N + 2
       /\ \A i \in 1..N + 2 : i = N + 2 \/ i \in 1..N + 1
       /\ \A i \in 1..N + 1 : i = N + 1 \/ i \in 1..N
       /\ \A i \in 1..N : i \in 1..N + 1
  BY <1>3
<1>16. /\ new \in [1..N + 2 -> Tables] /\ new[N + 2] = Empty
       /\ \A i \in 1..N + 1 : new[i] = stack[i]
  <2>1. \A i \in 1..N + 2 : new[i] = IF i = N + 2 THEN Empty ELSE stack[i]
    BY <1>14
  <2>2. \A i \in 1..N + 2 : new[i] \in Tables
    BY <1>3, <1>15, <2>1, EmptyTable
  <2> QED
    BY <1>14, <1>15, <2>1, <2>2
<1>17. Layers(new, N + 2, written)
  <2>1. ASSUME NEW q \in Keys
        PROVE  \/ written[q] = None /\ \A i \in 1..N + 2 : new[i][q] = None
               \/ /\ written[q] # None
                  /\ \E i \in 1..N + 2 : /\ new[i][q] = written[q]
                                         /\ \A j \in 1..N + 2 : i < j => new[j][q] = None
    <3>1. new[N + 2][q] = None /\ \A i \in 1..N + 1 : new[i][q] = stack[i][q]
      BY <1>16, EmptyTable
    <3>2. \/ written[q] = None /\ \A i \in 1..N + 1 : stack[i][q] = None
          \/ /\ written[q] # None
             /\ \E i \in 1..N + 1 : /\ stack[i][q] = written[q]
                                    /\ \A j \in 1..N + 1 : i < j => stack[j][q] = None
      BY <1>3 DEF Layers
    <3>3. CASE written[q] = None
      BY <1>15, <3>1, <3>2, <3>3
    <3>4. CASE written[q] # None
      <4>1. PICK i \in 1..N + 1 : /\ stack[i][q] = written[q]
                                  /\ \A j \in 1..N + 1 : i < j => stack[j][q] = None
        BY <3>2, <3>4
      <4>2. i \in 1..N + 2 /\ new[i][q] = written[q]
        BY <1>15, <3>1, <4>1
      <4>3. \A j \in 1..N + 2 : i < j => new[j][q] = None
        BY <1>15, <3>1, <4>1
      <4> QED
        BY <3>4, <4>2, <4>3
    <3> QED
      BY <3>3, <3>4
  <2> QED
    BY <2>1 DEF Layers
<1>18. Stacked(new)'
  <2>1. /\ \A i \in 1..N : FileOf(segments[i], blocks_from_snapshots(stack[i]))
        /\ ndamage = 0 => \A i \in 1..N : Undamaged(segments[i], blocks_from_snapshots(stack[i]))
    BY <1>2 DEF Stacked
  <2>2. new[N + 1] = memtable
    BY <1>3, <1>15, <1>16
  <2>3. FileOf(file, blocks_from_snapshots(new[N + 1])) /\ Undamaged(file, blocks_from_snapshots(new[N + 1]))
    BY <1>8, <1>9, <2>2
  <2>4. ASSUME NEW i \in 1..N + 1
        PROVE  /\ FileOf(segments'[i], blocks_from_snapshots(new[i]))
               /\ ndamage = 0 => Undamaged(segments'[i], blocks_from_snapshots(new[i]))
    <3>1. CASE i = N + 1
      BY <1>11, <2>3, <3>1
    <3>2. CASE i \in 1..N
      BY <1>11, <1>15, <1>16, <2>1, <3>2
    <3> QED
      BY <1>15, <3>1, <3>2
  <2>5. Len(segments') + 1 = N + 2 /\ Len(segments') = N + 1
    BY <1>11, <1>15
  <2> HIDE DEF B
  <2> QED
    BY <1>4, <1>12, <1>16, <1>17, <2>4, <2>5 DEF Stacked
<1> QED
  BY <1>13, <1>18 DEF ReadsInv

\* The same, as compact fills one map for each series.
AssignsAll(F, w, s, times) == \A t \in times : Assigned(F, t) = w[<<s, t>>]

LEMMA AssignedAre ==
    ASSUME NEW n \in Nat, NEW stack \in [1..n -> Tables], NEW w \in Tables, Layers(stack, n, w),
           NEW s \in Series, NEW times \in SUBSET Times,
           NEW parts, PartsOf(parts, stack, n, s, times)
    PROVE  AssignsAll(FlattenSeq(parts), w, s, times)
<1>1. \A t \in times : Assigned(FlattenSeq(parts), t) = w[<<s, t>>]
  BY AssignedIs, ZenonT(60)
<1> QED
  BY <1>1 DEF AssignsAll

\* What compact assigns is what the tables of the segments make up.
LEMMA CompactedIs ==
    ASSUME ReadsTypeOK, NEW stack, Stacked(stack),
           \A i \in DOMAIN segments : \A n \in DOMAIN segments[i].index : Blocks(segments[i])[n].ok,
           NEW low, low = [i \in 1..Len(segments) |-> stack[i]]
    PROVE  Compacted \in Tables /\ Layers(low, Len(segments), Compacted)
<1> DEFINE N == Len(segments)
           inner(i, s) == [n \in DOMAIN segments[i].index |->
               IF segments[i].index[n].series = s THEN Blocks(segments[i])[n].samples ELSE <<>>]
           parts(s) == [i \in DOMAIN segments |-> FlattenSeq(inner(i, s))]
<1>1. /\ N \in Nat /\ DOMAIN segments = 1..N
      /\ \A i \in 1..N + 1 : stack[i] \in Tables
  BY StackFacts
<1>2. \A i \in 1..N : low[i] = stack[i] /\ stack[i] \in Tables
  BY <1>1
<1>3. low \in [1..N -> Tables]
  BY <1>2
<1>4. PICK w \in Tables : Layers(low, N, w)
  BY <1>1, <1>3, LayersExist
<1>5. ASSUME NEW s \in Series, NEW t \in Times
      PROVE  Assigned(Assignments(s), t) = w[<<s, t>>]
  <2>1. ASSUME NEW i \in 1..N
        PROVE  /\ FlattenSeq(inner(i, s)) \in Seq(Sample)
               /\ IsSamples(FlattenSeq(inner(i, s)), low[i], s, Times)
    <3> DEFINE B == blocks_from_snapshots(stack[i])
               segment == segments[i]
    <3>1. /\ stack[i] \in Tables /\ BlocksOf(B, stack[i], Series) /\ FileOf(segment, B)
          /\ DOMAIN segment.index = 1..Len(B)
      BY <1>2, StackFacts
    <3> HIDE DEF B
    <3>2. ASSUME NEW n \in 1..Len(B) PROVE read_block(segment, segment.index[n]).ok
      <4>1. Blocks(segment)[n] = read_block(segment, segment.index[n])
        BY <3>1 DEF Blocks
      <4>2. Blocks(segment)[n].ok
        BY <1>1, <3>1
      <4> QED
        BY <4>1, <4>2
    <3> HIDE DEF segment
    <3>3. LET F == FlattenSeq([n \in DOMAIN segment.index |->
                       IF segment.index[n].series = s THEN Blocks(segment)[n].samples ELSE <<>>])
          IN  F \in Seq(Sample) /\ IsSamples(F, stack[i], s, Times)
      BY <3>1, <3>2, CompactReads
    <3> QED
      BY <1>2, <3>3 DEF segment
  <2>2. Assignments(s) = FlattenSeq(parts(s))
    BY DEF Assignments
  <2>3. parts(s) = [i \in 1..N |-> FlattenSeq(inner(i, s))]
    BY <1>1
  <2> HIDE DEF parts, inner
  <2>4. parts(s) \in [1..N -> Seq(Sample)] /\ \A i \in 1..N : parts(s)[i] = FlattenSeq(inner(i, s))
    BY <2>1, <2>3
  <2>5. parts(s) \in Seq(Seq(Sample)) /\ Len(parts(s)) = N
    BY <1>1, <2>4
  <2>6. PartsOf(parts(s), low, N, s, Times)
    BY <2>1, <2>4, <2>5 DEF PartsOf
  <2>7. Assigned(FlattenSeq(parts(s)), t) = w[<<s, t>>]
    <3>1. PICK times : times = Times
      OBVIOUS
    <3> DEFINE P == parts(s)
    <3>2. PartsOf(P, low, N, s, times) /\ times \in SUBSET Times
      BY <2>6, <3>1
    <3> HIDE DEF P, N
    <3>3. AssignsAll(FlattenSeq(P), w, s, times)
      BY <1>1, <1>3, <1>4, <3>2, AssignedAre
    <3> QED
      BY <3>1, <3>3 DEF P, AssignsAll
  <2> QED
    BY <2>2, <2>7
<1>6. ASSUME NEW k \in Keys PROVE Assigned(Assignments(k[1]), k[2]) = w[k]
  <2>1. k[1] \in Series /\ k[2] \in Times /\ k = <<k[1], k[2]>>
    BY DEF Keys
  <2> QED
    BY <1>5, <2>1
<1>7. Compacted = w
  BY <1>4, <1>6 DEF Compacted, Tables
<1> QED
  BY <1>4, <1>7

\* Two tables, the lower one made up of all but the uppermost, are like all of them.
LEMMA Folded ==
    ASSUME NEW n \in Nat, NEW stack \in [1..n + 1 -> Tables], NEW w, Layers(stack, n + 1, w),
           NEW low, \A i \in 1..n : low[i] = stack[i], NEW c, Layers(low, n, c),
           NEW new, new[1] = c, new[2] = stack[n + 1]
    PROVE  Layers(new, 2, w)
<1>1. /\ n + 1 \in 1..n + 1
      /\ \A i \in 1..n : i \in 1..n + 1 /\ i < n + 1
      /\ \A i \in 1..n + 1 : i = n + 1 \/ i \in 1..n
  OBVIOUS
<1>2. /\ 1 \in 1..2 /\ 2 \in 1..2 /\ 1 < 2
      /\ \A i \in 1..2 : i = 1 \/ i = 2
      /\ \A i \in 1..2 : 2 < i => FALSE
  OBVIOUS
<1>3. ASSUME NEW q \in Keys
      PROVE  \/ w[q] = None /\ \A i \in 1..2 : new[i][q] = None
             \/ /\ w[q] # None
                /\ \E i \in 1..2 : /\ new[i][q] = w[q]
                                   /\ \A j \in 1..2 : i < j => new[j][q] = None
  <2>1. \/ w[q] = None /\ \A i \in 1..n + 1 : stack[i][q] = None
        \/ /\ w[q] # None
           /\ \E i \in 1..n + 1 : /\ stack[i][q] = w[q]
                                  /\ \A j \in 1..n + 1 : i < j => stack[j][q] = None
    BY DEF Layers
  <2>2. \/ c[q] = None /\ \A i \in 1..n : stack[i][q] = None
        \/ /\ c[q] # None
           /\ \E i \in 1..n : /\ stack[i][q] = c[q]
                              /\ \A j \in 1..n : i < j => stack[j][q] = None
    BY DEF Layers
  <2>3. CASE w[q] = None
    <3>1. c[q] = None /\ new[2][q] = None
      BY <1>1, <2>1, <2>2, <2>3
    <3> QED
      BY <1>2, <2>3, <3>1
  <2>4. CASE w[q] # None
    <3>1. PICK i \in 1..n + 1 : /\ stack[i][q] = w[q]
                                /\ \A j \in 1..n + 1 : i < j => stack[j][q] = None
      BY <2>1, <2>4
    <3>2. CASE i = n + 1
      <4>1. new[2][q] = w[q]
        BY <3>1, <3>2
      <4> QED
        BY <1>2, <2>4, <4>1
    <3>3. CASE i \in 1..n
      <4>1. new[2][q] = None
        BY <1>1, <3>1, <3>3
      <4>2. c[q] # None
        BY <2>2, <2>4, <3>1, <3>3
      <4>3. PICK m \in 1..n : /\ stack[m][q] = c[q]
                              /\ \A j \in 1..n : m < j => stack[j][q] = None
        BY <2>2, <4>2
      <4>4. ~(m < i) /\ ~(i < m)
        BY <1>1, <2>4, <3>1, <3>3, <4>2, <4>3
      <4>5. new[1][q] = w[q]
        BY <3>1, <3>3, <4>3, <4>4
      <4> QED
        BY <1>2, <2>4, <4>1, <4>5
    <3> QED
      BY <1>1, <3>2, <3>3
  <2> QED
    BY <2>3, <2>4
<1> QED
  BY <1>3 DEF Layers

\* Without damage every block can be read.
LEMMA NothingLost ==
    ASSUME ReadsTypeOK, NEW stack, Stacked(stack), ndamage = 0,
           NEW i \in DOMAIN segments, NEW n \in DOMAIN segments[i].index
    PROVE  read_block(segments[i], segments[i].index[n]).ok
<1> DEFINE B == blocks_from_snapshots(stack[i])
<1>1. Len(segments) \in Nat /\ i \in 1..Len(segments)
  BY StackFacts
<1>2. /\ stack[i] \in Tables /\ BlocksOf(B, stack[i], Series) /\ n \in 1..Len(B)
  BY <1>1, StackFacts
<1>3. Undamaged(segments[i], B)
  BY <1>1 DEF Stacked
<1> HIDE DEF B
<1>4. read_block(segments[i], segments[i].index[n]) = Found(B[n].samples)
  BY <1>2, <1>3, ReadBlockUndamaged
<1> QED
  BY <1>4, Answers

\* One segment for all of them.
LEMMA CompactStep ==
    ASSUME ReadsInv, Compact
    PROVE  ReadsInv'
<1> DEFINE N == Len(segments)
           readable == \A i \in DOMAIN segments : \A n \in DOMAIN segments[i].index :
                          Blocks(segments[i])[n].ok
<1>1. ReadsTypeOK /\ OnlyDamageOrSizeFails
  BY DEF ReadsInv
<1>2. PICK stack : Stacked(stack)
  BY DEF ReadsInv
<1>3. /\ N \in Nat /\ stack[N + 1] = memtable /\ DOMAIN segments = 1..N
      /\ stack \in [1..N + 1 -> Tables] /\ Layers(stack, N + 1, written)
  BY <1>1, <1>2, StackFacts DEF Stacked
<1>4. /\ N > 1 /\ phase = "ready"
      /\ IF readable THEN Publish(Compacted, <<>>) ELSE phase' = "failed" /\ segments' = segments
      /\ memtable' = memtable /\ written' = written /\ nput' = nput /\ ndamage' = ndamage
  BY DEF Compact
<1>5. CASE ~readable
  <2>1. ndamage # 0
    <3>1. PICK i \in DOMAIN segments : \E n \in DOMAIN segments[i].index : ~Blocks(segments[i])[n].ok
      BY <1>5
    <3>2. PICK n \in DOMAIN segments[i].index : ~Blocks(segments[i])[n].ok
      BY <3>1
    <3>3. ~read_block(segments[i], segments[i].index[n]).ok
      BY <3>2 DEF Blocks
    <3> QED
      BY <1>1, <1>2, <3>3, NothingLost
  <2>2. phase' = "failed" /\ segments' = segments
    BY <1>4, <1>5
  <2> QED
    BY <1>4, <2>1, <2>2, FailedStep
<1>6. CASE readable
  <2>1. PICK low : low = [i \in 1..N |-> stack[i]]
    OBVIOUS
  <2>2. Compacted \in Tables /\ Layers(low, N, Compacted)
    BY <1>1, <1>2, <1>6, <2>1, CompactedIs
  <2>3. PICK c : c = Compacted
    OBVIOUS
  <2> DEFINE B == blocks_from_snapshots(c)
             file == write_segment_file(B)
  <2>4. c \in Tables /\ Layers(low, N, c) /\ Publish(c, <<>>)
    BY <1>4, <1>6, <2>2, <2>3
  \* The oldest segment has a sample.
  <2>5. PICK key \in Keys : c[key] # None
    <3> DEFINE C == blocks_from_snapshots(stack[1])
    <3>1. 1 \in 1..N /\ 1 \in 1..N + 1
      BY <1>3, <1>4
    <3>2. stack[1] \in Tables /\ BlocksOf(C, stack[1], Series) /\ FileOf(segments[1], C)
      BY <1>1, <1>2, <3>1, StackFacts
    <3> HIDE DEF C
    <3>3. C # <<>> /\ C \in Seq(Block)
      BY <3>2 DEF FileOf, BlocksOf
    <3>4. 1 \in 1..Len(C)
      BY <3>3, EmptySeq
    <3>5. C[1].series \in Series /\ HasBlock(C, C[1].series)
      BY <3>2, <3>4, BlockFacts DEF HasBlock
    <3>6. HasSample(stack[1], C[1].series)
      BY <3>2, <3>5, SeriesOfBlocks
    <3>7. PICK t \in Times : stack[1][<<C[1].series, t>>] # None
      BY <3>6 DEF HasSample
    <3> DEFINE k == <<C[1].series, t>>
    <3>8. k \in Keys
      BY <3>5 DEF Keys
    <3> HIDE DEF k
    <3>9. low[1][k] # None
      BY <2>1, <3>1, <3>7 DEF k
    <3>10. c[k] # None
      BY <2>4, <3>1, <3>8, <3>9 DEF Layers
    <3> QED
      BY <3>8, <3>10
  <2>6. \/ segments' = Append(<<>>, file) /\ phase' = phase /\ Undamaged(file, B)
        \/ TooLarge(c) /\ phase' = "failed" /\ segments' = segments
    BY <2>4, <2>5, PublishIs
  <2>7. CASE TooLarge(c) /\ phase' = "failed" /\ segments' = segments
    <3>1. TooLarge(Compacted)
      BY <2>3, <2>7
    <3> QED
      BY <1>4, <2>7, <3>1, FailedStep
  <2>8. SUFFICES ASSUME segments' = Append(<<>>, file), phase' = phase, Undamaged(file, B)
                 PROVE  ReadsInv'
    BY <2>6, <2>7
  <2>9. BlocksOf(B, c, Series) /\ FileOf(file, B)
    BY <2>4, <2>8, BlocksAre DEF Undamaged
  <2> HIDE DEF file
  <2>10. file \in SegmentFile
    <3> HIDE DEF B
    <3> QED
      BY <2>4, <2>9, FileIs
  <2>11. segments' \in Seq(SegmentFile) /\ Len(segments') = 1 /\ segments'[1] = file
    BY <2>8, <2>10, EmptySeq, AppendProperties
  <2>12. ReadsTypeOK' /\ OnlyDamageOrSizeFails'
    BY <1>1, <1>4, <2>8, <2>11 DEF ReadsTypeOK, OnlyDamageOrSizeFails
  <2>13. PICK new : new = [i \in 1..2 |-> IF i = 1 THEN c ELSE memtable]
    OBVIOUS
  <2>14. new \in [1..2 -> Tables] /\ new[1] = c /\ new[2] = memtable
    <3>1. memtable \in Tables
      BY <1>1 DEF ReadsTypeOK
    <3>2. new[1] = c /\ new[2] = memtable
      BY <2>13
    <3>3. \A i \in 1..2 : (IF i = 1 THEN c ELSE memtable) \in Tables
      BY <2>4, <3>1
    <3> QED
      BY <2>13, <3>2, <3>3
  <2>15. Layers(new, 2, written)
    <3>1. \A i \in 1..N : low[i] = stack[i]
      BY <2>1
    <3> HIDE DEF N
    <3>2. new[2] = stack[N + 1]
      BY <1>3, <2>14
    <3> QED
      BY <1>3, <2>4, <2>14, <3>1, <3>2, Folded
  <2>16. Stacked(new)'
    <3>1. \A i \in 1..1 : i = 1
      OBVIOUS
    <3>2. Len(segments') + 1 = 2
      BY <2>11
    <3>3. Undamaged(segments'[1], blocks_from_snapshots(new[1]))
      BY <2>8, <2>11, <2>14
    <3>4. FileOf(segments'[1], blocks_from_snapshots(new[1]))
      BY <3>3 DEF Undamaged
    <3>5. \A i \in 1..1 : /\ FileOf(segments'[i], blocks_from_snapshots(new[i]))
                          /\ Undamaged(segments'[i], blocks_from_snapshots(new[i]))
      BY <3>1, <3>3, <3>4
    <3> HIDE DEF B
    <3> QED
      BY <1>4, <2>11, <2>14, <2>15, <3>2, <3>5 DEF Stacked
  <2> QED
    BY <2>12, <2>16 DEF ReadsInv
<1> QED
  BY <1>5, <1>6

\* Without damage a restart reopens every segment and finds what it looks for.
LEMMA ReopenStep ==
    ASSUME ReadsInv, Reopen
    PROVE  ReadsInv'
<1> DEFINE accepted == /\ \A i \in DOMAIN segments : Opens(segments[i])
                       /\ \A k \in Keys : memtable[k] # None => get_in_segments(k[1], k[2]).ok
<1>1. ReadsTypeOK
  BY DEF ReadsInv
<1>2. PICK stack : Stacked(stack)
  BY DEF ReadsInv
<1>3. /\ phase' = IF accepted THEN "ready" ELSE "refused"
      /\ memtable' = memtable /\ segments' = segments /\ written' = written
      /\ nput' = nput /\ ndamage' = ndamage
  BY DEF Reopen
<1>4. ASSUME ndamage = 0 PROVE accepted
  <2>1. ASSUME NEW i \in DOMAIN segments PROVE Opens(segments[i])
    <3> DEFINE B == blocks_from_snapshots(stack[i])
    <3>1. Len(segments) \in Nat /\ i \in 1..Len(segments)
      BY <1>1, <1>2, StackFacts
    <3>2. stack[i] \in Tables /\ BlocksOf(B, stack[i], Series)
      BY <1>1, <1>2, <3>1, StackFacts
    <3>3. Undamaged(segments[i], B)
      BY <1>2, <1>4, <3>1 DEF Stacked
    <3> HIDE DEF B
    <3> QED
      BY <3>2, <3>3, WrittenOpens
  <2>2. ASSUME NEW s \in Series, NEW t \in Times PROVE get_in_segments(s, t).ok
    <3>1. t \in Int
      BY ReadBounds
    <3>2. ~LostAt(s, t)
      BY <1>1, <1>2, <1>4, NothingLost DEF LostAt, Lost
    <3>3. \E x : get_in_segments(s, t) = Found(x)
      BY <1>1, <1>2, <3>1, <3>2, SegmentsAnswer
    <3> QED
      BY <3>3, Answers
  <2>3. \A k \in Keys : k[1] \in Series /\ k[2] \in Times
    BY DEF Keys
  <2> QED
    BY <2>1, <2>2, <2>3
<1> HIDE DEF accepted
<1>5. ReadsTypeOK' /\ OnlyDamageOrSizeFails'
  BY <1>1, <1>3, <1>4 DEF ReadsTypeOK, OnlyDamageOrSizeFails
<1>6. Stacked(stack)'
  BY <1>2, <1>3 DEF Stacked
<1> QED
  BY <1>5, <1>6 DEF ReadsInv

\* Damage to a segment leaves it a file of the same table.
LEMMA DamageStep ==
    ASSUME ReadsInv, NEW i \in DOMAIN segments, NEW file,
           \A table \in Tables :
               FileOf(segments[i], blocks_from_snapshots(table))
                   => FileOf(file, blocks_from_snapshots(table)),
           segments' = [segments EXCEPT ![i] = file], ndamage' = ndamage + 1,
           UNCHANGED <<phase, memtable, written, nput>>
    PROVE  ReadsInv'
<1> DEFINE N == Len(segments)
<1>1. ReadsTypeOK
  BY DEF ReadsInv
<1>2. PICK stack : Stacked(stack)
  BY DEF ReadsInv
<1>3. /\ N \in Nat /\ DOMAIN segments = 1..N /\ segments \in Seq(SegmentFile)
      /\ \A j \in 1..N + 1 : stack[j] \in Tables
  BY <1>1, <1>2, StackFacts DEF ReadsTypeOK
<1>4. /\ stack[i] \in Tables
      /\ BlocksOf(blocks_from_snapshots(stack[i]), stack[i], Series)
      /\ FileOf(segments[i], blocks_from_snapshots(stack[i]))
  BY <1>1, <1>2, <1>3, StackFacts
<1>5. FileOf(file, blocks_from_snapshots(stack[i]))
  BY <1>4
<1>6. file \in SegmentFile
  BY <1>4, <1>5, FileIs
<1>7. /\ segments' \in Seq(SegmentFile) /\ Len(segments') = N
      /\ segments'[i] = file /\ \A j \in 1..N : j # i => segments'[j] = segments[j]
  BY <1>3, <1>6, ExceptSeq
<1>8. ndamage' \in Nat /\ ndamage' # 0
  BY <1>1 DEF ReadsTypeOK
<1>9. ReadsTypeOK' /\ OnlyDamageOrSizeFails'
  BY <1>1, <1>7, <1>8 DEF ReadsTypeOK, OnlyDamageOrSizeFails
<1>10. Stacked(stack)'
  <2>1. \A j \in 1..N : FileOf(segments[j], blocks_from_snapshots(stack[j]))
    BY <1>2 DEF Stacked
  <2>2. \A j \in 1..N : FileOf(segments'[j], blocks_from_snapshots(stack[j]))
    BY <1>5, <1>7, <2>1
  <2>3. /\ stack \in [1..N + 1 -> Tables] /\ stack[N + 1] = memtable
        /\ Layers(stack, N + 1, written)
    BY <1>2 DEF Stacked
  <2> QED
    BY <1>7, <1>8, <2>2, <2>3 DEF Stacked
<1> QED
  BY <1>9, <1>10 DEF ReadsInv

LEMMA DamageBlockStep ==
    ASSUME ReadsInv, NEW i \in DOMAIN segments,
           NEW e \in ToSet(segments[i].index), NEW f \in ToSet(segments[i].index),
           DamageBlock(i, e, IF e = f THEN Garbage ELSE segments[i].blocks[f.block_offset])
    PROVE  ReadsInv'
<1> DEFINE segment == segments[i]
           other == IF e = f THEN Garbage ELSE segment.blocks[f.block_offset]
           data == [segment.blocks EXCEPT ![e.block_offset] = other]
           file == [segment EXCEPT !.blocks = data]
<1>1. /\ segments' = [segments EXCEPT ![i] = file] /\ ndamage' = ndamage + 1
      /\ UNCHANGED <<phase, memtable, written, nput>>
  BY DEF DamageBlock
<1>2. ASSUME NEW table \in Tables, FileOf(segment, blocks_from_snapshots(table))
      PROVE  FileOf(file, blocks_from_snapshots(table))
  <2> DEFINE B == blocks_from_snapshots(table)
             D == {Offsets(B)[n] : n \in 1..Len(B)}
  <2>1. BlocksOf(B, table, Series)
    BY BlocksAre
  <2>2. /\ segment = [intact |-> segment.intact, index |-> IndexOf(B),
                      index_offset |-> Offsets(B)[Len(B) + 1], blocks |-> segment.blocks]
        /\ segment.intact \in SUBSET Envelope
        /\ segment.blocks \in [D -> ToSet(B) \cup {Garbage}]
        /\ B # <<>>
    BY <1>2 DEF FileOf
  <2> HIDE DEF B
  <2>3. ASSUME NEW x \in ToSet(segment.index) PROVE x.block_offset \in D
    <3>1. segment.index = IndexOf(B)
      BY <2>2
    <3>2. /\ DOMAIN IndexOf(B) = 1..Len(B)
          /\ \A n \in 1..Len(B) : IndexOf(B)[n].block_offset = Offsets(B)[n]
      BY <2>1, IndexIs
    <3>3. PICK n \in 1..Len(B) : x = IndexOf(B)[n]
      BY <3>1, <3>2 DEF ToSet
    <3> QED
      BY <3>2, <3>3
  <2> HIDE DEF D
  <2>4. other \in ToSet(B) \cup {Garbage}
    BY <2>2, <2>3
  <2> HIDE DEF other
  <2>5. data \in [D -> ToSet(B) \cup {Garbage}]
    BY <2>2, <2>3, <2>4
  <2> HIDE DEF data
  <2>6. file = [intact |-> segment.intact, index |-> IndexOf(B),
                index_offset |-> Offsets(B)[Len(B) + 1], blocks |-> data]
    BY <2>2
  <2> HIDE DEF file
  <2>7. file.intact = segment.intact /\ file.blocks = data
    BY <2>6
  <2> QED
    BY <2>2, <2>5, <2>6, <2>7 DEF FileOf, D, B
<1> HIDE DEF file
<1> QED
  BY <1>1, <1>2, DamageStep

LEMMA DamageEnvelopeStep ==
    ASSUME ReadsInv, NEW i \in DOMAIN segments, NEW part \in Envelope, DamageEnvelope(i, part)
    PROVE  ReadsInv'
<1> DEFINE segment == segments[i]
           left == segment.intact \ {part}
           file == [segment EXCEPT !.intact = left]
<1>1. /\ segments' = [segments EXCEPT ![i] = file] /\ ndamage' = ndamage + 1
      /\ UNCHANGED <<phase, memtable, written, nput>>
  BY DEF DamageEnvelope
<1>2. ASSUME NEW table \in Tables, FileOf(segment, blocks_from_snapshots(table))
      PROVE  FileOf(file, blocks_from_snapshots(table))
  <2> DEFINE B == blocks_from_snapshots(table)
  <2>1. /\ segment = [intact |-> segment.intact, index |-> IndexOf(B),
                      index_offset |-> Offsets(B)[Len(B) + 1], blocks |-> segment.blocks]
        /\ segment.intact \in SUBSET Envelope
        /\ segment.blocks \in [{Offsets(B)[n] : n \in 1..Len(B)} -> ToSet(B) \cup {Garbage}]
        /\ B # <<>>
    BY <1>2 DEF FileOf
  <2> HIDE DEF B
  <2>2. left \in SUBSET Envelope
    BY <2>1
  <2> HIDE DEF left
  <2>3. file = [intact |-> left, index |-> IndexOf(B),
                index_offset |-> Offsets(B)[Len(B) + 1], blocks |-> segment.blocks]
    BY <2>1
  <2> HIDE DEF file
  <2>4. file.intact = left /\ file.blocks = segment.blocks
    BY <2>3
  <2> QED
    BY <2>1, <2>2, <2>3, <2>4 DEF FileOf, B
<1> HIDE DEF file
<1> QED
  BY <1>1, <1>2, DamageStep

LEMMA ReadsNext ==
    ASSUME ReadsInv, [Next]_vars
    PROVE  ReadsInv'
<1>1. CASE \E s \in Series, t \in Times : Put(s, t)
  BY <1>1, PutStep
<1>2. CASE Flush
  BY <1>2, FlushStep
<1>3. CASE Compact
  BY <1>3, CompactStep
<1>4. CASE Reopen
  BY <1>4, ReopenStep
<1>5. ASSUME NEW i \in DOMAIN segments,
             NEW e \in ToSet(segments[i].index), NEW f \in ToSet(segments[i].index),
             DamageBlock(i, e, IF e = f THEN Garbage ELSE segments[i].blocks[f.block_offset])
      PROVE  ReadsInv'
  BY <1>5, DamageBlockStep
<1>6. CASE \E i \in DOMAIN segments, part \in Envelope : DamageEnvelope(i, part)
  BY <1>6, DamageEnvelopeStep
<1>7. CASE UNCHANGED vars
  BY <1>7 DEF vars, ReadsInv, ReadsTypeOK, Stacked, OnlyDamageOrSizeFails, Compacted, Assignments
<1> QED
  BY <1>1, <1>2, <1>3, <1>4, <1>5, <1>6, <1>7 DEF Next

-----------------------------------------------------------------------------
(* Theorems.                                                               *)

\* Every segment file is that of some table, whatever the medium did to it, and
\* the tables, oldest first, with memory on top make up what was written; without
\* damage every file is as it was written and the store is ready, unless what it
\* had to write was too large.  Flushing, compacting, restarting and damage keep
\* it so.
THEOREM ReadsInvariant == Spec => []ReadsInv
<1>1. Init => ReadsInv
  BY ReadsInit
<1>2. ReadsInv /\ [Next]_vars => ReadsInv'
  BY ReadsNext
<1> QED
  BY <1>1, <1>2, PTL DEF Spec

\* StorageEngine::get, with SegmentReader::get, returns the newest value of exactly
\* the timestamp asked for, or throws because a block is damaged: for any number of
\* series, samples, blocks and segments.
THEOREM GetIsExactAlways == Spec => []GetIsExact
<1>1. ReadsInv => GetIsExact
  <2> SUFFICES ASSUME ReadsInv, NEW s \in Series, NEW t \in QueryTimes
               PROVE  Right(get(s, t), Written(s, {t}))
    BY DEF GetIsExact
  <2>1. PICK stack : Stacked(stack)
    BY DEF ReadsInv
  <2>2. ReadsTypeOK /\ t \in Int
    BY ReadBounds DEF ReadsInv
  <2>3. \/ get(s, t) = Found(SamplesAt(written, s, {t} \cap Times))
        \/ get(s, t) = Corrupt /\ LostAt(s, t)
    BY <2>1, <2>2, GetIs
  <2>4. LostAt(s, t) => Damaged
    BY DEF LostAt, Damaged
  <2> QED
    BY <2>3, <2>4 DEF Right, Written
<1> QED
  BY <1>1, ReadsInvariant, PTL

\* StorageEngine::latest, with SegmentReader::latest, returns the newest value of
\* the greatest timestamp of a series, or throws because a block is damaged.
THEOREM LatestIsExactAlways == Spec => []LatestIsExact
<1>1. ReadsInv => LatestIsExact
  <2> SUFFICES ASSUME ReadsInv, NEW s \in Series
               PROVE  LET all == Written(s, Times)
                      IN  Right(latest(s), IF all = <<>> THEN <<>> ELSE <<all[Len(all)]>>)
    BY DEF LatestIsExact
  <2>1. PICK stack : Stacked(stack)
    BY DEF ReadsInv
  <2>2. \/ latest(s) = Found(LastOf(Samples(written, s)))
        \/ latest(s) = Corrupt /\ Damaged
    BY <2>1, LatestIs DEF ReadsInv
  <2>3. Times \cap Times = Times
    OBVIOUS
  <2>4. Written(s, Times) = Samples(written, s)
    BY <2>3 DEF Written, Samples
  <2> QED
    BY <2>2, <2>4 DEF Right, LastOf
<1> QED
  BY <1>1, ReadsInvariant, PTL

\* StorageEngine::range, with SegmentReader::range, returns the newest value of
\* every timestamp in the half-open interval once, in order, or throws because a
\* block is damaged.
THEOREM RangeIsExactAlways == Spec => []RangeIsExact
<1>1. ReadsInv => RangeIsExact
  <2> SUFFICES ASSUME ReadsInv, NEW s \in Series, NEW start \in QueryTimes, NEW end \in QueryTimes,
                      start <= end
               PROVE  Right(range(s, start, end),
                            Written(s, {t \in QueryTimes : start <= t /\ t < end}))
    BY DEF RangeIsExact
  <2> DEFINE asked == {t \in QueryTimes : start <= t /\ t < end}
             times == {t \in Times : start <= t /\ t < end}
  <2>1. PICK stack : Stacked(stack)
    BY DEF ReadsInv
  <2>2. ReadsTypeOK /\ start \in Int /\ end \in Int
    BY ReadBounds DEF ReadsInv
  <2>3. \/ range(s, start, end) = Found(SamplesAt(written, s, times))
        \/ range(s, start, end) = Corrupt /\ Damaged
    BY <2>1, <2>2, RangeIs
  <2>4. asked \cap Times = times
    BY ReadBounds
  <2> HIDE DEF asked, times
  <2>5. Right(range(s, start, end), Written(s, asked))
    BY <2>3, <2>4 DEF Right, Written
  <2> QED
    BY <2>5 DEF asked
<1> QED
  BY <1>1, ReadsInvariant, PTL

\* StorageEngine::series returns exactly the series that have a sample, from the
\* indexes and from memory, damaged blocks or not.
THEOREM SeriesAreExactAlways == Spec => []SeriesAreExact
<1>1. ReadsInv => SeriesAreExact
  BY SeriesIs DEF ReadsInv, SeriesAreExact
<1> QED
  BY <1>1, ReadsInvariant, PTL

\* SegmentReader::get fails only because of a lost block of the series whose bounds
\* enclose the timestamp: damage elsewhere does not keep a sample from being read.
THEOREM DamageIsContainedAlways == Spec => []DamageIsContained
<1>1. ReadsInv => DamageIsContained
  <2> SUFFICES ASSUME ReadsInv, NEW s \in Series, NEW t \in QueryTimes, ~get(s, t).ok
               PROVE  \E i \in DOMAIN segments : \E n \in DOMAIN segments[i].index :
                          LET e == segments[i].index[n]
                          IN  Lost(i, n) /\ e.series = s /\ t \in e.first_timestamp..e.last_timestamp
    BY DEF DamageIsContained
  <2>1. PICK stack : Stacked(stack)
    BY DEF ReadsInv
  <2>2. ReadsTypeOK /\ t \in Int
    BY ReadBounds DEF ReadsInv
  <2>3. LostAt(s, t)
    BY <2>1, <2>2, GetIs, Answers
  <2>4. PICK i \in DOMAIN segments : \E n \in DOMAIN segments[i].index :
           /\ Lost(i, n) /\ segments[i].index[n].series = s
           /\ segments[i].index[n].first_timestamp <= t /\ t <= segments[i].index[n].last_timestamp
    BY <2>3 DEF LostAt
  <2>5. PICK n \in DOMAIN segments[i].index :
           /\ Lost(i, n) /\ segments[i].index[n].series = s
           /\ segments[i].index[n].first_timestamp <= t /\ t <= segments[i].index[n].last_timestamp
    BY <2>4
  <2>6. /\ segments[i].index[n].first_timestamp \in Int
        /\ segments[i].index[n].last_timestamp \in Int
    <3>1. segments[i] \in SegmentFile
      BY <2>2 DEF ReadsTypeOK
    <3>2. segments[i].index \in Seq(Entry)
      BY <3>1 DEF SegmentFile
    <3>3. segments[i].index[n] \in Entry
      BY <3>2
    <3> QED
      BY <3>3 DEF Entry
  <2> QED
    BY <2>2, <2>5, <2>6
<1> QED
  BY <1>1, ReadsInvariant, PTL

\* What StorageEngine::flush and compact write passes validate_blocks and the checks
\* of SegmentReader, for every limit on blocks, payloads and index: without damage
\* failed_ is set only because what is to be written exceeds one of these limits, and
\* no restart is refused.
THEOREM OnlyDamageOrSizeFailsAlways == Spec => []OnlyDamageOrSizeFails
<1>1. ReadsInv => OnlyDamageOrSizeFails
  BY DEF ReadsInv
<1> QED
  BY <1>1, ReadsInvariant, PTL

=============================================================================
