---------------------------- MODULE WalReplayProofs ----------------------------
(***************************************************************************)
(* Proofs about WalReplay, for every header size, chunk size, set of record *)
(* sizes and number of records.                                             *)
(***************************************************************************)
EXTENDS WalReplay, SequenceTheorems, WellFoundedInduction, TLAPS

-----------------------------------------------------------------------------
(* The inductive invariant.                                                *)

\* Where the record after the first n begins.
Start(n) == IF n = 0 THEN 0 ELSE End(records[n])

\* The records follow one another without a gap or an overlap.
Contiguous ==
    /\ \A i \in 1..Len(records) : records[i].at = IF i = 1 THEN 0 ELSE End(records[i - 1])
    /\ \A i, j \in 1..Len(records) : i < j => End(records[i]) <= records[j].at

\* The file ends inside its last record, or with it.
EndsInLast ==
    /\ records = <<>> => length = 0
    /\ records # <<>> => /\ records[Len(records)].at <= length
                         /\ length <= End(records[Len(records)])
    /\ pc # "appending" /\ records # <<>> => records[Len(records)].at < length

\* What the writer has on its hands.
WriterInv ==
    /\ pc \in {"ready", "appending"} => \A i \in DOMAIN records : records[i].defect = "none"
    /\ pc = "ready" => size_bytes = length /\ length = Start(Len(records))
    /\ pc = "appending" => records # <<>> /\ length < End(records[Len(records)])

\* Outside replay the buffer is gone, and its result is used at most once.
IdleInv ==
    /\ pc # "replaying" => begin = 0 /\ filled = 0 /\ consumed = 0 /\ ~reached_end
    /\ pc \in {"closed", "ready", "appending"} => result = NoResult
    /\ pc = "overtaken" => length < result.valid_bytes + result.incomplete_tail_bytes

\* So far replay has taken a prefix of good records.
PrefixInv ==
    pc \in {"replaying", "replayed", "refused"} =>
        /\ result.records_replayed \in 0..Len(records)
        /\ \A i \in 1..result.records_replayed : Good(i)
        /\ result.valid_bytes = Start(result.records_replayed)

\* The buffer is a window of the file, read up to where the next record begins.
WindowInv ==
    pc = "replaying" =>
        /\ begin + consumed = result.valid_bytes
        /\ consumed <= filled
        /\ begin + filled <= length
        /\ reached_end => begin + filled = length

Inv ==
    /\ TypeOK
    /\ Contiguous
    /\ EndsInLast
    /\ WriterInv
    /\ IdleInv
    /\ PrefixInv
    /\ WindowInv
    /\ BufferIsBounded
    /\ ReplayIsExact

-----------------------------------------------------------------------------
(* Cutting the file.                                                       *)

\* A nonempty set of numbers up to n has a greatest one, the one Max names.
LEMMA MaxOfBounded ==
    ASSUME NEW n \in Nat, NEW S \in SUBSET (1..n), S # {}
    PROVE  Max(S) \in S /\ \A y \in S : y <= Max(S)
<1> DEFINE T == {m \in Nat : n - m \in S}
<1>1. T \subseteq Nat
  OBVIOUS
<1>2. \A y \in S : y \in Nat /\ n - y \in T
  OBVIOUS
<1>3. T # {}
  BY <1>2
<1> HIDE DEF T
<1>4. PICK x \in T : \A y \in T : ~(<<y, x>> \in OpToRel(<, Nat))
  BY <1>1, <1>3, WFMin, NatLessThanWellFounded, Zenon
<1>5. \A y \in T : <<y, x>> \in Nat \X Nat => ~(y < x)
  BY <1>4 DEF OpToRel
<1>6. x \in Nat /\ \A y \in T : x <= y
  <2>1. x \in Nat /\ \A y \in T : y \in Nat
    BY <1>1, <1>4
  <2>2. \A y \in T : ~(y < x)
    BY <1>5, <2>1
  <2> QED
    BY <2>1, <2>2
<1>7. n - x \in S
  BY <1>4 DEF T
<1>8. \A y \in S : n - x >= y
  BY <1>2, <1>6
<1> QED
  BY <1>7, <1>8 DEF Max

\* Cutting the file after n bytes leaves the records that begin before, which are
\* the first ones.
LEMMA CutIsPrefix ==
    ASSUME TypeOK, Contiguous, NEW n \in Nat
    PROVE  \E k \in 0..Len(records) : /\ Cut(n) = SubSeq(records, 1, k)
                                      /\ \A i \in DOMAIN records : i <= k <=> records[i].at < n
<1> DEFINE I == {i \in 1..Len(records) : records[i].at < n}
           k == IF I # {} THEN Max(I) ELSE 0
<1>1. Cut(n) = SubSeq(records, 1, k)
  BY DEF Cut, SelectLastInSeq
<1>2. DOMAIN records = 1..Len(records) /\ Len(records) \in Nat
      /\ \A i \in 1..Len(records) : records[i] \in Record
  BY DEF TypeOK
<1>3. CASE I = {}
  BY <1>1, <1>2, <1>3
<1>4. CASE I # {}
  <2>1. k \in I /\ \A i \in I : i <= k
    BY <1>4, <1>2, MaxOfBounded
  <2> HIDE DEF k
  <2>2. ASSUME NEW i \in 1..Len(records), i < k PROVE records[i].at < n
    <3>1. k \in 1..Len(records) /\ records[k].at < n
      BY <2>1
    <3>2. End(records[i]) <= records[k].at
      BY <1>2, <2>2, <3>1 DEF Contiguous
    <3>3. records[i].at \in Nat /\ records[i].size \in Nat /\ records[k].at \in Nat
      BY <1>2, <3>1, SizesAreNat DEF Record
    <3> QED
      BY <3>1, <3>2, <3>3 DEF End
  <2> QED
    BY <1>1, <1>2, <2>1, <2>2
<1> QED
  BY <1>3, <1>4

\* What TypeOK and the assumptions say of a record, in the form the proofs use.
LEMMA RecordFacts ==
    ASSUME TypeOK
    PROVE  /\ Len(records) \in Nat /\ DOMAIN records = 1..Len(records)
           /\ records # <<>> <=> Len(records) > 0
           /\ \A i \in 1..Len(records) :
                 /\ records[i] \in Record
                 /\ records[i].at \in Nat /\ records[i].size \in Sizes /\ records[i].size \in Nat
                 /\ records[i].size > HeaderSize /\ records[i].size > 0
                 /\ End(records[i]) \in Nat /\ records[i].at < End(records[i])
<1>1. Len(records) \in Nat /\ DOMAIN records = 1..Len(records)
      /\ (records # <<>> <=> Len(records) > 0)
      /\ \A i \in 1..Len(records) : records[i] \in Record
  BY DEF TypeOK
<1>2. ASSUME NEW r \in Record
      PROVE  /\ r.at \in Nat /\ r.size \in Sizes /\ r.size \in Nat
             /\ r.size > HeaderSize /\ r.size > 0
             /\ End(r) \in Nat /\ r.at < End(r)
  <2>1. r.at \in Nat /\ r.size \in Sizes
    BY DEF Record
  <2>2. r.size \in Nat /\ r.size > HeaderSize /\ HeaderSize \in Nat
    BY <2>1, SizesAreNat
  <2> QED
    BY <2>1, <2>2 DEF End
<1> QED
  BY <1>1, <1>2

\* A step that cuts the file leaves a prefix of its records, laid out as before,
\* of which only the last may be torn.
LEMMA CutStep ==
    ASSUME TypeOK, Contiguous, EndsInLast,
           length' \in 0..length, records' = Cut(length'), pc' # "appending"
    PROVE  /\ records' \in Seq(Record)
           /\ Len(records') \in 0..Len(records)
           /\ \A i \in 1..Len(records') : records'[i] = records[i]
           /\ \A i \in DOMAIN records : i <= Len(records') <=> records[i].at < length'
           /\ Contiguous'
           /\ EndsInLast'
<1>0. length \in Nat /\ length' \in Nat /\ length' <= length
  BY DEF TypeOK
<1> DEFINE N == Len(records)
<1>f. /\ N \in Nat /\ DOMAIN records = 1..N
      /\ records # <<>> <=> N > 0
      /\ \A i \in 1..N : /\ records[i] \in Record
                         /\ records[i].at \in Nat
                         /\ End(records[i]) \in Nat
  BY RecordFacts
<1> USE <1>f
<1> HIDE DEF N
<1>1. PICK k \in 0..N :
          /\ records' = SubSeq(records, 1, k)
          /\ \A i \in DOMAIN records : i <= k <=> records[i].at < length'
  BY <1>0, CutIsPrefix DEF N
<1>g. /\ k \in Nat /\ k <= N
      /\ \A i \in 1..N : records[i].at = IF i = 1 THEN 0 ELSE End(records[i - 1])
      /\ \A i, j \in 1..N : i < j => End(records[i]) <= records[j].at
      /\ \A i \in 1..N : i <= k <=> records[i].at < length'
  <2>1. k \in Nat /\ k <= N
    OBVIOUS
  <2>2. \A i \in 1..N : i <= k <=> records[i].at < length'
    BY <1>1
  <2> QED
    BY <2>1, <2>2 DEF Contiguous, N
<1>2. /\ records' \in Seq(Record)
      /\ Len(records') = k
      /\ \A i \in 1..k : records'[i] = records[i]
  <2>1. /\ SubSeq(records, 1, k) \in Seq(Record)
        /\ Len(SubSeq(records, 1, k)) = IF 1 <= k THEN k - 1 + 1 ELSE 0
        /\ \A i \in 1 .. k - 1 + 1 : SubSeq(records, 1, k)[i] = records[1 + i - 1]
    <3>1. \A i \in 1..k : records[i] \in Record
      OBVIOUS
    <3> QED
      BY <3>1, SubSeqProperties
  <2> QED
    BY <1>1, <2>1
<1>3. DOMAIN records' = 1..k /\ (records' # <<>> <=> k > 0)
  BY <1>2
<1>4. Contiguous'
  <2>1. ASSUME NEW i \in 1..k PROVE (records[i].at = IF i = 1 THEN 0 ELSE End(records[i - 1]))'
    <3>1. records[i].at = IF i = 1 THEN 0 ELSE End(records[i - 1])
      BY <1>g
    <3>2. i # 1 => records'[i - 1] = records[i - 1]
      BY <1>2
    <3>3. records'[i] = records[i]
      BY <1>2
    <3> QED
      BY <3>1, <3>2, <3>3 DEF End
  <2>2. ASSUME NEW i \in 1..k, NEW j \in 1..k, i < j PROVE (End(records[i]) <= records[j].at)'
    <3>1. End(records[i]) <= records[j].at
      <4>1. \A m, n \in 1..N : m < n => End(records[m]) <= records[n].at
        BY <1>g
      <4>2. i \in 1..N /\ j \in 1..N
        BY <1>g
      <4> HIDE <1>f
      <4> QED
        BY <2>2, <4>1, <4>2, Zenon
    <3> QED
      BY <1>2, <3>1 DEF End
  <2> QED
    BY <1>2, <2>1, <2>2 DEF Contiguous
<1>5. EndsInLast'
  <2>1. CASE k = 0
    <3>1. N > 0 => ~(records[1].at < length')
      BY <1>1, <2>1
    <3>2. N > 0 => records[1].at = 0
      BY <1>g
    <3>3. length' = 0
      BY <1>0, <3>1, <3>2 DEF EndsInLast, N
    <3> QED
      BY <1>3, <2>1, <3>3 DEF EndsInLast, N
  <2>2. CASE k > 0
    <3>1. records'[Len(records')] = records[k] /\ records[k].at < length'
      <4>1. k \in 1..k /\ k \in 1..N /\ k <= k
        BY <1>g, <2>2
      <4> QED
        BY <1>g, <1>2, <4>1
    <3>2. CASE k = N
      BY <1>0, <1>3, <2>2, <3>1, <3>2 DEF EndsInLast, N
    <3>3. CASE k < N
      <4>0. k + 1 \in 1..N /\ ~(k + 1 <= k)
        BY <2>2, <3>3
      <4>1. ~(records[k + 1].at < length') /\ records[k + 1].at = End(records[k])
        <5>1. ~(records[k + 1].at < length')
          BY <1>1, <4>0
        <5>2. k + 1 # 1 /\ k + 1 - 1 = k
          BY <1>g, <2>2
        <5> QED
          BY <1>g, <4>0, <5>1, <5>2
      <4> QED
        BY <1>0, <1>3, <2>2, <3>1, <3>3, <4>1 DEF EndsInLast, N
    <3> QED
      BY <3>2, <3>3
  <2> QED
    BY <2>1, <2>2
<1> QED
  BY <1>1, <1>2, <1>4, <1>5 DEF N

-----------------------------------------------------------------------------
(* The writer.                                                             *)

\* An empty buffer is within the bound.
LEMMA EmptyIsBounded == filled' = 0 => BufferIsBounded'
  BY SizesAreNat DEF BufferIsBounded

\* append begins a record at the end of a log that is sound.
LEMMA BeginAppendKeeps ==
    ASSUME Inv, NEW size \in Sizes, BeginAppend(size)
    PROVE  Inv'
<1> USE DEF Inv
<1> DEFINE N == Len(records)
           r == [at |-> length, size |-> size, defect |-> "none"]
<1>1. /\ N \in Nat /\ DOMAIN records = 1..N
      /\ records # <<>> <=> N > 0
      /\ length \in Nat /\ size \in Nat /\ size > 0
      /\ \A i \in 1..N : records[i].at \in Nat /\ End(records[i]) \in Nat
                         /\ records[i].at < End(records[i])
  BY RecordFacts, SizesAreNat DEF TypeOK
<1>2. r \in Record /\ End(r) = length + size /\ r.at = length
  BY <1>1 DEF Record, End
<1>3. /\ records' \in Seq(Record)
      /\ Len(records') = N + 1 /\ DOMAIN records' = 1..(N + 1)
      /\ \A i \in 1..N : records'[i] = records[i]
      /\ records'[N + 1] = r
  BY <1>1, <1>2 DEF BeginAppend, TypeOK
<1>4. /\ length' = length /\ pc = "ready" /\ pc' = "appending"
      /\ result' = result /\ size_bytes' = size_bytes
      /\ begin' = begin /\ filled' = filled /\ consumed' = consumed /\ reached_end' = reached_end
  BY DEF BeginAppend, buffer
<1>5. length = Start(N)
  BY <1>4 DEF WriterInv
<1> HIDE DEF N, r
<1>6. TypeOK'
  BY <1>3, <1>4 DEF TypeOK
<1>7. Contiguous'
  <2>1. ASSUME NEW i \in 1..(N + 1)
        PROVE  records'[i].at = IF i = 1 THEN 0 ELSE End(records'[i - 1])
    <3>1. CASE i <= N
      <4>1. i \in 1..N /\ (i # 1 => i - 1 \in 1..N)
        BY <1>1, <3>1
      <4> QED
        BY <1>3, <4>1 DEF Contiguous, N
    <3>2. CASE i = N + 1
      <4>1. N > 0 => N \in 1..N /\ i - 1 = N /\ i # 1
        BY <1>1, <3>2
      <4> QED
        BY <1>1, <1>2, <1>3, <1>5, <3>2, <4>1 DEF Start
    <3> QED
      BY <1>1, <3>1, <3>2
  <2>2. ASSUME NEW i \in 1..N PROVE End(records[i]) <= length
    <3>1. N \in 1..N /\ (i < N => End(records[i]) <= records[N].at)
      BY <1>1 DEF Contiguous, N
    <3> QED
      BY <1>1, <1>5, <3>1 DEF Start
  <2>3. ASSUME NEW i \in 1..(N + 1), NEW j \in 1..(N + 1), i < j
        PROVE  End(records'[i]) <= records'[j].at
    <3>1. i \in 1..N /\ (j \in 1..N \/ j = N + 1)
      BY <1>1, <2>3
    <3> QED
      BY <1>2, <1>3, <2>2, <2>3, <3>1 DEF Contiguous, N
  <2> QED
    BY <1>3, <2>1, <2>3 DEF Contiguous, End
<1>8. EndsInLast'
  BY <1>1, <1>2, <1>3, <1>4 DEF EndsInLast, End
<1>9. WriterInv'
  <2>1. \A i \in DOMAIN records' : records'[i].defect = "none"
    BY <1>1, <1>3, <1>4 DEF WriterInv, r
  <2>2. records' # <<>> /\ length' < End(records'[Len(records')])
    BY <1>1, <1>2, <1>3, <1>4
  <2> QED
    BY <1>4, <2>1, <2>2 DEF WriterInv, End
<1>10. IdleInv' /\ PrefixInv' /\ WindowInv' /\ ReplayIsExact'
  BY <1>4 DEF IdleInv, PrefixInv, WindowInv, ReplayIsExact
<1>11. BufferIsBounded'
  BY <1>4 DEF BufferIsBounded
<1> QED
  BY <1>6, <1>7, <1>8, <1>9, <1>10, <1>11

\* One write() of the loop in write_all.
LEMMA WriteSomeKeeps ==
    ASSUME Inv, NEW n \in Nat, WriteSome(n)
    PROVE  Inv'
<1> USE DEF Inv
<1> DEFINE N == Len(records)
<1>1. /\ N \in Nat /\ DOMAIN records = 1..N
      /\ records # <<>> <=> N > 0
      /\ length \in Nat
      /\ \A i \in 1..N : records[i].at \in Nat /\ End(records[i]) \in Nat
                         /\ records[i].at < End(records[i])
  BY RecordFacts DEF TypeOK
<1>2. /\ pc = "appending" /\ records' = records /\ length' = length + n
      /\ length' <= End(records[N])
      /\ \/ pc' = "ready" /\ size_bytes' = length' /\ length' = End(records[N])
         \/ pc' = "appending" /\ size_bytes' = size_bytes /\ length' # End(records[N])
      /\ result' = result
      /\ begin' = begin /\ filled' = filled /\ consumed' = consumed /\ reached_end' = reached_end
  BY DEF WriteSome, buffer
<1>3. N > 0 /\ N \in 1..N /\ records[N].at <= length
  BY <1>1, <1>2 DEF WriterInv, EndsInLast
<1> HIDE DEF N
<1>4. TypeOK'
  BY <1>1, <1>2 DEF TypeOK
<1>5. Contiguous'
  BY <1>2 DEF Contiguous, End
<1>6. EndsInLast'
  BY <1>1, <1>2, <1>3 DEF EndsInLast, N, End
<1>7. WriterInv'
  BY <1>1, <1>2, <1>3 DEF WriterInv, Start, N, End
<1>8. IdleInv' /\ PrefixInv' /\ WindowInv' /\ ReplayIsExact'
  BY <1>2 DEF IdleInv, PrefixInv, WindowInv, ReplayIsExact
<1>9. BufferIsBounded'
  BY <1>2 DEF BufferIsBounded
<1> QED
  BY <1>4, <1>5, <1>6, <1>7, <1>8, <1>9

\* reset empties the file.
LEMMA ResetKeeps ==
    ASSUME Inv, Reset
    PROVE  Inv'
<1> USE DEF Inv
<1>1. /\ pc = "ready" /\ pc' = "ready" /\ records' = <<>> /\ length' = 0 /\ size_bytes' = 0
      /\ result' = result
      /\ begin' = begin /\ filled' = filled /\ consumed' = consumed /\ reached_end' = reached_end
  BY DEF Reset, buffer
<1>2. Len(records') = 0 /\ DOMAIN records' = {} /\ records' \in Seq(Record)
  BY <1>1
<1>3. TypeOK'
  BY <1>1, <1>2 DEF TypeOK
<1>4. Contiguous' /\ EndsInLast' /\ WriterInv'
  BY <1>1, <1>2 DEF Contiguous, EndsInLast, WriterInv, Start
<1>5. IdleInv' /\ PrefixInv' /\ WindowInv' /\ ReplayIsExact'
  BY <1>1 DEF IdleInv, PrefixInv, WindowInv, ReplayIsExact
<1>6. BufferIsBounded'
  BY <1>1 DEF BufferIsBounded
<1> QED
  BY <1>3, <1>4, <1>5, <1>6

\* Closing the log, or dying, drops a record of which nothing was written.
LEMMA CloseKeeps ==
    ASSUME Inv, Close
    PROVE  Inv'
<1> USE DEF Inv
<1>1. /\ pc' = "closed" /\ length' = length /\ records' = Cut(length') /\ size_bytes' = 0
      /\ result' = NoResult
      /\ begin' = 0 /\ filled' = 0 /\ consumed' = 0 /\ reached_end' = FALSE
  BY DEF Close, DropBuffer
<1>2. length \in Nat
  BY DEF TypeOK
<1>3. records' \in Seq(Record) /\ Contiguous' /\ EndsInLast'
  BY <1>1, <1>2, CutStep
<1>4. TypeOK'
  BY <1>1, <1>2, <1>3 DEF TypeOK, NoResult
<1>5. WriterInv' /\ IdleInv' /\ PrefixInv' /\ WindowInv' /\ ReplayIsExact'
  BY <1>1 DEF WriterInv, IdleInv, PrefixInv, WindowInv, ReplayIsExact, NoResult
<1>6. BufferIsBounded'
  BY <1>1, EmptyIsBounded
<1> QED
  BY <1>3, <1>4, <1>5, <1>6

\* Damage does not move a record.
LEMMA CorruptKeeps ==
    ASSUME Inv, NEW i \in DOMAIN records, NEW d \in Defects, Corrupt(i, d)
    PROVE  Inv'
<1> USE DEF Inv
<1> DEFINE N == Len(records)
<1>1. /\ pc = "closed" /\ pc' = pc /\ length' = length /\ size_bytes' = size_bytes
      /\ result' = result
      /\ begin' = begin /\ filled' = filled /\ consumed' = consumed /\ reached_end' = reached_end
      /\ records' = [records EXCEPT ![i].defect = d]
  BY DEF Corrupt, buffer
<1>2. /\ N \in Nat /\ DOMAIN records = 1..N
      /\ \A j \in 1..N : records[j] \in Record
  BY RecordFacts
<1>3. [records[i] EXCEPT !.defect = d] \in Record
  BY <1>2 DEF Record
<1>4. /\ records' \in Seq(Record) /\ Len(records') = N /\ DOMAIN records' = 1..N
      /\ \A j \in 1..N : records'[j].at = records[j].at /\ End(records'[j]) = End(records[j])
  BY <1>1, <1>2, <1>3 DEF TypeOK, Record, End
<1>5. TypeOK'
  BY <1>1, <1>4 DEF TypeOK
<1>6. Contiguous' /\ EndsInLast'
  BY <1>1, <1>2, <1>4 DEF Contiguous, EndsInLast, End
<1>7. WriterInv' /\ IdleInv' /\ PrefixInv' /\ WindowInv' /\ ReplayIsExact'
  BY <1>1 DEF WriterInv, IdleInv, PrefixInv, WindowInv, ReplayIsExact, NoResult
<1>8. BufferIsBounded'
  BY <1>1 DEF BufferIsBounded
<1> QED
  BY <1>5, <1>6, <1>7, <1>8

\* The file that another program cuts is shorter than what replay has read.
LEMMA InterfereKeeps ==
    ASSUME Inv, NEW n \in 0..length, Interfere(n)
    PROVE  Inv'
<1> USE DEF Inv
<1>1. /\ pc = "replayed" /\ pc' = "overtaken" /\ n < length
      /\ length' = n /\ records' = Cut(length') /\ size_bytes' = size_bytes
      /\ result' = result
      /\ begin' = begin /\ filled' = filled /\ consumed' = consumed /\ reached_end' = reached_end
  BY DEF Interfere, buffer
<1>2. length \in Nat /\ n \in Nat
  BY DEF TypeOK
<1>3. records' \in Seq(Record) /\ Contiguous' /\ EndsInLast'
  BY <1>1, <1>2, CutStep
<1>4. TypeOK'
  BY <1>1, <1>2, <1>3 DEF TypeOK
<1>5. IdleInv'
  BY <1>1 DEF IdleInv, ReplayIsExact
<1>6. WriterInv' /\ PrefixInv' /\ WindowInv' /\ ReplayIsExact'
  BY <1>1 DEF WriterInv, PrefixInv, WindowInv, ReplayIsExact
<1>7. BufferIsBounded'
  BY <1>1 DEF BufferIsBounded
<1> QED
  BY <1>3, <1>4, <1>5, <1>6, <1>7

-----------------------------------------------------------------------------
(* replay_wal.                                                             *)

\* The numbers of a replay are numbers.
LEMMA ReplayFacts ==
    ASSUME Inv
    PROVE  /\ length \in Nat /\ begin \in Nat /\ filled \in Nat /\ consumed \in Nat
           /\ result.records_replayed \in Nat /\ result.valid_bytes \in Nat
           /\ result.incomplete_tail_bytes \in Nat
           /\ HeaderSize \in Nat /\ ChunkSize \in Nat /\ ChunkSize > 0
  BY SizesAreNat DEF Inv, TypeOK

\* While bytes of the file lie behind the valid ones there is a record to decode,
\* and it begins there.
LEMMA CandidateExists ==
    ASSUME Inv, pc = "replaying", result.valid_bytes < length
    PROVE  /\ result.records_replayed + 1 \in 1..Len(records)
           /\ Candidate.at = result.valid_bytes
<1> USE DEF Inv
<1> DEFINE N == Len(records)
           n == result.records_replayed
<1>1. /\ N \in Nat /\ (records # <<>> <=> N > 0)
      /\ \A i \in 1..N : records[i].at \in Nat /\ End(records[i]) \in Nat
  BY RecordFacts
<1>2. n \in 0..N /\ result.valid_bytes = Start(n)
  BY DEF PrefixInv
<1>3. length \in Nat /\ result.valid_bytes \in Nat
  BY ReplayFacts
<1>4. N > 0 /\ length <= End(records[N])
  BY <1>1, <1>3 DEF EndsInLast
<1>5. n # N
  BY <1>1, <1>2, <1>3, <1>4 DEF Start
<1>6. n + 1 \in 1..N /\ (n + 1 = 1 <=> n = 0) /\ n + 1 - 1 = n
  BY <1>1, <1>2, <1>5
<1> HIDE DEF n
<1>7. records[n + 1].at = IF n = 0 THEN 0 ELSE End(records[n])
  <2>1. \A i \in 1..N : records[i].at = IF i = 1 THEN 0 ELSE End(records[i - 1])
    BY DEF Contiguous
  <2>2. n \in Nat /\ N \in Nat
    BY <1>1, <1>2
  <2> HIDE DEF N
  <2> QED
    BY <1>6, <2>1, <2>2
<1> QED
  BY <1>2, <1>6, <1>7 DEF Start, Candidate, n

\* What the bytes of the buffer are of the candidate.
LEMMA AvailableIsWindow ==
    ASSUME Inv, pc = "replaying"
    PROVE  /\ Available \in Nat
           /\ result.valid_bytes + Available = begin + filled
           /\ begin + filled <= length
           /\ Available > 0 => result.valid_bytes < length
  BY ReplayFacts DEF Inv, WindowInv, Available

\* A record that decodes is complete, sound and the next one.
LEMMA ReplayRecordKeeps ==
    ASSUME Inv, ReplayRecord
    PROVE  Inv'
<1> USE DEF Inv
<1> DEFINE N == Len(records)
           n == result.records_replayed
<1>1. /\ pc = "replaying" /\ pc' = pc /\ records' = records /\ length' = length
      /\ size_bytes' = size_bytes /\ reached_end' = reached_end
      /\ Available > 0 /\ Decoded = "none"
  BY DEF ReplayRecord, file
<1>2. n + 1 \in 1..N /\ Candidate = records[n + 1] /\ Candidate.at = result.valid_bytes
  BY <1>1, AvailableIsWindow, CandidateExists DEF Candidate
<1>3. /\ N \in Nat /\ n \in Nat
      /\ Candidate.size \in Nat /\ End(Candidate) \in Nat
      /\ End(Candidate) = Candidate.at + Candidate.size
  BY <1>2, RecordFacts, ReplayFacts DEF End
<1>4. Candidate.defect = "none" /\ Available >= Candidate.size
  <2>1. "none" \notin HeaderDefects /\ "none" # "incomplete_record"
    BY DEF HeaderDefects
  <2>2. Available \in Nat
    BY <1>1, AvailableIsWindow
  <2> QED
    BY <1>1, <1>3, <2>1, <2>2 DEF Decoded
<1>5. End(Candidate) <= length /\ consumed + Candidate.size <= filled
  <2>1. /\ Available \in Nat /\ result.valid_bytes + Available = begin + filled
        /\ begin + filled <= length
    BY <1>1, AvailableIsWindow
  <2>2. /\ length \in Nat /\ begin \in Nat /\ filled \in Nat /\ consumed \in Nat
        /\ result.valid_bytes \in Nat /\ Available = filled - consumed
    BY ReplayFacts DEF Available
  <2> QED
    BY <1>2, <1>3, <1>4, <2>1, <2>2
<1>6. /\ result'.records_replayed = n + 1
      /\ result'.valid_bytes = End(Candidate)
      /\ result' \in [records_replayed : Nat, valid_bytes : Nat, incomplete_tail_bytes : Nat]
  <2>1. result' = [result EXCEPT !.records_replayed = @ + 1, !.valid_bytes = @ + Candidate.size]
    BY DEF ReplayRecord
  <2>2. result \in [records_replayed : Nat, valid_bytes : Nat, incomplete_tail_bytes : Nat]
    BY DEF TypeOK
  <2>3. result.valid_bytes + Candidate.size = End(Candidate)
    BY <1>2, <1>3
  <2>4. n = result.records_replayed /\ n + 1 \in Nat
    BY <1>3
  <2> HIDE DEF n
  <2> QED
    BY <1>3, <2>1, <2>2, <2>3, <2>4
<1>7. /\ begin' \in Nat /\ filled' \in Nat /\ consumed' \in Nat
      /\ filled' <= filled /\ consumed' <= filled'
      /\ begin' + filled' = begin + filled
      /\ begin' + consumed' = begin + consumed + Candidate.size
  <2>1. begin \in Nat /\ filled \in Nat /\ consumed \in Nat
    BY ReplayFacts
  <2>2. \/ /\ consumed + Candidate.size = filled
           /\ begin' = begin + filled /\ filled' = 0 /\ consumed' = 0
        \/ consumed' = consumed + Candidate.size /\ begin' = begin /\ filled' = filled
    BY DEF ReplayRecord
  <2>3. Candidate.size \in Nat /\ consumed + Candidate.size <= filled
    BY <1>3, <1>5
  <2> HIDE DEF Inv
  <2>4. CASE /\ consumed + Candidate.size = filled
             /\ begin' = begin + filled /\ filled' = 0 /\ consumed' = 0
    BY <2>1, <2>3, <2>4
  <2>5. CASE consumed' = consumed + Candidate.size /\ begin' = begin /\ filled' = filled
    BY <2>1, <2>3, <2>5
  <2> QED
    BY <2>2, <2>4, <2>5
<1> HIDE DEF N, n
<1>8. TypeOK'
  BY <1>1, <1>6, <1>7 DEF TypeOK
<1>9. Contiguous' /\ EndsInLast' /\ WriterInv' /\ IdleInv'
  BY <1>1 DEF Contiguous, EndsInLast, WriterInv, IdleInv, End
<1>10. PrefixInv'
  <2>1. \A i \in 1..(n + 1) : Good(i)
    <3>1. \A i \in 1..n : Good(i)
      BY <1>1 DEF PrefixInv, n
    <3>2. Good(n + 1)
      BY <1>2, <1>4, <1>5 DEF Good, Complete
    <3> QED
      BY <1>3, <3>1, <3>2
  <2>2. \A i \in 1..(n + 1) : Good(i)'
    BY <1>1, <2>1 DEF Good, Complete, End
  <2>3. n + 1 # 0 /\ n + 1 \in 0..Len(records')
    BY <1>1, <1>2, <1>3 DEF N
  <2> QED
    BY <1>1, <1>2, <1>6, <2>2, <2>3 DEF PrefixInv, Start, End
<1>11. WindowInv'
  BY <1>1, <1>2, <1>3, <1>6, <1>7, ReplayFacts DEF WindowInv
<1>12. BufferIsBounded'
  <2>1. PICK s \in Sizes \cup {HeaderSize} : filled < s + ChunkSize
    BY DEF BufferIsBounded
  <2>2. s \in Nat /\ ChunkSize \in Nat
    BY SizesAreNat
  <2>3. filled' < s + ChunkSize
    BY <1>7, <2>1, <2>2, ReplayFacts
  <2> QED
    BY <2>3 DEF BufferIsBounded
<1>13. ReplayIsExact'
  BY <1>1 DEF ReplayIsExact
<1> QED
  BY <1>8, <1>9, <1>10, <1>11, <1>12, <1>13

\* A record that is refused is the first bad one, and what is wrong with it is
\* in the file.
LEMMA RejectRecordKeeps ==
    ASSUME Inv, RejectRecord
    PROVE  Inv'
<1> USE DEF Inv
<1> DEFINE N == Len(records)
           n == result.records_replayed
<1>1. /\ pc = "replaying" /\ pc' = "refused" /\ records' = records /\ length' = length
      /\ size_bytes' = size_bytes /\ result' = result
      /\ begin' = 0 /\ filled' = 0 /\ consumed' = 0 /\ reached_end' = FALSE
      /\ Available > 0 /\ Decoded \notin {"none", "incomplete_record"}
  BY DEF RejectRecord, file, DropBuffer
<1>2. /\ n + 1 \in 1..N /\ DOMAIN records = 1..N
      /\ Candidate = records[n + 1] /\ Candidate.at = result.valid_bytes
  BY <1>1, AvailableIsWindow, CandidateExists, RecordFacts DEF Candidate
<1>3. /\ Candidate.size \in Nat /\ Candidate.at \in Nat
      /\ Candidate.defect \in {"none"} \cup Defects
      /\ End(Candidate) = Candidate.at + Candidate.size
  BY <1>2, RecordFacts DEF End, Record
<1>4. Visible(n + 1)
  <2>1. Available \in Nat /\ Candidate.at + Available <= length
    BY <1>1, <1>2, AvailableIsWindow
  <2>2. CASE Candidate.defect \in HeaderDefects
    <3>1. Available >= HeaderSize
      BY <1>1, <2>1, ReplayFacts DEF Decoded
    <3> QED
      BY <1>2, <1>3, <2>1, <2>2, <3>1, ReplayFacts DEF Visible
  <2>3. CASE Candidate.defect \notin HeaderDefects
    <3>1. Available >= Candidate.size /\ Candidate.defect # "none"
      BY <1>1, <1>3, <2>1, <2>3 DEF Decoded
    <3>2. Candidate.defect \in BodyDefects
      BY <1>3, <2>3, <3>1, SizesAreNat
    <3>3. End(Candidate) <= length
      BY <1>3, <2>1, <3>1, ReplayFacts
    <3> QED
      BY <1>2, <3>2, <3>3 DEF Visible, Complete
  <2> QED
    BY <2>2, <2>3
<1>5. TypeOK'
  BY <1>1 DEF TypeOK
<1>6. Contiguous' /\ EndsInLast' /\ WriterInv' /\ IdleInv' /\ WindowInv'
  BY <1>1 DEF Contiguous, EndsInLast, WriterInv, IdleInv, WindowInv, End
<1>7. PrefixInv'
  BY <1>1 DEF PrefixInv, Start, End, Good, Complete
<1>8. BufferIsBounded'
  BY <1>1, EmptyIsBounded
<1>9. ReplayIsExact'
  <2>1. \A i \in 1..n : Good(i)
    BY <1>1 DEF PrefixInv
  <2>2. \A i \in 1..n : Good(i)'
    BY <1>1, <2>1 DEF Good, Complete, End
  <2>3. Visible(n + 1)'
    BY <1>1, <1>4 DEF Visible, Complete, End
  <2> QED
    BY <1>1, <1>2, <2>2, <2>3 DEF ReplayIsExact
<1> QED
  BY <1>5, <1>6, <1>7, <1>8, <1>9

\* When replay asks for more it holds less than a header or less than the record.
LEMMA NeedsMoreIsShort ==
    ASSUME Inv, pc = "replaying", NeedsMore, Available > 0
    PROVE  \/ Available < HeaderSize
           \/ Candidate.defect \notin HeaderDefects /\ Available < Candidate.size
<1>1. Decoded = "incomplete_record"
  BY DEF NeedsMore
<1>2. result.records_replayed + 1 \in 1..Len(records)
  BY AvailableIsWindow, CandidateExists
<1>3. Candidate.defect \in {"none"} \cup Defects
  BY <1>2, RecordFacts DEF Candidate, Record, Inv
<1>4. Candidate.defect # "incomplete_record"
  BY <1>3, SizesAreNat DEF HeaderDefects, BodyDefects
<1> QED
  BY <1>1, <1>4 DEF Decoded

\* A chunk extends the window, from which what was replayed is taken away.
LEMMA ReadChunkKeeps ==
    ASSUME Inv, ReadChunk
    PROVE  Inv'
<1> USE DEF Inv
<1> DEFINE left == length - (begin + filled)
           read == IF left < ChunkSize THEN left ELSE ChunkSize
<1>1. /\ pc = "replaying" /\ pc' = pc /\ records' = records /\ length' = length
      /\ size_bytes' = size_bytes /\ result' = result
      /\ begin' = begin + consumed /\ filled' = Available + read /\ consumed' = 0
      /\ reached_end' = (read < ChunkSize)
      /\ NeedsMore
  BY DEF ReadChunk, file
<1>2. /\ length \in Nat /\ begin \in Nat /\ filled \in Nat /\ consumed \in Nat
      /\ HeaderSize \in Nat /\ ChunkSize \in Nat /\ ChunkSize > 0
      /\ result.valid_bytes \in Nat
  BY ReplayFacts
<1>3. /\ Available \in Nat /\ Available = filled - consumed
      /\ begin + filled <= length /\ begin + consumed = result.valid_bytes
  BY <1>1, AvailableIsWindow DEF Available, WindowInv
<1>4. read \in Nat /\ read <= ChunkSize /\ read <= left /\ (read < ChunkSize => read = left)
  BY <1>2, <1>3
<1>5. /\ begin' \in Nat /\ filled' \in Nat
      /\ begin' + filled' = begin + filled + read
      /\ begin' + filled' <= length
      /\ read < ChunkSize => begin' + filled' = length
  BY <1>1, <1>2, <1>3, <1>4
<1> HIDE DEF read
<1>6. TypeOK'
  BY <1>1, <1>5 DEF TypeOK
<1>7. Contiguous' /\ EndsInLast' /\ WriterInv' /\ IdleInv' /\ ReplayIsExact'
  BY <1>1 DEF Contiguous, EndsInLast, WriterInv, IdleInv, ReplayIsExact, End
<1>8. PrefixInv'
  BY <1>1 DEF PrefixInv, Start, End, Good, Complete
<1>9. WindowInv'
  <2>1. reached_end' => begin' + filled' = length'
    BY <1>1, <1>5, Zenon
  <2>2. begin' + consumed' = result'.valid_bytes /\ consumed' <= filled'
    BY <1>1, <1>2, <1>3, <1>5
  <2> QED
    BY <1>1, <1>5, <2>1, <2>2 DEF WindowInv
<1>10. BufferIsBounded'
  <2>1. \E s \in Sizes \cup {HeaderSize} : s \in Nat /\ (Available < s \/ filled' = 0)
    <3>1. CASE Available > 0
      <4>1. Available < HeaderSize \/ Available < Candidate.size
        BY <1>1, <3>1, NeedsMoreIsShort
      <4>2. Candidate.size \in Sizes /\ Candidate.size \in Nat
        BY <1>1, <3>1, AvailableIsWindow, CandidateExists, RecordFacts DEF Candidate
      <4> QED
        BY <1>2, <4>1, <4>2
    <3>2. CASE Available = 0 /\ read > 0
      <4>1. result.valid_bytes < length
        BY <1>2, <1>3, <1>4, <3>2
      <4>2. Candidate.size \in Sizes /\ Candidate.size \in Nat /\ Candidate.size > 0
        BY <1>1, <4>1, CandidateExists, RecordFacts DEF Candidate
      <4> QED
        BY <3>2, <4>2
    <3>3. CASE Available = 0 /\ read = 0
      BY <1>1, <1>2, <3>3
    <3> QED
      BY <1>3, <1>4, <3>1, <3>2, <3>3
  <2>2. PICK s \in Sizes \cup {HeaderSize} : s \in Nat /\ (Available < s \/ filled' = 0)
    BY <2>1
  <2>3. filled' < s + ChunkSize
    BY <1>1, <1>2, <1>3, <1>4, <2>2
  <2> QED
    BY <2>3 DEF BufferIsBounded
<1> QED
  BY <1>6, <1>7, <1>8, <1>9, <1>10

\* At the end of the file nothing is left but a torn record.
LEMMA FinishReplayKeeps ==
    ASSUME Inv, FinishReplay
    PROVE  Inv'
<1> USE DEF Inv
<1> DEFINE N == Len(records)
           n == result.records_replayed
<1>1. /\ pc = "replaying" /\ pc' = "replayed" /\ records' = records /\ length' = length
      /\ size_bytes' = size_bytes
      /\ result' = [result EXCEPT !.incomplete_tail_bytes = Available]
      /\ begin' = 0 /\ filled' = 0 /\ consumed' = 0 /\ reached_end' = FALSE
      /\ NeedsMore /\ reached_end
  BY DEF FinishReplay, file, DropBuffer
<1>2. Available \in Nat /\ result.valid_bytes + Available = length
  BY <1>1, AvailableIsWindow DEF WindowInv
<1>3. /\ result' \in [records_replayed : Nat, valid_bytes : Nat, incomplete_tail_bytes : Nat]
      /\ result'.records_replayed = n
      /\ result'.valid_bytes = result.valid_bytes
      /\ result'.incomplete_tail_bytes = Available
  BY <1>1, <1>2 DEF TypeOK
<1>4. /\ N \in Nat /\ DOMAIN records = 1..N /\ (records # <<>> <=> N > 0)
      /\ \A i \in 1..N : /\ records[i].at \in Nat /\ records[i].size \in Nat
                         /\ End(records[i]) \in Nat /\ records[i].at < End(records[i])
                         /\ End(records[i]) = records[i].at + records[i].size
                         /\ records[i].size > HeaderSize
      /\ n \in 0..N /\ result.valid_bytes = Start(n)
      /\ length \in Nat /\ HeaderSize \in Nat /\ result.valid_bytes \in Nat
  BY <1>1, RecordFacts, ReplayFacts DEF PrefixInv, End
<1>5. TypeOK'
  BY <1>1, <1>3 DEF TypeOK
<1>6. Contiguous' /\ EndsInLast' /\ WriterInv' /\ IdleInv' /\ WindowInv'
  BY <1>1 DEF Contiguous, EndsInLast, WriterInv, IdleInv, WindowInv, End
<1>7. PrefixInv'
  BY <1>1, <1>3 DEF PrefixInv, Start, End, Good, Complete
<1>8. BufferIsBounded'
  BY <1>1, EmptyIsBounded
<1>9. ASSUME NEW i \in 1..N, i > n
      PROVE  i = N /\ ~Complete(i) /\ ~Visible(i)
  <2>0. Contiguous /\ EndsInLast
    OBVIOUS
  <2> HIDE DEF Inv, N, n
  <2>1. Available > 0 /\ result.valid_bytes < length
    <3>1. SUFFICES ASSUME length = Start(n) PROVE FALSE
      BY <1>2, <1>4
    <3>2. N > 0 /\ N \in 1..N /\ n < N /\ records[N].at < length
      BY <1>1, <1>4, <1>9, <2>0 DEF EndsInLast, N
    <3>3. n > 0 => End(records[n]) <= records[N].at
      BY <1>4, <2>0, <3>2 DEF Contiguous, N
    <3> QED
      BY <1>4, <3>1, <3>2, <3>3 DEF Start
  <2>2. n + 1 \in 1..N /\ Candidate = records[n + 1] /\ Candidate.at = result.valid_bytes
    BY <1>1, <2>1, CandidateExists DEF Candidate, N, n
  <2>3. \/ Available < HeaderSize
        \/ Candidate.defect \notin HeaderDefects /\ Available < Candidate.size
    BY <1>1, <2>1, NeedsMoreIsShort
  <2>4. length < End(records[n + 1])
    <3>1. /\ records[n + 1].size \in Nat /\ records[n + 1].size > HeaderSize
          /\ End(records[n + 1]) = result.valid_bytes + records[n + 1].size
      BY <1>4, <2>2
    <3>2. Available < records[n + 1].size
      BY <1>2, <1>4, <2>2, <2>3, <3>1
    <3> QED
      BY <1>2, <1>4, <3>1, <3>2
  <2>5. n + 1 = N
    <3>1. SUFFICES ASSUME n + 1 < N PROVE FALSE
      BY <1>4, <2>2
    <3>2. N \in 1..N /\ records[N].at < length
      BY <1>1, <1>4, <2>0, <2>2 DEF EndsInLast, N
    <3>3. End(records[n + 1]) <= records[N].at
      BY <2>0, <2>2, <3>1, <3>2 DEF Contiguous, N
    <3> QED
      BY <1>4, <2>2, <2>4, <3>2, <3>3
  <2>6. i = n + 1
    BY <1>4, <1>9, <2>5
  <2>7. ~Complete(i)
    BY <1>4, <2>4, <2>6 DEF Complete
  <2>8. ~Visible(i)
    BY <1>2, <1>4, <2>2, <2>3, <2>6, <2>7 DEF Visible
  <2> QED
    BY <2>5, <2>6, <2>7, <2>8
<1>10. ReplayIsExact'
  <2>1. \A i \in 1..n : Good(i)
    BY <1>1 DEF PrefixInv
  <2>2. \A i \in 1..n : Good(i)'
    BY <1>1, <2>1 DEF Good, Complete, End
  <2>3. \A i \in DOMAIN records' : i > n => i = Len(records') /\ ~Complete(i)' /\ ~Visible(i)'
    BY <1>1, <1>4, <1>9 DEF Complete, Visible, End
  <2>4. result'.valid_bytes = IF n = 0 THEN 0 ELSE End(records'[n])
    BY <1>1, <1>3, <1>4 DEF Start, End
  <2>5. result'.valid_bytes + result'.incomplete_tail_bytes = length'
    BY <1>1, <1>2, <1>3
  <2> QED
    BY <1>1, <1>3, <2>2, <2>3, <2>4, <2>5 DEF ReplayIsExact, End
<1> QED
  BY <1>5, <1>6, <1>7, <1>8, <1>10

-----------------------------------------------------------------------------
(* repair_wal_tail.                                                        *)

\* The file is cut where the replayed records end: they are what it then holds.
LEMMA RepairKeeps ==
    ASSUME Inv, Repair
    PROVE  Inv'
<1> USE DEF Inv
<1> DEFINE N == Len(records)
           n == result.records_replayed
<1>1. /\ pc \in {"replayed", "overtaken"} /\ pc' = "ready"
      /\ length = result.valid_bytes + result.incomplete_tail_bytes
      /\ length' = result.valid_bytes /\ records' = Cut(length')
      /\ size_bytes' = length' /\ result' = NoResult
      /\ begin' = begin /\ filled' = filled /\ consumed' = consumed /\ reached_end' = reached_end
  BY DEF Repair, buffer
<1>2. /\ length \in Nat /\ result.valid_bytes \in Nat /\ result.incomplete_tail_bytes \in Nat
      /\ length' \in 0..length
  BY <1>1, ReplayFacts
<1>3. pc = "replayed"
  BY <1>1, <1>2 DEF IdleInv
<1>4. /\ N \in Nat /\ DOMAIN records = 1..N /\ n \in 0..N
      /\ \A i \in 1..N : /\ records[i].at \in Nat
                         /\ End(records[i]) \in Nat /\ records[i].at < End(records[i])
      /\ length' = Start(n)
      /\ \A i \in 1..n : records[i].defect = "none"
  BY <1>1, <1>3, RecordFacts DEF PrefixInv, Good
<1>5. /\ records' \in Seq(Record) /\ Contiguous' /\ EndsInLast'
      /\ Len(records') \in 0..N
      /\ \A i \in 1..Len(records') : records'[i] = records[i]
      /\ \A i \in 1..N : i <= Len(records') <=> records[i].at < length'
  BY <1>1, <1>2, <1>4, CutStep
<1>6. Len(records') = n
  <2>1. ASSUME n > 0 PROVE n <= Len(records')
    <3> HIDE DEF n
    <3>1. n \in 1..N /\ length' = End(records[n])
      BY <1>4, <2>1 DEF Start
    <3> QED
      BY <1>4, <1>5, <3>1
  <2>2. ASSUME n < Len(records') PROVE FALSE
    <3> DEFINE k == Len(records')
    <3>1. k \in 1..N /\ records[k].at < length'
      BY <1>4, <1>5, <2>2
    <3>2. n > 0 => n \in 1..N /\ End(records[n]) <= records[k].at
      BY <1>4, <2>2, <3>1 DEF Contiguous
    <3> HIDE DEF k
    <3> QED
      BY <1>4, <3>1, <3>2 DEF Start
  <2> QED
    BY <1>4, <1>5, <2>1, <2>2
<1>7. TypeOK'
  BY <1>1, <1>2, <1>5 DEF TypeOK, NoResult
<1>8. WriterInv'
  <2>1. DOMAIN records' = 1..n
    BY <1>5, <1>6
  <2>2. \A i \in 1..n : records'[i].defect = "none"
    BY <1>4, <1>5, <1>6
  <2>3. length' = Start(Len(records))'
    <3> HIDE DEF n
    <3>1. n # 0 => n \in 1..n
      BY <1>4
    <3>2. n # 0 => records'[n] = records[n]
      BY <1>5, <1>6, <3>1
    <3>3. length' = IF n = 0 THEN 0 ELSE End(records'[n])
      BY <1>4, <3>2 DEF Start
    <3> QED
      BY <1>6, <3>3 DEF Start, End
  <2> QED
    BY <1>1, <1>6, <2>1, <2>2, <2>3 DEF WriterInv
<1>9. IdleInv' /\ PrefixInv' /\ WindowInv' /\ ReplayIsExact'
  BY <1>1, <1>3 DEF IdleInv, PrefixInv, WindowInv, ReplayIsExact
<1>10. BufferIsBounded'
  BY <1>1 DEF BufferIsBounded
<1> QED
  BY <1>5, <1>7, <1>8, <1>9, <1>10

\* A refusal changes nothing.
LEMMA RefuseRepairKeeps ==
    ASSUME Inv, RefuseRepair
    PROVE  Inv'
<1> USE DEF Inv
<1>1. /\ pc \in {"replayed", "overtaken"} /\ pc' = "changed"
      /\ records' = records /\ length' = length /\ size_bytes' = size_bytes /\ result' = result
      /\ begin' = begin /\ filled' = filled /\ consumed' = consumed /\ reached_end' = reached_end
  BY DEF RefuseRepair, buffer, file
<1>2. TypeOK'
  BY <1>1 DEF TypeOK
<1>3. Contiguous' /\ EndsInLast'
  BY <1>1 DEF Contiguous, EndsInLast, End
<1>4. WriterInv' /\ IdleInv' /\ PrefixInv' /\ WindowInv' /\ ReplayIsExact'
  BY <1>1 DEF WriterInv, IdleInv, PrefixInv, WindowInv, ReplayIsExact
<1>5. BufferIsBounded'
  BY <1>1 DEF BufferIsBounded
<1> QED
  BY <1>2, <1>3, <1>4, <1>5

\* Opening the log begins its replay with an empty buffer.
LEMMA OpenKeeps ==
    ASSUME Inv, Open
    PROVE  Inv'
<1> USE DEF Inv
<1>1. /\ pc = "closed" /\ pc' = "replaying"
      /\ records' = records /\ length' = length /\ size_bytes' = size_bytes /\ result' = result
      /\ begin' = begin /\ filled' = filled /\ consumed' = consumed /\ reached_end' = reached_end
  BY DEF Open, buffer, file
<1>2. /\ result.records_replayed = 0 /\ result.valid_bytes = 0
      /\ begin = 0 /\ filled = 0 /\ consumed = 0 /\ ~reached_end
  BY <1>1 DEF IdleInv, NoResult
<1>3. length \in Nat /\ Len(records) \in Nat
  BY DEF TypeOK
<1>4. TypeOK'
  BY <1>1 DEF TypeOK
<1>5. Contiguous' /\ EndsInLast' /\ WriterInv' /\ IdleInv' /\ ReplayIsExact'
  BY <1>1 DEF Contiguous, EndsInLast, WriterInv, IdleInv, ReplayIsExact, End
<1>6. PrefixInv' /\ WindowInv'
  BY <1>1, <1>2, <1>3 DEF PrefixInv, WindowInv, Start
<1>7. BufferIsBounded'
  BY <1>1 DEF BufferIsBounded
<1> QED
  BY <1>4, <1>5, <1>6, <1>7

-----------------------------------------------------------------------------
(* The theorems.                                                           *)

\* Every step keeps the invariant.
LEMMA Inductive == Inv /\ [Next]_vars => Inv'
<1> SUFFICES ASSUME Inv, [Next]_vars PROVE Inv'
  OBVIOUS
<1>1. ASSUME NEW size \in Sizes, NEW n \in 1..size, WriteSome(n) PROVE Inv'
  BY <1>1, WriteSomeKeeps, SizesAreNat
<1>2. CASE UNCHANGED vars
  BY <1>2 DEF vars, file, buffer, Inv, TypeOK, Contiguous, EndsInLast, WriterInv, IdleInv,
              PrefixInv, WindowInv, BufferIsBounded, ReplayIsExact, Start, End, Good,
              Complete, Visible
<1> QED
  BY <1>1, <1>2, BeginAppendKeeps, ResetKeeps, CloseKeeps, CorruptKeeps, InterfereKeeps,
     OpenKeeps, ReplayRecordKeeps, RejectRecordKeeps, ReadChunkKeeps, FinishReplayKeeps,
     RepairKeeps, RefuseRepairKeeps
     DEF Next, Replay

\* The invariant holds of every behaviour.
LEMMA InvHolds == Spec => []Inv
<1>1. Init => Inv
  <2> SUFFICES ASSUME Init PROVE Inv
    OBVIOUS
  <2>1. Len(records) = 0 /\ DOMAIN records = {} /\ records \in Seq(Record)
    BY DEF Init
  <2>2. TypeOK
    BY <2>1 DEF Init, TypeOK, NoResult
  <2>3. Contiguous /\ EndsInLast /\ WriterInv /\ IdleInv /\ PrefixInv /\ WindowInv
    BY <2>1 DEF Init, Contiguous, EndsInLast, WriterInv, IdleInv, PrefixInv, WindowInv
  <2>4. BufferIsBounded /\ ReplayIsExact
    BY SizesAreNat DEF Init, BufferIsBounded, ReplayIsExact
  <2> QED
    BY <2>2, <2>3, <2>4 DEF Inv
<1> QED
  BY <1>1, Inductive, PTL DEF Spec

\* Every variable of the log and of its replay keeps its type.
THEOREM WalTypes == Spec => []TypeOK
<1>1. Inv => TypeOK
  BY DEF Inv
<1> QED
  BY <1>1, InvHolds, PTL

\* replay_wal accepts a file exactly when its records are good up to a torn tail
\* and refuses it exactly at its first visibly corrupt record, whatever the sizes
\* of chunks, headers and records.
THEOREM ChunksAreInvisible == Spec => []ReplayIsExact
<1>1. Inv => ReplayIsExact
  BY DEF Inv
<1> QED
  BY <1>1, InvHolds, PTL

\* The buffer of replay_wal stays below one record and one chunk.
THEOREM ReplayBufferIsBounded == Spec => []BufferIsBounded
<1>1. Inv => BufferIsBounded
  BY DEF Inv
<1> QED
  BY <1>1, InvHolds, PTL

\* The log that the writer appends to consists of sound records and nothing else.
THEOREM LogIsReadyForAppend == Spec => []ReadyForAppend
<1>1. Inv => ReadyForAppend
  <2> SUFFICES ASSUME Inv, pc = "ready" PROVE ReadyForAppend
    BY DEF ReadyForAppend
  <2>1. records # <<>> <=> Len(records) > 0
    BY RecordFacts DEF Inv
  <2>2. Len(records) \in Nat
    BY RecordFacts DEF Inv
  <2> QED
    BY <2>1, <2>2 DEF Inv, WriterInv, Start, ReadyForAppend
<1> QED
  BY <1>1, InvHolds, PTL

\* No step but reset, or another program that cuts the file, removes a complete
\* record: not a crash, a torn write, a replay or a repair.
THEOREM OnlyResetRemoves == Spec => CompleteRecordsStay
<1> DEFINE Stays(i) == i \in DOMAIN records' /\ Complete(i)'
<1>1. ASSUME Inv, [Next]_vars, NEW i \in DOMAIN records, Complete(i),
             ~Reset, ~\E n \in 0..length : Interfere(n)
      PROVE  Stays(i)
  <2> USE <1>1 DEF Inv
  <2>1. /\ DOMAIN records = 1..Len(records) /\ Len(records) \in Nat
        /\ \A j \in 1..Len(records) : /\ records[j].at \in Nat /\ End(records[j]) \in Nat
                                      /\ records[j].at < End(records[j])
        /\ length \in Nat
    BY RecordFacts DEF TypeOK
  <2>2. CASE records' = records /\ length' \in Nat /\ length' >= length
    BY <2>1, <2>2 DEF Complete, End
  <2>3. ASSUME NEW size \in Sizes, BeginAppend(size) PROVE Stays(i)
    <3>1. i \in DOMAIN records' /\ records'[i] = records[i] /\ length' = length
      BY <2>1, <2>3 DEF BeginAppend, TypeOK
    <3> QED
      BY <3>1 DEF Complete, End
  <2>4. ASSUME NEW size \in Sizes, NEW n \in 1..size, WriteSome(n) PROVE Stays(i)
    BY <2>1, <2>2, <2>4, SizesAreNat DEF WriteSome
  <2>5. ASSUME length' \in 0..length, records' = Cut(length'), pc' # "appending",
               End(records[i]) <= length'
        PROVE  Stays(i)
    <3>1. i <= Len(records') /\ records'[i] = records[i] /\ DOMAIN records' = 1..Len(records')
      BY <2>1, <2>5, CutStep
    <3> QED
      BY <2>1, <2>5, <3>1 DEF Complete, End
  <2>6. CASE Close
    BY <2>1, <2>5, <2>6 DEF Close, Complete
  <2>7. ASSUME NEW j \in DOMAIN records, NEW d \in Defects, Corrupt(j, d) PROVE Stays(i)
    <3>1. /\ DOMAIN records' = DOMAIN records /\ length' = length
          /\ records'[i].at = records[i].at /\ records'[i].size = records[i].size
      BY <2>1, <2>7, RecordFacts DEF Corrupt, Record
    <3> QED
      BY <3>1 DEF Complete, End
  <2>8. CASE Repair
    <3>1. /\ length = result.valid_bytes + result.incomplete_tail_bytes
          /\ length' = result.valid_bytes /\ records' = Cut(length') /\ pc' # "appending"
      BY <2>8 DEF Repair
    <3>2. length' \in 0..length /\ pc = "replayed"
      BY <2>8, <3>1, ReplayFacts DEF IdleInv, Repair
    <3> DEFINE n == result.records_replayed
    <3>3. i <= n /\ n \in 0..Len(records) /\ length' = Start(n)
      BY <2>1, <3>1, <3>2, ReplayFacts DEF ReplayIsExact, PrefixInv
    <3>4. End(records[i]) <= length'
      <4> HIDE DEF n
      <4>1. i < n => End(records[i]) <= records[n].at
        BY <2>1, <3>3 DEF Contiguous
      <4> QED
        BY <2>1, <3>3, <4>1 DEF Start
    <3> QED
      BY <2>5, <3>1, <3>2, <3>4
  <2>9. CASE UNCHANGED file
    BY <2>1, <2>2, <2>9 DEF file
  <2> QED
    BY <2>3, <2>4, <2>6, <2>7, <2>8, <2>9
       DEF Next, Replay, Open, ReplayRecord, RejectRecord, ReadChunk, FinishReplay,
           RefuseRepair, vars
<1>2. Inv /\ [Next]_vars =>
        [\A i \in DOMAIN records :
            Complete(i) => \/ Reset
                           \/ \E n \in 0..length : Interfere(n)
                           \/ i \in DOMAIN records' /\ Complete(i)']_vars
  BY <1>1
<1> QED
  BY <1>2, InvHolds, PTL DEF Spec, CompleteRecordsStay

=============================================================================
