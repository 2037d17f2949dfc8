------------------------- MODULE StorageEngineProofs -------------------------
(***************************************************************************)
(* What holds of the engine whatever the file system does: the types, that *)
(* an idle engine shows exactly what a restart would recover, and that the *)
(* durable generation never goes back.  And what it promises when directory*)
(* operations become durable in order and with every fsync: no manifest    *)
(* names a missing segment, live segments never change, and the engine     *)
(* implements DurableStore.                                                *)
(***************************************************************************)
EXTENDS StorageEngineInvariants, FiniteSetTheorems, WellFoundedInduction, TLAPS

-----------------------------------------------------------------------------
(* What a lookup in a list of segments or the replay of a log returns, and *)
(* how the result changes when a record or a segment is appended, replaced *)
(* or removed.  None of these facts mentions a step of the specification.  *)

\* A nonempty set of indexes of a finite sequence has a greatest element, which
\* is the one that Max chooses (the newest segment or record that a lookup sees).
LEMMA MaxOfIndexes ==
    ASSUME NEW n \in Nat, NEW S \in SUBSET (1..n), S # {}
    PROVE  /\ Max(S) \in S
           /\ \A y \in S : Max(S) >= y
<1> DEFINE T == {n - x : x \in S}
<1>1. T \subseteq Nat /\ T # {}
  <2>1. \A x \in S : n - x \in Nat
    OBVIOUS
  <2>2. PICK x : x \in S
    OBVIOUS
  <2>3. n - x \in T
    BY <2>2
  <2> QED
    BY <2>1, <2>3
<1>2. PICK m \in T : \A y \in T : ~(<<y, m>> \in OpToRel(<, Nat))
  BY <1>1, NatLessThanWellFounded, WFMin
<1>3. \A y \in T : m <= y
  <2> TAKE y \in T
  <2>1. y \in Nat /\ m \in Nat
    BY <1>1
  <2>2. y < m => <<y, m>> \in OpToRel(<, Nat)
    BY <2>1 DEF OpToRel
  <2>3. ~(y < m)
    BY <1>2, <2>2
  <2> QED
    BY <2>1, <2>3
<1>4. PICK x \in S : m = n - x
  BY <1>2
<1>5. \A y \in S : x >= y
  <2> TAKE y \in S
  <2>1. n - y \in T
    OBVIOUS
  <2>2. n - x <= n - y
    BY <1>3, <1>4, <2>1
  <2> QED
    BY <2>2
<1> QED
  BY <1>5 DEF Max

\* The greatest element is the only one that is above all of the set.
LEMMA MaxIs ==
    ASSUME NEW n \in Nat, NEW S \in SUBSET (1..n), NEW x \in S, \A y \in S : x >= y
    PROVE  Max(S) = x
<1>1. Max(S) \in S /\ Max(S) >= x
  BY MaxOfIndexes
<1>2. x >= Max(S)
  BY <1>1, Zenon
<1>3. x \in 1..n /\ Max(S) \in 1..n
  BY <1>1, Zenon
<1> QED
  BY <1>1, <1>2, <1>3

-----------------------------------------------------------------------------
(* Lookups in segments.                                                    *)

SegmentMap == [Generations -> Samples]

\* The newest segment that holds a key decides, so a lookup returns a value.
LEMMA SegmentGetType ==
    ASSUME NEW files \in Seq(Generations), NEW segs \in SegmentMap, NEW k \in Keys
    PROVE  SegmentGet(files, segs, k) \in Puts \cup {NoSample}
<1> DEFINE hits == {i \in DOMAIN files : segs[files[i]][k] # NoSample}
<1>1. CASE hits = {}
  BY <1>1 DEF SegmentGet
<1>2. CASE hits # {}
  <2>1. hits \in SUBSET (1..Len(files)) /\ Len(files) \in Nat
    OBVIOUS
  <2>2. Max(hits) \in hits
    BY <1>2, <2>1, MaxOfIndexes, Zenon
  <2>3. Max(hits) \in DOMAIN files
    BY <2>2
  <2>4. files[Max(hits)] \in Generations
    BY <2>3
  <2>5. segs[files[Max(hits)]][k] \in Puts \cup {NoSample}
    BY <2>4 DEF SegmentMap, Samples
  <2> QED
    BY <1>2, <2>5 DEF SegmentGet
<1> QED
  BY <1>1, <1>2

\* A lookup reads nothing but the files it is given: orphans do not matter.
LEMMA SegmentGetSame ==
    ASSUME NEW files \in Seq(Generations), NEW segs1, NEW segs2, NEW k \in Keys,
           \A i \in DOMAIN files : segs1[files[i]] = segs2[files[i]]
    PROVE  SegmentGet(files, segs1, k) = SegmentGet(files, segs2, k)
<1> DEFINE hits1 == {i \in DOMAIN files : segs1[files[i]][k] # NoSample}
           hits2 == {i \in DOMAIN files : segs2[files[i]][k] # NoSample}
<1>1. hits1 = hits2
  OBVIOUS
<1>2. CASE hits1 = {}
  BY <1>1, <1>2 DEF SegmentGet
<1>3. CASE hits1 # {}
  <2>1. hits1 \in SUBSET (1..Len(files)) /\ Len(files) \in Nat
    OBVIOUS
  <2>2. Max(hits1) \in hits1
    BY <1>3, <2>1, MaxOfIndexes, Zenon
  <2>3. segs1[files[Max(hits1)]] = segs2[files[Max(hits1)]]
    BY <2>2
  <2>4. SegmentGet(files, segs1, k) = segs1[files[Max(hits1)]][k]
    BY <1>3 DEF SegmentGet
  <2>5. SegmentGet(files, segs2, k) = segs2[files[Max(hits2)]][k]
    BY <1>1, <1>3 DEF SegmentGet
  <2> QED
    BY <1>1, <2>3, <2>4, <2>5, Zenon
<1> QED
  BY <1>2, <1>3

LEMMA SegmentGetEmpty ==
    ASSUME NEW segs, NEW k
    PROVE  SegmentGet(<<>>, segs, k) = NoSample
<1>1. {i \in DOMAIN <<>> : segs[<<>>[i]][k] # NoSample} = {}
  OBVIOUS
<1> QED
  BY <1>1 DEF SegmentGet

\* A flush puts its segment on top of the older ones.
LEMMA SegmentGetAppend ==
    ASSUME NEW files \in Seq(Generations), NEW g \in Generations, NEW segs, NEW k \in Keys
    PROVE  SegmentGet(Append(files, g), segs, k) =
               IF segs[g][k] # NoSample THEN segs[g][k] ELSE SegmentGet(files, segs, k)
<1> DEFINE files2 == Append(files, g)
           n == Len(files)
           hits  == {i \in DOMAIN files : segs[files[i]][k] # NoSample}
           hits2 == {i \in DOMAIN files2 : segs[files2[i]][k] # NoSample}
<1>1. n \in Nat /\ DOMAIN files = 1..n /\ DOMAIN files2 = 1..(n + 1)
  OBVIOUS
<1>2. files2[n + 1] = g /\ \A i \in 1..n : files2[i] = files[i]
  OBVIOUS
<1>3. CASE segs[g][k] # NoSample
  <2>1. n + 1 \in hits2 /\ hits2 \in SUBSET (1..(n + 1)) /\ n + 1 \in Nat
    BY <1>1, <1>2, <1>3
  <2>2. \A y \in hits2 : n + 1 >= y
    BY <1>1
  <2>3. Max(hits2) = n + 1
    <3> HIDE DEF hits2, n
    <3> QED
      BY <2>1, <2>2, MaxIs
  <2>4. SegmentGet(files2, segs, k) = segs[files2[Max(hits2)]][k]
    BY <2>1 DEF SegmentGet
  <2> QED
    BY <1>2, <1>3, <2>3, <2>4
<1>4. CASE segs[g][k] = NoSample
  <2>1. hits2 = hits
    <3>1. \A i \in 1..(n + 1) : i \in hits2 <=> i \in hits
      <4> TAKE i \in 1..(n + 1)
      <4>1. CASE i = n + 1
        BY <1>1, <1>2, <1>4, <4>1
      <4>2. CASE i \in 1..n
        BY <1>1, <1>2, <4>2
      <4> QED
        BY <1>1, <4>1, <4>2
    <3>2. hits2 \subseteq 1..(n + 1) /\ hits \subseteq 1..(n + 1)
      BY <1>1
    <3> QED
      BY <3>1, <3>2
  <2>2. CASE hits = {}
    BY <1>4, <2>1, <2>2 DEF SegmentGet
  <2>3. CASE hits # {}
    <3>1. hits \in SUBSET (1..n)
      BY <1>1
    <3>2. Max(hits) \in hits
      BY <1>1, <2>3, <3>1, MaxOfIndexes, Zenon
    <3>3. files2[Max(hits)] = files[Max(hits)]
      BY <1>1, <1>2, <3>2
    <3>4. SegmentGet(files, segs, k) = segs[files[Max(hits)]][k]
      BY <2>3 DEF SegmentGet
    <3>5. SegmentGet(files2, segs, k) = segs[files2[Max(hits2)]][k]
      BY <2>1, <2>3 DEF SegmentGet
    <3> QED
      BY <1>4, <2>1, <3>3, <3>4, <3>5
  <2> QED
    BY <2>2, <2>3
<1> QED
  BY <1>3, <1>4

\* The only segment of a compacted directory decides alone.
LEMMA SegmentGetSingle ==
    ASSUME NEW g \in Generations, NEW segs, NEW k \in Keys
    PROVE  SegmentGet(<<g>>, segs, k) = segs[g][k]
<1>1. <<g>> = Append(<<>>, g) /\ <<>> \in Seq(Generations)
  OBVIOUS
<1>2. SegmentGet(Append(<<>>, g), segs, k) =
          IF segs[g][k] # NoSample THEN segs[g][k] ELSE SegmentGet(<<>>, segs, k)
  BY <1>1, SegmentGetAppend, Zenon
<1>3. SegmentGet(<<>>, segs, k) = NoSample
  BY SegmentGetEmpty
<1> QED
  BY <1>1, <1>2, <1>3

\* A key that one of the files holds is found.
LEMMA SegmentGetHit ==
    ASSUME NEW files \in Seq(Generations), NEW segs, NEW k \in Keys,
           NEW i \in DOMAIN files, segs[files[i]][k] # NoSample
    PROVE  SegmentGet(files, segs, k) # NoSample
<1> DEFINE hits == {j \in DOMAIN files : segs[files[j]][k] # NoSample}
<1>1. hits # {} /\ hits \in SUBSET (1..Len(files)) /\ Len(files) \in Nat
  OBVIOUS
<1>2. Max(hits) \in hits
  BY <1>1, MaxOfIndexes, Zenon
<1>3. SegmentGet(files, segs, k) = segs[files[Max(hits)]][k]
  BY <1>1 DEF SegmentGet
<1> QED
  BY <1>2, <1>3

\* Merging at least one existing segment yields a segment that can be written.
LEMMA MergeNotEmpty ==
    ASSUME NEW files \in Seq(Generations), NEW segs \in SegmentMap,
           NEW i \in DOMAIN files, segs[files[i]] # NoFile
    PROVE  SegmentsView(files, segs) # NoFile
<1>1. segs[files[i]] \in [Keys -> Puts \cup {NoSample}]
  BY DEF SegmentMap, Samples
<1>2. PICK k \in Keys : segs[files[i]][k] # NoSample
  BY <1>1 DEF NoFile, NoSamples
<1>3. SegmentGet(files, segs, k) # NoSample
  BY <1>2, SegmentGetHit
<1>4. SegmentsView(files, segs)[k] # NoSample /\ NoFile[k] = NoSample
  BY <1>3 DEF SegmentsView, NoFile, NoSamples
<1> QED
  BY <1>4

-----------------------------------------------------------------------------
(* Replay of a log.                                                        *)

LEMMA ReplayEmpty == Replay(<<>>) = NoSamples
<1>1. \A k \in Keys : {i \in DOMAIN <<>> : <<>>[i].key = k} = {}
  OBVIOUS
<1> QED
  BY <1>1 DEF Replay, NoSamples

\* Replaying a log yields a memtable.
LEMMA ReplayType ==
    ASSUME NEW records \in Seq(Record)
    PROVE  Replay(records) \in Samples
<1> SUFFICES ASSUME NEW k \in Keys
             PROVE  Replay(records)[k] \in Puts \cup {NoSample}
  BY DEF Replay, Samples
<1> DEFINE hits == {i \in DOMAIN records : records[i].key = k}
<1>0. Replay(records)[k] = IF hits = {} THEN NoSample ELSE records[Max(hits)].value
  BY DEF Replay
<1>1. CASE hits = {}
  BY <1>0, <1>1
<1>2. CASE hits # {}
  <2>1. hits \in SUBSET (1..Len(records)) /\ Len(records) \in Nat
    OBVIOUS
  <2>2. Max(hits) \in hits
    BY <1>2, <2>1, MaxOfIndexes, Zenon
  <2>3. records[Max(hits)] \in Record
    BY <2>2
  <2> QED
    BY <1>0, <1>2, <2>3 DEF Record
<1> QED
  BY <1>1, <1>2

\* Replaying one more record is inserting it into the memtable: put and
\* recovery build the same state.
LEMMA ReplayAppend ==
    ASSUME NEW records \in Seq(Record), NEW r \in Record
    PROVE  Replay(Append(records, r)) = [Replay(records) EXCEPT ![r.key] = r.value]
<1> DEFINE records2 == Append(records, r)
           n == Len(records)
           H(k) == {i \in DOMAIN records : records[i].key = k}
           H2(k) == {i \in DOMAIN records2 : records2[i].key = k}
<1>1. n \in Nat /\ DOMAIN records = 1..n /\ DOMAIN records2 = 1..(n + 1)
  OBVIOUS
<1>2. records2[n + 1] = r /\ \A i \in 1..n : records2[i] = records[i]
  OBVIOUS
<1>3. \A k \in Keys :
         /\ Replay(records)[k] = IF H(k) = {} THEN NoSample ELSE records[Max(H(k))].value
         /\ Replay(records2)[k] = IF H2(k) = {} THEN NoSample ELSE records2[Max(H2(k))].value
  BY DEF Replay
<1>4. ASSUME NEW k \in Keys, k = r.key
      PROVE  Replay(records2)[k] = r.value
  <2>1. n + 1 \in H2(k) /\ H2(k) \in SUBSET (1..(n + 1)) /\ n + 1 \in Nat
    BY <1>1, <1>2, <1>4
  <2>2. \A y \in H2(k) : n + 1 >= y
    BY <1>1
  <2>3. Max(H2(k)) = n + 1
    <3> HIDE DEF H2, n
    <3> QED
      BY <2>1, <2>2, MaxIs
  <2>4. H2(k) # {}
    BY <2>1
  <2> QED
    BY <1>2, <1>3, <2>3, <2>4
<1>5. ASSUME NEW k \in Keys, k # r.key
      PROVE  Replay(records2)[k] = Replay(records)[k]
  <2>1. H2(k) = H(k)
    <3>1. \A i \in 1..(n + 1) : i \in H2(k) <=> i \in H(k)
      <4> TAKE i \in 1..(n + 1)
      <4>1. CASE i = n + 1
        BY <1>1, <1>2, <1>5, <4>1
      <4>2. CASE i \in 1..n
        BY <1>1, <1>2, <4>2
      <4> QED
        BY <1>1, <4>1, <4>2
    <3>2. H2(k) \subseteq 1..(n + 1) /\ H(k) \subseteq 1..(n + 1)
      BY <1>1
    <3> QED
      BY <3>1, <3>2
  <2>2. CASE H(k) = {}
    BY <1>3, <2>1, <2>2
  <2>3. CASE H(k) # {}
    <3>1. H(k) \in SUBSET (1..n)
      BY <1>1
    <3>2. Max(H(k)) \in H(k)
      BY <1>1, <2>3, <3>1, MaxOfIndexes, Zenon
    <3>3. records2[Max(H(k))] = records[Max(H(k))]
      BY <1>1, <1>2, <3>2
    <3>4. Replay(records)[k] = records[Max(H(k))].value
      BY <1>3, <2>3, Zenon
    <3>5. Replay(records2)[k] = records2[Max(H2(k))].value
      BY <1>3, <2>1, <2>3, Zenon
    <3> QED
      BY <2>1, <3>3, <3>4, <3>5, Zenon
  <2> QED
    BY <2>2, <2>3
<1>6. Replay(records) \in [Keys -> Puts \cup {NoSample}]
  BY ReplayType DEF Samples
<1>7. Replay(records2) = [k \in Keys |-> Replay(records2)[k]]
  BY DEF Replay
<1> QED
  BY <1>4, <1>5, <1>6, <1>7

-----------------------------------------------------------------------------
(* Types.                                                                  *)

LEMMA CardinalityOfKeys ==
    ASSUME NEW S \in SUBSET Keys
    PROVE  IsFiniteSet(S) /\ Cardinality(S) \in Nat
BY KeysFinite, FS_Subset, FS_CardinalityType

LEMMA TypeInit == Init => TypeInv
<1> SUFFICES ASSUME Init PROVE TypeInv
  OBVIOUS
<1>1. EmptyManifest \in Manifest
  BY DEF EmptyManifest, Manifest
<1>2. NoSamples \in Samples
  BY DEF NoSamples, Samples
<1>3. EmptyLog \in Log
  BY DEF EmptyLog, Log
<1>4. EmptyDirectory \in Directory
  BY <1>1, <1>2 DEF EmptyDirectory, Directory, NoFile
<1> QED
  BY <1>1, <1>2, <1>3, <1>4, BoundsAreNat DEF Init, TypeInv, TypeOK, Phases, Steps

LEMMA RemoveFilesType ==
    ASSUME NEW d \in Directory, NEW gens
    PROVE  RemoveFiles(d, gens) \in Directory
<1>1. NoFile \in Samples
  BY DEF NoFile, NoSamples, Samples
<1> QED
  BY <1>1 DEF RemoveFiles, Directory

LEMMA TypeRecover == TypeInv /\ Recover => TypeInv'
<1> SUFFICES ASSUME TypeInv, Recover PROVE TypeInv'
  OBVIOUS
<1> USE DEF TypeInv, TypeOK, Phases, Steps
<1>1. CASE LoadManifest
  BY <1>1 DEF LoadManifest, disk, Manifest, Directory
<1>2. CASE SweepDirectory
  <2>1. dir' \in Directory
    <3>1. PICK gone \in SUBSET Orphans(dir), temps \in SUBSET dir.temps :
             dir' = [RemoveFiles(dir, gone) EXCEPT !.temps = temps]
      BY <1>2 DEF SweepDirectory
    <3>2. RemoveFiles(dir, gone) \in Directory /\ temps \in SUBSET Generations
      BY RemoveFilesType DEF Directory
    <3> QED
      BY <3>1, <3>2 DEF Directory
  <2> QED
    BY <1>2, <2>1 DEF SweepDirectory
<1>3. CASE CreateWal
  BY <1>3 DEF CreateWal, Directory
<1>4. CASE ReplayWal
  <2>1. memtable' \in Samples
    BY <1>4, ReplayType DEF ReplayWal, Log
  <2>2. logical_sample_count' \in Nat
    <3> DEFINE fresh == {k \in KeysOf(Replay(wal.records)) :
                            SegmentGet(segments, dir.segs, k) = NoSample}
    <3>1. fresh \in SUBSET Keys
      BY DEF KeysOf
    <3>2. Cardinality(fresh) \in Nat
      BY <3>1, CardinalityOfKeys
    <3>3. manifest.logical_sample_count \in Nat
      BY DEF Manifest
    <3> QED
      BY <1>4, <3>2, <3>3 DEF ReplayWal, RecoveredCount
  <2>3. wal' \in Log
    BY <1>4 DEF ReplayWal, Log
  <2> QED
    BY <1>4, <2>1, <2>2, <2>3 DEF ReplayWal
<1>5. CASE SyncRecoveredWal
  BY <1>5 DEF SyncRecoveredWal, SyncWal
<1> QED
  BY <1>1, <1>2, <1>3, <1>4, <1>5 DEF Recover

LEMMA InsertRecordType ==
    ASSUME TypeOK, NEW r \in Record, InsertRecord(r)
    PROVE  memtable' \in Samples /\ logical_sample_count' \in Nat
BY DEF TypeOK, InsertRecord, Samples, Record

LEMMA ViewType == TypeOK => View \in Samples
<1> SUFFICES ASSUME TypeOK, NEW k \in Keys PROVE Get(k) \in Puts \cup {NoSample}
  BY DEF View, Samples
<1>1. segments \in Seq(Generations) /\ dir.segs \in SegmentMap
  BY DEF TypeOK, Directory, SegmentMap
<1> QED
  BY <1>1, SegmentGetType DEF TypeOK, Get, Samples

LEMMA CompactedType == TypeOK => Compacted \in Samples
<1> SUFFICES ASSUME TypeOK, NEW k \in Keys
             PROVE  SegmentGet(segments, dir.segs, k) \in Puts \cup {NoSample}
  BY DEF Compacted, SegmentsView, Samples
<1>1. segments \in Seq(Generations) /\ dir.segs \in SegmentMap
  BY DEF TypeOK, Directory, SegmentMap
<1> QED
  BY <1>1, SegmentGetType

LEMMA TypePut == TypeInv /\ ((\E k \in Keys : PutBegin(k)) \/ PutWrite \/ PutSync \/ Sync) => TypeInv'
<1> SUFFICES ASSUME TypeInv, (\E k \in Keys : PutBegin(k)) \/ PutWrite \/ PutSync \/ Sync
             PROVE  TypeInv'
  OBVIOUS
<1> USE DEF TypeInv, TypeOK, Phases, Steps
<1>1. ASSUME NEW k \in Keys, PutBegin(k) PROVE TypeInv'
  <2>1. nput' \in 0..MaxPuts /\ [key |-> k, value |-> nput + 1] \in Record
    BY <1>1, BoundsAreNat DEF PutBegin, Record, Puts
  <2>2. wal' \in Log /\ wal'.tail # <<>>
    BY <1>1, <2>1 DEF PutBegin, Log
  <2> QED
    BY <1>1, <2>1, <2>2 DEF PutBegin, Idle
<1>2. CASE PutWrite
  <2>1. wal.tail[1] \in Record /\ wal.records \in Seq(Record)
    BY <1>2 DEF PutWrite, Log
  <2>2. wal' \in Log /\ Len(wal'.records) > 0
    BY <1>2, <2>1 DEF PutWrite, Log
  <2>3. memtable' \in Samples /\ logical_sample_count' \in Nat
    BY <1>2, <2>1, InsertRecordType DEF PutWrite
  <2>4. step' \in {"none", "append_sync"}
    BY <1>2 DEF PutWrite
  <2> QED
    BY <1>2, <2>2, <2>3, <2>4 DEF PutWrite
<1>3. CASE PutSync
  <2> DEFINE r == wal.records[Len(wal.records)]
  <2>1. r \in Record
    BY <1>3 DEF PutSync, Log
  <2>2. memtable' \in Samples /\ logical_sample_count' \in Nat
    BY <1>3, <2>1, InsertRecordType DEF PutSync
  <2>3. floor' \in Samples
    BY <1>3, <2>1 DEF PutSync, Samples, Record
  <2>4. dwal' \in Log /\ ddir' \in Directory
    BY <1>3 DEF PutSync, SyncWal
  <2> QED
    BY <1>3, <2>2, <2>3, <2>4 DEF PutSync
<1>4. CASE Sync
  BY <1>4, ViewType DEF Sync, SyncWal, engine
<1> QED
  BY <1>1, <1>2, <1>3, <1>4

LEMMA TypeMaintain ==
    TypeInv /\ (FlushBegin \/ CompactBegin \/ PublishSegment \/ SyncSegment \/ PublishManifest
                  \/ InstallManifest \/ TruncateWal \/ ResetWal) => TypeInv'
<1> SUFFICES ASSUME TypeInv,
                    FlushBegin \/ CompactBegin \/ PublishSegment \/ SyncSegment \/ PublishManifest
                      \/ InstallManifest \/ TruncateWal \/ ResetWal
             PROVE  TypeInv'
  OBVIOUS
<1> USE DEF TypeInv, TypeOK, Phases, Steps
<1>0. ASSUME NEW op \in {"flush", "compact"}, NEW m \in Manifest,
             Idle, m.generation \in Generations, WriteTemporary(op, m)
      PROVE  TypeInv'
  BY <1>0 DEF WriteTemporary, Directory, Idle
<1>1. CASE FlushBegin
  <2>1. NextGeneration \in Generations
    BY <1>1, BoundsAreNat DEF FlushBegin, NextGeneration, Generations, Manifest
  <2>2. FlushManifest \in Manifest /\ FlushManifest.generation = NextGeneration
    BY <2>1 DEF FlushManifest, Manifest, Generations
  <2> QED
    BY <1>0, <1>1, <2>1, <2>2 DEF FlushBegin
<1>2. CASE CompactBegin
  <2>1. NextGeneration \in Generations
    BY <1>2, BoundsAreNat DEF CompactBegin, NextGeneration, Generations, Manifest
  <2>2. CompactManifest \in Manifest /\ CompactManifest.generation = NextGeneration
    BY <2>1 DEF CompactManifest, Manifest, Generations
  <2> QED
    BY <1>0, <1>2, <2>1, <2>2 DEF CompactBegin
<1>3. CASE PublishSegment
  <2>1. (IF kind = "flush" THEN memtable ELSE Compacted) \in Samples
    BY CompactedType
  <2> QED
    BY <1>3, <2>1 DEF PublishSegment, Directory
<1>4. CASE SyncSegment
  BY <1>4 DEF SyncSegment, SyncDirectory
<1>5. CASE PublishManifest
  BY <1>5 DEF PublishManifest, Directory
<1>6. CASE InstallManifest
  <2>1. dir' \in Directory
    BY <1>6, RemoveFilesType DEF InstallManifest
  <2>2. next.segment_files \in Seq(Generations) /\ EmptyManifest \in Manifest
    BY DEF Manifest, EmptyManifest
  <2> QED
    BY <1>6, <2>1, <2>2 DEF InstallManifest, SyncDirectory, EndMutation
<1>7. CASE TruncateWal
  BY <1>7 DEF TruncateWal, EmptyLog, Log
<1>8. CASE ResetWal
  <2>1. NoSamples \in Samples /\ View \in Samples /\ EmptyManifest \in Manifest
    BY ViewType DEF NoSamples, Samples, Manifest, EmptyManifest
  <2> QED
    BY <1>8, <2>1 DEF ResetWal, SyncWal, EndMutation
<1> QED
  BY <1>1, <1>2, <1>3, <1>4, <1>5, <1>6, <1>7, <1>8

LEMMA TypeStop ==
    TypeInv /\ (Fail \/ Stop \/ PowerLoss \/ WriteBack \/ UNCHANGED vars) => TypeInv'
<1> SUFFICES ASSUME TypeInv, Fail \/ Stop \/ PowerLoss \/ WriteBack \/ UNCHANGED vars
             PROVE  TypeInv'
  OBVIOUS
<1> USE DEF TypeInv, TypeOK, Phases, Steps
<1>1. EmptyManifest \in Manifest /\ NoSamples \in Samples /\ EmptyLog \in Log
  BY DEF EmptyManifest, Manifest, NoSamples, Samples, EmptyLog, Log
<1>2. CASE Fail
  BY <1>1, <1>2 DEF Fail, EndMutation, disk
<1>3. CASE Stop
  BY <1>1, <1>3 DEF Stop, LoseMemory, EndMutation, disk
<1>4. CASE PowerLoss
  BY <1>1, <1>4 DEF PowerLoss, LoseMemory, EndMutation
<1>5. CASE WriteBackWal
  BY <1>5 DEF WriteBackWal, engine
<1>6. CASE WriteBackDirectory
  <2>1. ddir' \in Directory
    BY <1>6 DEF WriteBackDirectory, Directory
  <2> QED
    BY <1>6, <2>1 DEF WriteBackDirectory, engine
<1>7. CASE UNCHANGED vars
  BY <1>7 DEF vars, engine, disk
<1> QED
  BY <1>2, <1>3, <1>4, <1>5, <1>6, <1>7 DEF WriteBack

LEMMA TypeInvariant == Spec => []TypeInv
<1>1. TypeInv /\ [Next]_vars => TypeInv'
  BY TypeRecover, TypePut, TypeMaintain, TypeStop DEF Next, Mutate
<1> QED
  BY <1>1, TypeInit, PTL DEF Spec

\* Type correctness of the engine, the files and the operating system's view of
\* them, for any keys, bounds and kind of file system.
THEOREM TypeCorrect == Spec => []TypeOK
BY TypeInvariant, PTL DEF TypeInv

-----------------------------------------------------------------------------
(* Memory and files.                                                       *)

LEMMA MemoryInit == Init => MemoryInv
BY ReplayEmpty DEF Init, MemoryInv, Opened

LEMMA MemoryRecover == TypeInv /\ MemoryInv /\ Recover => MemoryInv'
<1> SUFFICES ASSUME TypeInv, MemoryInv, Recover PROVE MemoryInv'
  OBVIOUS
<1> USE DEF TypeInv, MemoryInv, Opened
<1>1. CASE LoadManifest
  <2>1. memtable = NoSamples
    BY <1>1 DEF LoadManifest
  <2> QED
    BY <1>1, <2>1 DEF LoadManifest, disk
<1>2. CASE SweepDirectory
  BY <1>2 DEF SweepDirectory, RemoveFiles
<1>3. CASE CreateWal
  BY <1>3 DEF CreateWal
<1>4. CASE ReplayWal
  BY <1>4 DEF ReplayWal
<1>5. CASE SyncRecoveredWal
  BY <1>5, ReplayEmpty DEF SyncRecoveredWal, EmptyLog
<1> QED
  BY <1>1, <1>2, <1>3, <1>4, <1>5 DEF Recover

LEMMA MemoryPut ==
    TypeInv /\ MemoryInv /\ ((\E k \in Keys : PutBegin(k)) \/ PutWrite \/ PutSync \/ Sync)
      => MemoryInv'
<1> SUFFICES ASSUME TypeInv, MemoryInv,
                    (\E k \in Keys : PutBegin(k)) \/ PutWrite \/ PutSync \/ Sync
             PROVE  MemoryInv'
  OBVIOUS
<1> USE DEF TypeInv, MemoryInv, Opened
<1>1. ASSUME NEW k \in Keys, PutBegin(k) PROVE MemoryInv'
  BY <1>1 DEF PutBegin, Idle
<1>2. CASE PutWrite
  <2> DEFINE r == wal.tail[1]
  <2>1. r \in Record /\ wal.records \in Seq(Record)
    BY <1>2 DEF PutWrite, TypeOK, Log
  <2>2. wal'.records = Append(wal.records, r) /\ LastRecord' = r
    BY <1>2, <2>1 DEF PutWrite, LastRecord
  <2>3. Replay(wal'.records) = [memtable EXCEPT ![r.key] = r.value]
    BY <1>2, <2>1, <2>2, ReplayAppend DEF PutWrite
  <2>4. CASE durability = "sync_on_append"
    BY <1>2, <2>2, <2>3, <2>4 DEF PutWrite
  <2>5. CASE durability # "sync_on_append"
    BY <1>2, <2>3, <2>5 DEF PutWrite, InsertRecord
  <2> QED
    BY <2>4, <2>5
<1>3. CASE PutSync
  BY <1>3 DEF PutSync, InsertRecord, LastRecord
<1>4. CASE Sync
  BY <1>4 DEF Sync, engine, Idle
<1> QED
  BY <1>1, <1>2, <1>3, <1>4

LEMMA MemoryMaintain ==
    TypeInv /\ MemoryInv
      /\ (FlushBegin \/ CompactBegin \/ PublishSegment \/ SyncSegment \/ PublishManifest
            \/ InstallManifest \/ TruncateWal \/ ResetWal) => MemoryInv'
<1> SUFFICES ASSUME TypeInv, MemoryInv,
                    FlushBegin \/ CompactBegin \/ PublishSegment \/ SyncSegment \/ PublishManifest
                      \/ InstallManifest \/ TruncateWal \/ ResetWal
             PROVE  MemoryInv'
  OBVIOUS
<1> USE DEF TypeInv, MemoryInv, Opened
<1>1. CASE FlushBegin
  BY <1>1 DEF FlushBegin, WriteTemporary, Idle, TypeOK, Directory
<1>2. CASE CompactBegin
  BY <1>2 DEF CompactBegin, WriteTemporary, Idle, TypeOK, Directory
<1>3. CASE PublishSegment
  BY <1>3 DEF PublishSegment, TypeOK, Directory
<1>4. CASE SyncSegment
  BY <1>4 DEF SyncSegment
<1>5. CASE PublishManifest
  BY <1>5 DEF PublishManifest, TypeOK, Directory
<1>6. CASE InstallManifest
  BY <1>6 DEF InstallManifest, RemoveFiles, EndMutation, TypeOK, Directory
<1>7. CASE TruncateWal
  BY <1>7 DEF TruncateWal
<1>8. CASE ResetWal
  BY <1>8, ReplayEmpty DEF ResetWal, EndMutation, EmptyLog
<1> QED
  BY <1>1, <1>2, <1>3, <1>4, <1>5, <1>6, <1>7, <1>8

LEMMA MemoryStop ==
    TypeInv /\ MemoryInv /\ (Fail \/ Stop \/ PowerLoss \/ WriteBack \/ UNCHANGED vars)
      => MemoryInv'
<1> SUFFICES ASSUME TypeInv, MemoryInv, Fail \/ Stop \/ PowerLoss \/ WriteBack \/ UNCHANGED vars
             PROVE  MemoryInv'
  OBVIOUS
<1> USE DEF TypeInv, MemoryInv, Opened
<1>1. CASE Fail
  BY <1>1 DEF Fail, EndMutation, disk
<1>2. CASE Stop
  BY <1>2 DEF Stop, LoseMemory, EndMutation, disk
<1>3. CASE PowerLoss
  BY <1>3 DEF PowerLoss, LoseMemory, EndMutation
<1>4. CASE WriteBack
  BY <1>4 DEF WriteBack, WriteBackWal, WriteBackDirectory, engine, LastRecord
<1>5. CASE UNCHANGED vars
  BY <1>5 DEF vars, engine, disk, LastRecord
<1> QED
  BY <1>1, <1>2, <1>3, <1>4, <1>5

LEMMA MemoryInvariant == Spec => []MemoryInv
<1>1. TypeInv /\ MemoryInv /\ [Next]_vars => MemoryInv'
  BY MemoryRecover, MemoryPut, MemoryMaintain, MemoryStop DEF Next, Mutate
<1> QED
  BY <1>1, MemoryInit, TypeInvariant, PTL DEF Spec

\* The memory never drifts from the files: whatever sequence of puts, flushes,
\* compactions, failures and crashes led here, and on any file system, an idle
\* engine answers exactly what a restart would recover.
THEOREM MemoryIsRecoverable == Spec => []MemoryMatchesFiles
<1>1. MemoryInv => MemoryMatchesFiles
  <2> SUFFICES ASSUME MemoryInv, Idle PROVE View = Recovered(wal, dir)
    BY DEF MemoryMatchesFiles
  <2>1. memtable = Replay(wal.records) /\ segments = dir.manifest.segment_files
    BY DEF MemoryInv, Idle, Opened
  <2> QED
    BY <2>1 DEF View, Get, Recovered
<1> QED
  BY <1>1, MemoryInvariant, PTL

-----------------------------------------------------------------------------
(* The durable generation.                                                 *)

LEMMA GenerationStep ==
    TypeInv /\ MemoryInv /\ GenerationInv /\ [Next]_vars
      => GenerationInv' /\ ddir'.manifest.generation >= ddir.manifest.generation
<1> SUFFICES ASSUME TypeInv, MemoryInv, GenerationInv, [Next]_vars
             PROVE  GenerationInv' /\ ddir'.manifest.generation >= ddir.manifest.generation
  OBVIOUS
<1> USE DEF GenerationInv, Preparing
<1>0. /\ dir.manifest.generation \in Nat
      /\ ddir.manifest.generation \in Nat
      /\ manifest.generation \in Nat
  BY DEF TypeInv, TypeOK, Directory, Manifest
<1>1. CASE Recover
  <2>1. dir'.manifest = dir.manifest /\ step' = step
    BY <1>1 DEF Recover, LoadManifest, SweepDirectory, CreateWal, ReplayWal, SyncRecoveredWal,
                RemoveFiles, disk, TypeInv, TypeOK, Directory
  <2>2. ddir' \in {ddir, dir}
    BY <1>1 DEF Recover, LoadManifest, SweepDirectory, CreateWal, ReplayWal, SyncRecoveredWal,
                SyncWal, disk
  <2>3. step = "none"
    BY <1>1 DEF Recover, LoadManifest, SweepDirectory, CreateWal, ReplayWal, SyncRecoveredWal,
                TypeInv
  <2> QED
    BY <1>0, <2>1, <2>2, <2>3
<1>2. CASE \E k \in Keys : PutBegin(k)
  BY <1>0, <1>2 DEF PutBegin
<1>3. CASE PutWrite \/ PutSync \/ Sync
  BY <1>0, <1>3 DEF PutWrite, PutSync, Sync, SyncWal, engine
<1>4. CASE FlushBegin \/ CompactBegin
  <2>1. next'.generation = manifest.generation + 1 /\ manifest' = manifest /\ ddir' = ddir
    BY <1>4 DEF FlushBegin, CompactBegin, FlushManifest, CompactManifest, NextGeneration,
                WriteTemporary
  <2>2. dir'.manifest = dir.manifest
    BY <1>4 DEF FlushBegin, CompactBegin, WriteTemporary, TypeInv, TypeOK, Directory
  <2> QED
    BY <1>0, <2>1, <2>2
<1>5. CASE PublishSegment
  <2>1. dir'.manifest = dir.manifest
    BY <1>5 DEF PublishSegment, TypeInv, TypeOK, Directory
  <2> QED
    BY <1>0, <1>5, <2>1 DEF PublishSegment
<1>6. CASE SyncSegment
  BY <1>0, <1>6 DEF SyncSegment, SyncDirectory
<1>7. CASE PublishManifest
  <2>1. dir'.manifest = next /\ manifest = dir.manifest
    BY <1>7 DEF PublishManifest, TypeInv, TypeOK, Directory, MemoryInv, Opened
  <2> QED
    BY <1>0, <1>7, <2>1 DEF PublishManifest
<1>8. CASE InstallManifest
  <2>1. dir'.manifest = dir.manifest /\ ddir' = dir /\ step' \in {"truncate", "none"}
    BY <1>8 DEF InstallManifest, SyncDirectory, RemoveFiles, EndMutation, TypeInv, TypeOK,
                Directory
  <2> QED
    BY <1>0, <2>1
<1>9. CASE TruncateWal \/ ResetWal
  BY <1>0, <1>9 DEF TruncateWal, ResetWal, SyncWal, EndMutation
<1>10. CASE Fail \/ Stop
  BY <1>0, <1>10 DEF Fail, Stop, LoseMemory, EndMutation, disk
<1>11. CASE PowerLoss
  BY <1>0, <1>11 DEF PowerLoss, LoseMemory, EndMutation
<1>12. CASE WriteBack
  <2>1. ddir'.manifest \in {ddir.manifest, dir.manifest}
    BY <1>12 DEF WriteBack, WriteBackWal, WriteBackDirectory, TypeInv, TypeOK, Directory
  <2> QED
    BY <1>0, <1>12, <2>1 DEF WriteBack, WriteBackWal, WriteBackDirectory, engine
<1>13. CASE UNCHANGED vars
  BY <1>0, <1>13 DEF vars, engine, disk
<1> QED
  BY <1>1, <1>2, <1>3, <1>4, <1>5, <1>6, <1>7, <1>8, <1>9, <1>10, <1>11, <1>12, <1>13
     DEF Next, Mutate

LEMMA GenerationInvariant == Spec => []GenerationInv
<1>1. Init => GenerationInv
  BY DEF Init, GenerationInv, Preparing, EmptyDirectory, EmptyManifest
<1> QED
  BY <1>1, GenerationStep, TypeInvariant, MemoryInvariant, PTL DEF Spec

\* The manifest that a power loss would leave is never replaced by an older
\* one, on any file system: generations, and so segment names, are not reused
\* once they are durable.
THEOREM DurableGenerationIsMonotonic == Spec => DurableGenerationGrows
<1>1. TypeInv /\ MemoryInv /\ GenerationInv /\ [Next]_vars
        => [ddir'.manifest.generation >= ddir.manifest.generation]_vars
  BY GenerationStep
<1> QED
  BY <1>1, GenerationInvariant, TypeInvariant, MemoryInvariant, PTL
     DEF Spec, DurableGenerationGrows

-----------------------------------------------------------------------------
(* No manifest names a missing segment, live segments never change, and no *)
(* promise is broken by a crash.                                           *)

\* The invariants that hold on every file system, used as one fact.
BaseInv == TypeInv /\ MemoryInv /\ GenerationInv

LEMMA BaseTypes ==
    ASSUME BaseInv
    PROVE  /\ dir \in Directory /\ ddir \in Directory
           /\ dir.segs \in SegmentMap /\ ddir.segs \in SegmentMap
           /\ dir.manifest \in Manifest /\ ddir.manifest \in Manifest
           /\ manifest \in Manifest /\ next \in Manifest
           /\ dir.manifest.segment_files \in Seq(Generations)
           /\ ddir.manifest.segment_files \in Seq(Generations)
           /\ dir.manifest.generation \in Nat /\ ddir.manifest.generation \in Nat
           /\ manifest.generation \in Nat /\ next.generation \in Nat
           /\ segments \in Seq(Generations)
           /\ memtable \in Samples
           /\ Generations \subseteq Nat
BY BoundsAreNat DEF BaseInv, TypeInv, TypeOK, Directory, SegmentMap, Manifest, Generations

\* When neither directory changes but for an fsync or a write back, both stay sound.
LEMMA DirectorySynced ==
    ASSUME DirectoryInv, dir' = dir, ddir' \in {ddir, dir}
    PROVE  /\ LiveOK(dir)' /\ LiveOK(ddir)'
           /\ (\A g \in Live(dir) \cap Live(ddir) : dir.segs[g] = ddir.segs[g])'
<1>1. CASE ddir' = ddir
  BY <1>1 DEF DirectoryInv, LiveOK, Live
<1>2. CASE ddir' = dir
  BY <1>2 DEF DirectoryInv, LiveOK, Live
<1> QED
  BY <1>1, <1>2

LEMMA DirectoryRecover ==
    ASSUME JournaledDirectory, BaseInv, DirectoryInv, Recover
    PROVE  DirectoryInv'
<1>0. step = "none" /\ step' = "none"
  BY DEF Recover, LoadManifest, SweepDirectory, CreateWal, ReplayWal, SyncRecoveredWal,
         BaseInv, TypeInv
<1>1. CASE LoadManifest
  <2>1. LiveOK(dir)' /\ LiveOK(ddir)'
        /\ (\A g \in Live(dir) \cap Live(ddir) : dir.segs[g] = ddir.segs[g])'
    BY <1>1, DirectorySynced DEF LoadManifest, disk
  <2>2. phase' \in Opened =>
           /\ segments' = dir.manifest.segment_files
           /\ manifest' = dir.manifest
    BY <1>1 DEF LoadManifest, Opened
  <2>3. \A i \in DOMAIN dir.manifest.segment_files :
           dir.manifest.segment_files[i] <= dir.manifest.generation
    BY DEF DirectoryInv, LiveOK, Live
  <2> QED
    BY <1>0, <2>1, <2>2, <2>3 DEF DirectoryInv, Preparing
<1>2. CASE SweepDirectory
  <2>1. PICK gone \in SUBSET Orphans(dir), temps \in SUBSET dir.temps :
           dir' = [RemoveFiles(dir, gone) EXCEPT !.temps = temps]
    BY <1>2 DEF SweepDirectory
  <2>2. dir'.manifest = dir.manifest /\ ddir' = ddir
    BY <1>2, <2>1, BaseTypes DEF SweepDirectory, RemoveFiles, Directory
  <2>3. \A g \in Live(dir) : dir'.segs[g] = dir.segs[g]
    <3> TAKE g \in Live(dir)
    <3>1. g \in Generations /\ g \notin gone
      BY BaseTypes DEF Live, Orphans
    <3> QED
      BY <2>1, <3>1, BaseTypes DEF RemoveFiles, Directory
  <2>4. Live(dir') = Live(dir)
    BY <2>2 DEF Live
  <2> QED
    BY <1>0, <1>2, <2>2, <2>3, <2>4
       DEF DirectoryInv, LiveOK, Live, Preparing, SweepDirectory, Opened
<1>3. CASE CreateWal
  <2>1. dir'.manifest = dir.manifest /\ dir'.segs = dir.segs /\ ddir' = ddir
    BY <1>3, BaseTypes DEF CreateWal, Directory
  <2>2. Live(dir') = Live(dir)
    BY <2>1 DEF Live
  <2> QED
    BY <1>0, <1>3, <2>1, <2>2 DEF DirectoryInv, LiveOK, Live, Preparing, CreateWal, Opened
<1>4. CASE ReplayWal \/ SyncRecoveredWal
  <2>1. dir' = dir /\ ddir' \in {ddir, dir} /\ segments' = segments /\ manifest' = manifest
        /\ phase \in Opened
    BY <1>4 DEF ReplayWal, SyncRecoveredWal, SyncWal, Opened
  <2>2. LiveOK(dir)' /\ LiveOK(ddir)'
        /\ (\A g \in Live(dir) \cap Live(ddir) : dir.segs[g] = ddir.segs[g])'
    BY <2>1, DirectorySynced
  <2> QED
    BY <1>0, <2>1, <2>2 DEF DirectoryInv, Preparing
<1> QED
  BY <1>1, <1>2, <1>3, <1>4 DEF Recover

LEMMA DirectoryPut ==
    ASSUME JournaledDirectory, BaseInv, DirectoryInv,
           (\E k \in Keys : PutBegin(k)) \/ PutWrite \/ PutSync \/ Sync
    PROVE  DirectoryInv'
<1>1. dir' = dir /\ ddir' \in {ddir, dir} /\ segments' = segments /\ manifest' = manifest
      /\ phase' = phase
  BY DEF PutBegin, PutWrite, PutSync, Sync, SyncWal, engine
<1>2. step' \in {"append", "append_sync", "none"}
  BY DEF PutBegin, PutWrite, PutSync, Sync, engine, Idle
<1>3. LiveOK(dir)' /\ LiveOK(ddir)'
      /\ (\A g \in Live(dir) \cap Live(ddir) : dir.segs[g] = ddir.segs[g])'
  BY <1>1, DirectorySynced
<1> QED
  BY <1>1, <1>2, <1>3 DEF DirectoryInv, Preparing

LEMMA DirectoryBegin ==
    ASSUME JournaledDirectory, BaseInv, DirectoryInv, FlushBegin \/ CompactBegin
    PROVE  DirectoryInv'
<1>0. /\ dir'.manifest = dir.manifest /\ dir'.segs = dir.segs /\ ddir' = ddir
      /\ segments' = segments /\ manifest' = manifest /\ phase' = phase /\ memtable' = memtable
      /\ step' = "segment"
  BY BaseTypes DEF FlushBegin, CompactBegin, WriteTemporary, Directory
<1>1. LiveOK(dir)' /\ LiveOK(ddir)'
      /\ (\A g \in Live(dir) \cap Live(ddir) : dir.segs[g] = ddir.segs[g])'
  BY <1>0 DEF DirectoryInv, LiveOK, Live
<1>2. manifest = dir.manifest /\ segments = dir.manifest.segment_files /\ phase = "ready"
  BY DEF FlushBegin, CompactBegin, Idle, BaseInv, MemoryInv, Opened
<1>3. NextGeneration \in Generations
  BY BaseTypes, BoundsAreNat DEF FlushBegin, CompactBegin, NextGeneration, Generations
<1>4. CASE FlushBegin
  <2>1. kind' = "flush" /\ next' = FlushManifest /\ memtable # NoFile
    BY <1>4 DEF FlushBegin, WriteTemporary, NoFile
  <2> QED
    BY <1>0, <1>1, <1>3, <2>1 DEF DirectoryInv, Preparing, NewSegment, FlushManifest
<1>5. CASE CompactBegin
  <2>1. kind' = "compact" /\ next' = CompactManifest /\ Len(segments) > 1
    BY <1>5 DEF CompactBegin, WriteTemporary
  <2>2. 1 \in DOMAIN segments
    BY <2>1, BaseTypes
  <2>3. dir.segs[segments[1]] # NoFile
    BY <1>2, <2>2 DEF DirectoryInv, LiveOK, Live
  <2>4. Compacted # NoFile
    BY <2>2, <2>3, BaseTypes, MergeNotEmpty DEF Compacted
  <2>5. Compacted' = Compacted
    BY <1>0 DEF Compacted, SegmentsView
  <2> QED
    BY <1>0, <1>1, <1>3, <2>1, <2>4, <2>5
       DEF DirectoryInv, Preparing, NewSegment, CompactManifest
<1> QED
  BY <1>4, <1>5

\* The generation in preparation is used by no live segment.
LEMMA FreshGeneration ==
    ASSUME BaseInv, DirectoryInv, step \in Preparing \ {"manifest_sync"}
    PROVE  /\ next.generation \notin Live(dir)
           /\ next.generation \notin Live(ddir)
           /\ \A i \in DOMAIN segments : segments[i] # next.generation
<1>1. phase = "ready" /\ manifest = dir.manifest
  BY DEF BaseInv, TypeInv, MemoryInv, Opened, Preparing
<1>2. next.generation = dir.manifest.generation + 1
  BY <1>1 DEF BaseInv, GenerationInv
<1>3. ddir.manifest.generation <= dir.manifest.generation
  BY BaseTypes DEF BaseInv, GenerationInv
<1>4. \A g \in Live(dir) : g \in Nat /\ g <= dir.manifest.generation
  BY BaseTypes DEF DirectoryInv, LiveOK, Live
<1>5. \A g \in Live(ddir) : g \in Nat /\ g <= ddir.manifest.generation
  BY BaseTypes DEF DirectoryInv, LiveOK, Live
<1>6. \A i \in DOMAIN segments : segments[i] \in Nat /\ segments[i] <= dir.manifest.generation
  BY <1>1, BaseTypes DEF DirectoryInv, Opened
<1> QED
  BY <1>2, <1>3, <1>4, <1>5, <1>6, BaseTypes

LEMMA DirectoryPublishSegment ==
    ASSUME JournaledDirectory, BaseInv, DirectoryInv, PublishSegment
    PROVE  DirectoryInv'
<1>1. step = "segment" /\ step' = "segment_sync" /\ phase = "ready"
  BY DEF PublishSegment
<1>2. /\ dir'.manifest = dir.manifest /\ ddir' = ddir /\ segments' = segments
      /\ manifest' = manifest /\ phase' = phase /\ memtable' = memtable
      /\ kind' = kind /\ next' = next
  BY BaseTypes DEF PublishSegment, Directory
<1>3. /\ next.generation \notin Live(dir)
      /\ \A i \in DOMAIN segments : segments[i] # next.generation
  BY <1>1, FreshGeneration DEF Preparing
<1>4. next.generation \in Generations
  BY <1>1 DEF DirectoryInv, Preparing
<1>5. dir'.segs = [dir.segs EXCEPT ![next.generation] = NewSegment]
  BY BaseTypes DEF PublishSegment, NewSegment, Directory
<1>6. dir'.segs[next.generation] = NewSegment
  BY <1>4, <1>5, BaseTypes DEF SegmentMap
<1>7. \A g \in Live(dir) : dir'.segs[g] = dir.segs[g]
  BY <1>3, <1>5
<1>8. Compacted' = Compacted
  <2>1. \A i \in DOMAIN segments : dir'.segs[segments[i]] = dir.segs[segments[i]]
    BY <1>3, <1>5
  <2>2. \A k \in Keys : SegmentGet(segments, dir'.segs, k) = SegmentGet(segments, dir.segs, k)
    BY <2>1, BaseTypes, SegmentGetSame
  <2> QED
    BY <1>2, <2>2 DEF Compacted, SegmentsView
<1>9. NewSegment' = NewSegment
  BY <1>2, <1>8 DEF NewSegment
<1>10. Live(dir') = Live(dir)
  BY <1>2 DEF Live
<1>11. LiveOK(dir)' /\ LiveOK(ddir)'
      /\ (\A g \in Live(dir) \cap Live(ddir) : dir.segs[g] = ddir.segs[g])'
  BY <1>2, <1>7, <1>10 DEF DirectoryInv, LiveOK, Live
<1> QED
  BY <1>1, <1>2, <1>6, <1>9, <1>11 DEF DirectoryInv, Preparing

LEMMA DirectorySyncSegment ==
    ASSUME JournaledDirectory, BaseInv, DirectoryInv, SyncSegment
    PROVE  DirectoryInv'
<1>1. /\ step = "segment_sync" /\ step' = "manifest" /\ dir' = dir /\ ddir' = dir
      /\ segments' = segments /\ manifest' = manifest /\ phase' = phase
      /\ memtable' = memtable /\ kind' = kind /\ next' = next
  BY DEF SyncSegment, SyncDirectory
<1>2. LiveOK(dir)' /\ LiveOK(ddir)'
      /\ (\A g \in Live(dir) \cap Live(ddir) : dir.segs[g] = ddir.segs[g])'
  BY <1>1, DirectorySynced
<1>3. NewSegment' = NewSegment
  BY <1>1 DEF NewSegment, Compacted, SegmentsView
<1> QED
  BY <1>1, <1>2, <1>3 DEF DirectoryInv, Preparing

LEMMA DirectoryPublishManifest ==
    ASSUME JournaledDirectory, BaseInv, DirectoryInv, PublishManifest
    PROVE  DirectoryInv'
<1>1. /\ step = "manifest" /\ step' = "manifest_sync" /\ phase = "ready"
      /\ ddir' = ddir /\ segments' = segments /\ manifest' = manifest /\ phase' = phase
      /\ memtable' = memtable /\ kind' = kind /\ next' = next
  BY DEF PublishManifest
<1>2. dir'.manifest = next /\ dir'.segs = dir.segs
  BY BaseTypes DEF PublishManifest, Directory
<1>3. NewSegment' = NewSegment /\ dir.segs[next.generation] = NewSegment /\ NewSegment # NoFile
  BY <1>1, <1>2 DEF NewSegment, Compacted, SegmentsView, DirectoryInv, Preparing
<1>4. manifest = dir.manifest /\ next.generation = dir.manifest.generation + 1
  BY <1>1 DEF BaseInv, MemoryInv, GenerationInv, Opened, Preparing
<1>5. Live(dir') \subseteq Live(dir) \cup {next.generation}
  <2>1. next.segment_files \in {Append(manifest.segment_files, next.generation),
                                <<next.generation>>}
    BY <1>1 DEF DirectoryInv, Preparing
  <2>2. CASE next.segment_files = Append(manifest.segment_files, next.generation)
    <3> DEFINE files == dir.manifest.segment_files
    <3>1. files \in Seq(Generations) /\ Live(dir) = {files[i] : i \in DOMAIN files}
      BY BaseTypes DEF Live
    <3>2. Live(dir') = {Append(files, next.generation)[i] :
                           i \in DOMAIN Append(files, next.generation)}
      BY <1>2, <1>4, <2>2 DEF Live
    <3> HIDE DEF files
    <3>3. \A i \in DOMAIN Append(files, next.generation) :
             \/ Append(files, next.generation)[i] = next.generation
             \/ i \in DOMAIN files /\ Append(files, next.generation)[i] = files[i]
      BY <3>1
    <3> QED
      BY <3>1, <3>2, <3>3
  <2>3. CASE next.segment_files = <<next.generation>>
    BY <1>2, <2>3 DEF Live
  <2> QED
    BY <2>1, <2>2, <2>3
<1>6. next.generation \notin Live(ddir)
  BY <1>1, FreshGeneration DEF Preparing
<1>7. LiveOK(dir)'
  <2> SUFFICES ASSUME NEW g \in Live(dir')
               PROVE  g <= next.generation /\ dir.segs[g] # NoFile
    BY <1>2 DEF LiveOK
  <2>1. CASE g = next.generation
    BY <1>3, <2>1, BaseTypes
  <2>2. CASE g \in Live(dir)
    <3>1. g \in Nat /\ g <= dir.manifest.generation /\ dir.segs[g] # NoFile
      BY <2>2, BaseTypes DEF DirectoryInv, LiveOK, Live
    <3> QED
      BY <1>4, <3>1, BaseTypes
  <2> QED
    BY <1>5, <2>1, <2>2
<1>8. LiveOK(ddir)' /\ (\A g \in Live(dir) \cap Live(ddir) : dir.segs[g] = ddir.segs[g])'
  <2>1. Live(ddir)' = Live(ddir)
    BY <1>1 DEF Live
  <2>2. \A g \in Live(dir') \cap Live(ddir) : g \in Live(dir)
    BY <1>5, <1>6
  <2> QED
    BY <1>1, <1>2, <2>1, <2>2 DEF DirectoryInv, LiveOK
<1> QED
  BY <1>1, <1>2, <1>3, <1>7, <1>8 DEF DirectoryInv, Preparing

LEMMA DirectoryInstallManifest ==
    ASSUME JournaledDirectory, BaseInv, DirectoryInv, InstallManifest
    PROVE  DirectoryInv'
<1>1. /\ step = "manifest_sync" /\ phase = "ready" /\ dir.manifest = next
      /\ ddir' = dir /\ segments' = next.segment_files /\ manifest' = next
      /\ phase' = phase /\ memtable' = memtable
      /\ segments = manifest.segment_files
  BY DEF InstallManifest, SyncDirectory, BaseInv, MemoryInv, Opened
<1>2. \A i \in DOMAIN segments' : segments'[i] <= manifest'.generation
  BY <1>1 DEF DirectoryInv, LiveOK, Live
<1>3. CASE kind = "flush"
  <2>1. dir' = dir /\ step' = "truncate"
    BY <1>3 DEF InstallManifest
  <2>2. LiveOK(dir)' /\ LiveOK(ddir)'
        /\ (\A g \in Live(dir) \cap Live(ddir) : dir.segs[g] = ddir.segs[g])'
    BY <1>1, <2>1, DirectorySynced
  <2>3. /\ segments' = Append(manifest.segment_files, next.generation)
        /\ next.generation \in Generations
        /\ dir.segs[next.generation] = memtable
    BY <1>1, <1>3 DEF DirectoryInv, Preparing, NewSegment
  <2>4. ASSUME NEW k \in Keys, memtable[k] # NoSample
        PROVE  SegmentGet(segments', dir.segs, k) = memtable[k]
    <3>1. manifest.segment_files \in Seq(Generations)
      BY <1>1, BaseTypes
    <3>2. SegmentGet(Append(manifest.segment_files, next.generation), dir.segs, k) =
             IF dir.segs[next.generation][k] # NoSample THEN dir.segs[next.generation][k]
             ELSE SegmentGet(manifest.segment_files, dir.segs, k)
      BY <2>3, <3>1, SegmentGetAppend
    <3> QED
      BY <2>3, <2>4, <3>2
  <2> QED
    BY <1>1, <1>2, <2>1, <2>2, <2>4 DEF DirectoryInv, Preparing
<1>4. CASE kind = "compact"
  <2>1. PICK gone \in SUBSET {segments[i] : i \in DOMAIN segments} :
           dir' = RemoveFiles(dir, gone)
    BY <1>4 DEF InstallManifest
  <2>2. step' = "none"
    BY <1>4 DEF InstallManifest, EndMutation
  <2>3. Live(dir) = {next.generation} /\ next.generation \in Generations
    BY <1>1, <1>4 DEF DirectoryInv, Preparing, Live
  <2>4. dir'.manifest = dir.manifest /\ Live(dir') = Live(dir)
    BY <2>1, BaseTypes DEF RemoveFiles, Directory, Live
  <2>5. next.generation \notin gone
    <3>1. \A i \in DOMAIN segments : segments[i] \in Nat /\ segments[i] <= manifest.generation
      BY <1>1, BaseTypes DEF DirectoryInv, Opened
    <3>2. next.generation = manifest.generation + 1
      BY <1>1 DEF BaseInv, GenerationInv, Preparing
    <3> QED
      BY <2>1, <3>1, <3>2, BaseTypes
  <2>6. dir'.segs[next.generation] = dir.segs[next.generation]
    BY <2>1, <2>3, <2>5, BaseTypes DEF RemoveFiles, Directory
  <2>7. LiveOK(dir)' /\ LiveOK(ddir)'
        /\ (\A g \in Live(dir) \cap Live(ddir) : dir.segs[g] = ddir.segs[g])'
    <3>1. Live(ddir') = Live(dir)
      BY <1>1
    <3> QED
      BY <1>1, <2>3, <2>4, <2>6, <3>1 DEF DirectoryInv, LiveOK
  <2> QED
    BY <1>1, <1>2, <2>2, <2>7 DEF DirectoryInv, Preparing
<1>5. kind \in {"flush", "compact"}
  BY <1>1 DEF DirectoryInv, Preparing
<1> QED
  BY <1>3, <1>4, <1>5

LEMMA DirectoryReset ==
    ASSUME JournaledDirectory, BaseInv, DirectoryInv, TruncateWal \/ ResetWal
    PROVE  DirectoryInv'
<1>1. /\ dir' = dir /\ ddir' \in {ddir, dir} /\ segments' = segments /\ manifest' = manifest
      /\ phase' = phase
  BY DEF TruncateWal, ResetWal, SyncWal
<1>2. LiveOK(dir)' /\ LiveOK(ddir)'
      /\ (\A g \in Live(dir) \cap Live(ddir) : dir.segs[g] = ddir.segs[g])'
  BY <1>1, DirectorySynced
<1>3. CASE TruncateWal
  BY <1>1, <1>2, <1>3 DEF DirectoryInv, Preparing, TruncateWal
<1>4. CASE ResetWal
  BY <1>1, <1>2, <1>4 DEF DirectoryInv, Preparing, ResetWal, EndMutation
<1> QED
  BY <1>3, <1>4

LEMMA DirectoryStop ==
    ASSUME JournaledDirectory, BaseInv, DirectoryInv,
           Fail \/ Stop \/ PowerLoss \/ WriteBack \/ UNCHANGED vars
    PROVE  DirectoryInv'
<1>1. CASE Fail
  <2>1. dir' = dir /\ ddir' = ddir /\ step' = "none" /\ phase' = "failed"
    BY <1>1 DEF Fail, EndMutation, disk
  <2> QED
    BY <2>1, DirectorySynced DEF DirectoryInv, Preparing, Opened
<1>2. CASE Stop
  <2>1. dir' = dir /\ ddir' = ddir /\ step' = "none" /\ phase' = "closed"
    BY <1>2 DEF Stop, LoseMemory, EndMutation, disk
  <2> QED
    BY <2>1, DirectorySynced DEF DirectoryInv, Preparing, Opened
<1>3. CASE PowerLoss
  <2>1. dir' = ddir /\ ddir' = ddir /\ step' = "none" /\ phase' = "closed"
    BY <1>3 DEF PowerLoss, LoseMemory, EndMutation
  <2>2. Live(dir') = Live(ddir) /\ Live(ddir') = Live(ddir)
    BY <2>1
  <2> QED
    BY <2>1, <2>2 DEF DirectoryInv, LiveOK, Preparing, Opened
<1>4. CASE WriteBack
  <2>1. /\ dir' = dir /\ ddir' \in {ddir, dir} /\ segments' = segments /\ manifest' = manifest
        /\ phase' = phase /\ step' = step /\ memtable' = memtable /\ kind' = kind /\ next' = next
    BY <1>4 DEF WriteBack, WriteBackWal, WriteBackDirectory, engine
  <2>2. LiveOK(dir)' /\ LiveOK(ddir)'
        /\ (\A g \in Live(dir) \cap Live(ddir) : dir.segs[g] = ddir.segs[g])'
    BY <2>1, DirectorySynced
  <2>3. NewSegment' = NewSegment
    BY <2>1 DEF NewSegment, Compacted, SegmentsView
  <2> QED
    BY <2>1, <2>2, <2>3 DEF DirectoryInv
<1>5. CASE UNCHANGED vars
  <2>1. NewSegment' = NewSegment /\ Live(dir)' = Live(dir) /\ Live(ddir)' = Live(ddir)
    BY <1>5 DEF vars, engine, disk, NewSegment, Compacted, SegmentsView, Live
  <2> QED
    BY <1>5, <2>1 DEF vars, engine, disk, DirectoryInv, LiveOK
<1> QED
  BY <1>1, <1>2, <1>3, <1>4, <1>5

LEMMA DirectoryInvariant ==
    ASSUME JournaledDirectory
    PROVE  Spec => []DirectoryInv
<1>1. Init => DirectoryInv
  <2> SUFFICES ASSUME Init PROVE DirectoryInv
    OBVIOUS
  <2>1. Live(dir) = {} /\ Live(ddir) = {} /\ step = "none" /\ phase = "closed"
    BY DEF Init, Live, EmptyDirectory, EmptyManifest
  <2> QED
    BY <2>1 DEF DirectoryInv, LiveOK, Preparing, Opened
<1>2. BaseInv /\ DirectoryInv /\ [Next]_vars => DirectoryInv'
  <2> SUFFICES ASSUME BaseInv, DirectoryInv, [Next]_vars PROVE DirectoryInv'
    OBVIOUS
  <2>1. CASE Recover
    BY <2>1, DirectoryRecover
  <2>2. CASE (\E k \in Keys : PutBegin(k)) \/ PutWrite \/ PutSync \/ Sync
    BY <2>2, DirectoryPut
  <2>3. CASE FlushBegin \/ CompactBegin
    BY <2>3, DirectoryBegin
  <2>4. CASE PublishSegment
    BY <2>4, DirectoryPublishSegment
  <2>5. CASE SyncSegment
    BY <2>5, DirectorySyncSegment
  <2>6. CASE PublishManifest
    BY <2>6, DirectoryPublishManifest
  <2>7. CASE InstallManifest
    BY <2>7, DirectoryInstallManifest
  <2>8. CASE TruncateWal \/ ResetWal
    BY <2>8, DirectoryReset
  <2>9. CASE Fail \/ Stop \/ PowerLoss \/ WriteBack \/ UNCHANGED vars
    BY <2>9, DirectoryStop
  <2> QED
    BY <2>1, <2>2, <2>3, <2>4, <2>5, <2>6, <2>7, <2>8, <2>9 DEF Next, Mutate
<1> QED
  BY <1>1, <1>2, TypeInvariant, MemoryInvariant, GenerationInvariant, PTL DEF Spec, BaseInv

\* No crash, at any step of flush, compact or recovery, leaves a manifest that
\* names a segment file which does not exist.
THEOREM NoSegmentIsMissing ==
    ASSUME JournaledDirectory
    PROVE  Spec => []NoDanglingSegment
<1>1. DirectoryInv => NoDanglingSegment
  BY DEF DirectoryInv, LiveOK, NoDanglingSegment
<1> QED
  BY <1>1, DirectoryInvariant, PTL

LEMMA JournalStep ==
    ASSUME JournaledDirectory, [Next]_vars
    PROVE  ddir' \in {ddir, dir}
BY DEF Next, Recover, Mutate, LoadManifest, SweepDirectory, CreateWal, ReplayWal,
       SyncRecoveredWal, PutBegin, PutWrite, PutSync, Sync, FlushBegin, CompactBegin,
       WriteTemporary, PublishSegment, SyncSegment, PublishManifest, InstallManifest,
       TruncateWal, ResetWal, Fail, Stop, PowerLoss, WriteBack, WriteBackWal,
       WriteBackDirectory, SyncWal, SyncDirectory, disk, engine, vars

LEMMA LiveStep ==
    ASSUME JournaledDirectory, BaseInv, DirectoryInv, [Next]_vars,
           NEW g \in Live(ddir) \cap Live(dir) \cap Live(dir')
    PROVE  dir'.segs[g] = dir.segs[g]
<1>0. g \in Generations
  BY BaseTypes DEF Live
<1>1. CASE SweepDirectory
  <2>1. PICK gone \in SUBSET Orphans(dir), temps \in SUBSET dir.temps :
           dir' = [RemoveFiles(dir, gone) EXCEPT !.temps = temps]
    BY <1>1 DEF SweepDirectory
  <2> QED
    BY <1>0, <2>1, BaseTypes DEF RemoveFiles, Directory, Orphans
<1>2. CASE PublishSegment
  <2>1. g # next.generation
    BY <1>2, FreshGeneration DEF PublishSegment, Preparing
  <2> QED
    BY <1>2, <2>1, BaseTypes DEF PublishSegment, Directory
<1>3. CASE InstallManifest
  <2>1. /\ step = "manifest_sync" /\ phase = "ready" /\ dir.manifest = next
    BY <1>3 DEF InstallManifest, BaseInv, MemoryInv
  <2>2. CASE kind = "compact"
    <3>1. PICK gone \in SUBSET {segments[i] : i \in DOMAIN segments} :
             dir' = RemoveFiles(dir, gone)
      BY <1>3, <2>2 DEF InstallManifest
    <3>2. g = next.generation
      BY <2>1, <2>2 DEF DirectoryInv, Preparing, Live
    <3>3. \A i \in DOMAIN segments : segments[i] \in Nat /\ segments[i] <= manifest.generation
      BY <2>1, BaseTypes DEF DirectoryInv, Opened
    <3>4. next.generation = manifest.generation + 1
      BY <2>1 DEF BaseInv, GenerationInv, Preparing
    <3>5. g \notin gone
      BY <3>1, <3>2, <3>3, <3>4, BaseTypes
    <3> QED
      BY <1>0, <3>1, <3>5, BaseTypes DEF RemoveFiles, Directory
  <2> QED
    BY <1>3, <2>2 DEF InstallManifest
<1>4. CASE PowerLoss
  BY <1>4 DEF PowerLoss, DirectoryInv
<1>5. CASE FlushBegin \/ CompactBegin \/ PublishManifest \/ CreateWal
  BY <1>5, BaseTypes DEF FlushBegin, CompactBegin, WriteTemporary, PublishManifest, CreateWal,
                         Directory
<1>6. CASE LoadManifest \/ ReplayWal \/ SyncRecoveredWal \/ SyncSegment \/ TruncateWal \/ ResetWal
  BY <1>6 DEF LoadManifest, ReplayWal, SyncRecoveredWal, SyncSegment, TruncateWal, ResetWal, disk
<1>7. CASE (\E k \in Keys : PutBegin(k)) \/ PutWrite \/ PutSync \/ Sync
  BY <1>7 DEF PutBegin, PutWrite, PutSync, Sync
<1>8. CASE Fail \/ Stop \/ WriteBack \/ UNCHANGED vars
  BY <1>8 DEF Fail, Stop, WriteBack, WriteBackWal, WriteBackDirectory, disk, vars
<1> QED
  BY <1>1, <1>2, <1>3, <1>4, <1>5, <1>6, <1>7, <1>8 DEF Next, Recover, Mutate

\* Segment files are immutable: as long as the durable manifest names a segment,
\* neither its durable content nor the one the process sees ever changes, although
\* a number is computed anew after every restart.
THEOREM LiveSegmentsNeverChange ==
    ASSUME JournaledDirectory
    PROVE  Spec => PublishedSegmentsImmutable
<1> DEFINE A == \A g \in Live(ddir) \cap Live(ddir') :
                   /\ ddir'.segs[g] = ddir.segs[g]
                   /\ g \in Live(dir) \cap Live(dir') => dir'.segs[g] = dir.segs[g]
<1>1. BaseInv /\ DirectoryInv /\ [Next]_vars => [A]_vars
  <2> SUFFICES ASSUME BaseInv, DirectoryInv, [Next]_vars,
                      NEW g \in Live(ddir) \cap Live(ddir')
               PROVE  /\ ddir'.segs[g] = ddir.segs[g]
                      /\ g \in Live(dir) \cap Live(dir') => dir'.segs[g] = dir.segs[g]
    OBVIOUS
  <2>1. CASE ddir' = ddir
    BY <2>1, LiveStep
  <2>2. CASE ddir' = dir
    BY <2>2, LiveStep DEF DirectoryInv
  <2> QED
    BY <2>1, <2>2, JournalStep
<1> QED
  BY <1>1, DirectoryInvariant, TypeInvariant, MemoryInvariant, GenerationInvariant, PTL
     DEF Spec, BaseInv, PublishedSegmentsImmutable

-----------------------------------------------------------------------------
(* Refinement of DurableStore.                                             *)

\* What the live segments of d say of k.
Segs(d, k) == SegmentGet(d.manifest.segment_files, d.segs, k)

LEMMA RecoveredIs ==
    ASSUME NEW w, NEW d, NEW k \in Keys
    PROVE  Recovered(w, d)[k] = IF Replay(w.records)[k] # NoSample THEN Replay(w.records)[k]
                                ELSE Segs(d, k)
BY DEF Recovered, Segs

LEMMA StoreTypes ==
    ASSUME BaseInv
    PROVE  /\ wal \in Log /\ dwal \in Log
           /\ Replay(wal.records) \in Samples /\ Replay(dwal.records) \in Samples
           /\ \A k \in Keys : Segs(dir, k) \in Nat /\ Segs(ddir, k) \in Nat
           /\ \A w \in {wal, dwal}, k \in Keys : Replay(w.records)[k] \in Nat
           /\ \A w \in {wal, dwal}, d \in {dir, ddir}, k \in Keys : Recovered(w, d)[k] \in Nat
           /\ \A k \in Keys : floor[k] \in Nat /\ memtable[k] \in Nat
           /\ nput \in Nat
<1>1. wal \in Log /\ dwal \in Log /\ memtable \in Samples /\ floor \in Samples /\ nput \in Nat
  BY BoundsAreNat DEF BaseInv, TypeInv, TypeOK
<1>2. wal.records \in Seq(Record) /\ dwal.records \in Seq(Record)
  BY <1>1 DEF Log
<1>3. Replay(wal.records) \in Samples /\ Replay(dwal.records) \in Samples
  BY <1>2, ReplayType
<1>4. Puts \cup {NoSample} \subseteq Nat
  BY BoundsAreNat DEF Puts, NoSample
<1>5. \A k \in Keys : Segs(dir, k) \in Nat /\ Segs(ddir, k) \in Nat
  <2> TAKE k \in Keys
  <2>1. Segs(dir, k) \in Puts \cup {NoSample}
    BY BaseTypes, SegmentGetType DEF Segs
  <2>2. Segs(ddir, k) \in Puts \cup {NoSample}
    BY BaseTypes, SegmentGetType DEF Segs
  <2> QED
    BY <1>4, <2>1, <2>2
<1>6. \A s \in Samples, k \in Keys : s[k] \in Nat
  BY <1>4 DEF Samples
<1>7. \A w \in {wal, dwal}, k \in Keys : Replay(w.records)[k] \in Nat
  BY <1>3, <1>6
<1>8. \A w \in {wal, dwal}, d \in {dir, ddir}, k \in Keys : Recovered(w, d)[k] \in Nat
  BY <1>5, <1>7, RecoveredIs
<1> QED
  BY <1>1, <1>3, <1>5, <1>6, <1>7, <1>8

\* The part of StoreInv that speaks of the four combinations.
Pairs ==
    \A w \in {wal, dwal}, d \in {dir, ddir}, k \in Keys :
        /\ floor[k] <= Recovered(w, d)[k]
        /\ Recovered(w, d)[k] <= Recovered(wal, dir)[k]

\* A step that only moves contents between the two logs and the two directories,
\* and does not change what the process would recover, preserves the combinations.
LEMMA PairsKept ==
    ASSUME BaseInv, StoreInv, floor' = floor,
           wal'.records = wal.records,
           dwal'.records \in {wal.records, dwal.records},
           \A k \in Keys : Segs(dir', k) = Segs(dir, k),
           \A k \in Keys : Segs(ddir', k) \in {Segs(dir, k), Segs(ddir, k)}
    PROVE  /\ Pairs'
           /\ \A k \in Keys : Recovered(wal', dir')[k] = Recovered(wal, dir)[k]
<1>1. \A k \in Keys : Recovered(wal', dir')[k] = Recovered(wal, dir)[k]
  BY RecoveredIs
<1>2. ASSUME NEW w \in {wal', dwal'}, NEW d \in {dir', ddir'}, NEW k \in Keys
      PROVE  \E w0 \in {wal, dwal}, d0 \in {dir, ddir} :
                Recovered(w, d)[k] = Recovered(w0, d0)[k]
  <2>1. PICK w0 \in {wal, dwal} : w.records = w0.records
    BY <1>2
  <2>2. PICK d0 \in {dir, ddir} : Segs(d, k) = Segs(d0, k)
    BY <1>2
  <2>3. Recovered(w, d)[k] = Recovered(w0, d0)[k]
    BY <2>1, <2>2, RecoveredIs
  <2> QED
    BY <2>1, <2>2, <2>3
<1>3. ASSUME NEW w \in {wal', dwal'}, NEW d \in {dir', ddir'}, NEW k \in Keys
      PROVE  floor[k] <= Recovered(w, d)[k] /\ Recovered(w, d)[k] <= Recovered(wal, dir)[k]
  <2>1. PICK w0 \in {wal, dwal}, d0 \in {dir, ddir} : Recovered(w, d)[k] = Recovered(w0, d0)[k]
    BY <1>2
  <2>2. floor[k] <= Recovered(w0, d0)[k] /\ Recovered(w0, d0)[k] <= Recovered(wal, dir)[k]
    BY DEF StoreInv
  <2> QED
    BY <2>1, <2>2
<1> QED
  BY <1>1, <1>3 DEF Pairs

\* Steps that the store does not notice.
LEMMA NeutralStep ==
    ASSUME BaseInv, StoreInv, floor' = floor, nput' = nput,
           step' = "append" => step = "append" /\ wal' = wal,
           wal'.records = wal.records,
           dwal'.records \in {wal.records, dwal.records},
           ddir' \in {ddir, dir},
           dir.wal => dir'.wal,
           ~dir'.wal => dir'.manifest.segment_files = dir.manifest.segment_files,
           \A k \in Keys : Segs(dir', k) = Segs(dir, k)
    PROVE  /\ StoreInv'
           /\ \A k \in Keys : Recovered(wal', dir')[k] = Recovered(wal, dir)[k]
<1>1. \A k \in Keys : Segs(ddir', k) \in {Segs(dir, k), Segs(ddir, k)}
  OBVIOUS
<1>2. Pairs' /\ \A k \in Keys : Recovered(wal', dir')[k] = Recovered(wal, dir)[k]
  BY <1>1, PairsKept
<1>3. ddir'.wal => dir'.wal
  BY DEF StoreInv
<1>4. ~dir'.wal => dir'.manifest.segment_files = <<>>
  BY DEF StoreInv
<1>5. ~ddir'.wal => ddir'.manifest.segment_files = <<>> /\ floor' = NoSamples
  BY DEF StoreInv
<1>6. \A k \in Keys : Recovered(wal', dir')[k] <= nput'
  BY <1>2 DEF StoreInv
<1>7. step' = "append" =>
        /\ wal'.tail[1].value = nput'
        /\ \A k \in Keys : Recovered(wal', dir')[k] < nput'
  BY <1>2 DEF StoreInv
<1> QED
  BY <1>2, <1>3, <1>4, <1>5, <1>6, <1>7 DEF StoreInv, Pairs

\* What a step of the engine does to the store that a restart would recover.
Visible == \A k \in Keys : Recovered(wal', dir')[k] = Recovered(wal, dir)[k]

LEMMA StoreRecover ==
    ASSUME JournaledDirectory, BaseInv, DirectoryInv, StoreInv, Recover
    PROVE  StoreInv' /\ Visible /\ floor' = floor
<1>0. floor' = floor /\ nput' = nput /\ step' = "none"
  BY DEF Recover, LoadManifest, SweepDirectory, CreateWal, ReplayWal, SyncRecoveredWal,
         BaseInv, TypeInv
<1>1. CASE LoadManifest
  BY <1>0, <1>1, NeutralStep DEF LoadManifest, disk, Visible
<1>2. CASE SweepDirectory
  <2>1. PICK gone \in SUBSET Orphans(dir), temps \in SUBSET dir.temps :
           dir' = [RemoveFiles(dir, gone) EXCEPT !.temps = temps]
    BY <1>2 DEF SweepDirectory
  <2>2. dir'.manifest = dir.manifest /\ dir'.wal = dir.wal
    BY <2>1, BaseTypes DEF RemoveFiles, Directory
  <2>3. \A i \in DOMAIN dir.manifest.segment_files :
           dir'.segs[dir.manifest.segment_files[i]] = dir.segs[dir.manifest.segment_files[i]]
    <3> TAKE i \in DOMAIN dir.manifest.segment_files
    <3>1. dir.manifest.segment_files[i] \in Generations
      BY BaseTypes
    <3>2. dir.manifest.segment_files[i] \notin gone
      BY DEF Orphans, Live
    <3> QED
      BY <2>1, <3>1, <3>2, BaseTypes DEF RemoveFiles, Directory
  <2>4. \A k \in Keys : Segs(dir', k) = Segs(dir, k)
    <3> TAKE k \in Keys
    <3>1. SegmentGet(dir.manifest.segment_files, dir'.segs, k) =
             SegmentGet(dir.manifest.segment_files, dir.segs, k)
      BY <2>3, BaseTypes, SegmentGetSame
    <3> QED
      BY <2>2, <3>1 DEF Segs
  <2>5. wal' = wal /\ dwal' = dwal /\ ddir' = ddir
    BY <1>2 DEF SweepDirectory
  <2> QED
    BY <1>0, <2>2, <2>4, <2>5, NeutralStep DEF Visible
<1>3. CASE CreateWal
  <2>1. /\ dir'.manifest = dir.manifest /\ dir'.segs = dir.segs /\ dir'.wal
        /\ wal' = wal /\ dwal' = dwal /\ ddir' = ddir
    BY <1>3, BaseTypes DEF CreateWal, Directory
  <2>2. \A k \in Keys : Segs(dir', k) = Segs(dir, k)
    BY <2>1 DEF Segs
  <2> QED
    BY <1>0, <2>1, <2>2, NeutralStep DEF Visible
<1>4. CASE ReplayWal
  <2>1. wal'.records = wal.records /\ dwal' = dwal /\ dir' = dir /\ ddir' = ddir
    BY <1>4, StoreTypes DEF ReplayWal, Log
  <2> QED
    BY <1>0, <2>1, NeutralStep DEF Visible
<1>5. CASE SyncRecoveredWal
  <2>1. wal' = wal /\ dwal' = wal /\ dir' = dir /\ ddir' \in {ddir, dir}
    BY <1>5 DEF SyncRecoveredWal, SyncWal
  <2> QED
    BY <1>0, <2>1, NeutralStep DEF Visible
<1> QED
  BY <1>1, <1>2, <1>3, <1>4, <1>5 DEF Recover

\* What an idle engine shows, and a flush about to return, is what a restart recovers.
LEMMA ViewIs ==
    ASSUME BaseInv, Idle, NEW k \in Keys
    PROVE  View[k] = Recovered(wal, dir)[k]
<1>1. memtable = Replay(wal.records) /\ segments = dir.manifest.segment_files
  BY DEF BaseInv, MemoryInv, Idle, Opened
<1> QED
  BY <1>1 DEF View, Get, Recovered

LEMMA StoreSync ==
    ASSUME JournaledDirectory, BaseInv, StoreInv, Sync
    PROVE  /\ StoreInv' /\ Visible
           /\ \A k \in Keys : floor[k] <= floor'[k] /\ floor'[k] <= Recovered(wal, dir)[k]
<1>1. /\ Idle /\ wal' = wal /\ dwal' = wal /\ dir' = dir /\ ddir' = dir
      /\ nput' = nput /\ step' = "none" /\ floor' = View
  BY DEF Sync, SyncWal, engine, Idle
<1>2. \A k \in Keys : floor'[k] = Recovered(wal, dir)[k]
  BY <1>1, ViewIs
<1>3. dir.wal
  BY <1>1 DEF Idle, BaseInv, MemoryInv
<1>4. \A k \in Keys : floor[k] <= Recovered(wal, dir)[k] /\ Recovered(wal, dir)[k] \in Nat
  BY StoreTypes DEF StoreInv
<1>5. Visible
  BY <1>1 DEF Visible
<1>6. \A k \in Keys : Recovered(wal, dir)[k] <= nput
  BY DEF StoreInv
<1>7. StoreInv'
  BY <1>1, <1>2, <1>3, <1>4, <1>6 DEF StoreInv
<1> QED
  BY <1>2, <1>4, <1>5, <1>7

LEMMA StorePutBegin ==
    ASSUME BaseInv, StoreInv, NEW j \in Keys, PutBegin(j)
    PROVE  StoreInv' /\ Visible /\ floor' = floor
<1>1. /\ dwal' = dwal /\ dir' = dir /\ ddir' = ddir /\ floor' = floor
      /\ nput' = nput + 1 /\ nput \in Nat
  BY StoreTypes DEF PutBegin
<1>2. wal'.records = wal.records /\ wal'.tail = <<[key |-> j, value |-> nput + 1]>>
  BY StoreTypes DEF PutBegin, Log
<1>3. Pairs' /\ \A k \in Keys : Recovered(wal', dir')[k] = Recovered(wal, dir)[k]
  BY <1>1, <1>2, PairsKept
<1>4. \A k \in Keys : Recovered(wal', dir')[k] < nput' /\ Recovered(wal', dir')[k] <= nput'
  BY <1>1, <1>3, StoreTypes DEF StoreInv
<1>5. wal'.tail[1].value = nput'
  BY <1>1, <1>2
<1> QED
  BY <1>1, <1>3, <1>4, <1>5 DEF StoreInv, Pairs, Visible

LEMMA StorePutWrite ==
    ASSUME BaseInv, StoreInv, PutWrite
    PROVE  /\ StoreInv' /\ floor' = floor
           /\ \E j \in Keys, v \in Puts :
                 /\ \A k \in Keys : Recovered(wal, dir)[k] < v
                 /\ Recovered(wal', dir') = [Recovered(wal, dir) EXCEPT ![j] = v]
<1> DEFINE r == wal.tail[1]
<1>1. /\ step = "append" /\ dwal' = dwal /\ dir' = dir /\ ddir' = ddir
      /\ floor' = floor /\ nput' = nput /\ nput \in Nat /\ step' # "append"
      /\ wal'.records = Append(wal.records, r)
  BY StoreTypes DEF PutWrite
<1>2. r \in Record /\ wal.records \in Seq(Record)
  BY <1>1 DEF BaseInv, TypeInv, TypeOK, Log
<1>3. r.key \in Keys /\ r.value \in Puts /\ r.value = nput /\ r.value # NoSample
  BY <1>1, <1>2, BoundsAreNat DEF Record, StoreInv, Puts, NoSample
<1>4. Replay(wal'.records) = [Replay(wal.records) EXCEPT ![r.key] = r.value]
  BY <1>1, <1>2, ReplayAppend
<1>5. \A d \in {dir, ddir}, k \in Keys :
         Recovered(wal', d)[k] = IF k = r.key THEN r.value ELSE Recovered(wal, d)[k]
  BY <1>3, <1>4, StoreTypes, RecoveredIs DEF Samples
<1>6. \A k \in Keys : Recovered(wal, dir)[k] < nput /\ Recovered(wal, dir)[k] \in Nat
  BY <1>1, StoreTypes DEF StoreInv
<1>7. Recovered(wal', dir') = [Recovered(wal, dir) EXCEPT ![r.key] = r.value]
  <2>1. /\ Recovered(wal, dir) = [k \in Keys |-> Recovered(wal, dir)[k]]
        /\ Recovered(wal', dir') = [k \in Keys |-> Recovered(wal', dir)[k]]
    BY <1>1 DEF Recovered
  <2> QED
    BY <1>3, <1>5, <2>1
<1>8. Pairs'
  <2> SUFFICES ASSUME NEW w \in {wal', dwal}, NEW d \in {dir, ddir}, NEW k \in Keys
               PROVE  /\ floor[k] <= Recovered(w, d)[k]
                      /\ Recovered(w, d)[k] <= Recovered(wal', dir)[k]
    BY <1>1 DEF Pairs
  <2>1. /\ \A x \in {wal, dwal} : /\ floor[k] <= Recovered(x, d)[k]
                                  /\ Recovered(x, d)[k] <= Recovered(wal, dir)[k]
                                  /\ Recovered(x, d)[k] \in Nat
        /\ Recovered(wal, dir)[k] < nput /\ Recovered(wal, dir)[k] \in Nat
        /\ floor[k] \in Nat
    BY <1>1, StoreTypes DEF StoreInv
  <2>2. CASE k = r.key
    BY <1>1, <1>3, <1>5, <2>1, <2>2
  <2>3. CASE k # r.key
    BY <1>5, <2>1, <2>3
  <2> QED
    BY <2>2, <2>3
<1>9. \A k \in Keys : Recovered(wal', dir')[k] <= nput'
  BY <1>1, <1>3, <1>5, <1>6
<1> QED
  BY <1>1, <1>3, <1>6, <1>7, <1>8, <1>9 DEF StoreInv, Pairs

LEMMA StorePutSync ==
    ASSUME JournaledDirectory, BaseInv, StoreInv, PutSync
    PROVE  /\ StoreInv' /\ Visible
           /\ \A k \in Keys : floor[k] <= floor'[k] /\ floor'[k] <= Recovered(wal, dir)[k]
<1> DEFINE r == LastRecord
<1>1. /\ step = "append_sync" /\ phase = "ready" /\ wal' = wal /\ dwal' = wal /\ dir' = dir
      /\ ddir' = dir /\ nput' = nput /\ step' = "none"
      /\ floor' = [floor EXCEPT ![r.key] = r.value]
  BY DEF PutSync, SyncWal, LastRecord
<1>2. r \in Record
  BY <1>1, StoreTypes DEF LastRecord, BaseInv, TypeInv, Log
<1>3. r.key \in Keys /\ r.value \in Puts /\ r.value # NoSample
  BY <1>2, BoundsAreNat DEF Record, Puts, NoSample
<1>4. Replay(wal.records)[r.key] = r.value
  BY <1>1, <1>3, BaseTypes DEF BaseInv, MemoryInv, Samples
<1>5. Recovered(wal, dir)[r.key] = r.value
  BY <1>3, <1>4, RecoveredIs
<1>6. \A k \in Keys : floor'[k] = IF k = r.key THEN r.value ELSE floor[k]
  BY <1>1, <1>3 DEF BaseInv, TypeInv, TypeOK, Samples
<1>7. \A k \in Keys : /\ floor[k] <= Recovered(wal, dir)[k] /\ Recovered(wal, dir)[k] \in Nat
                      /\ floor[k] \in Nat /\ Recovered(wal, dir)[k] <= nput
  BY StoreTypes DEF StoreInv
<1>8. \A k \in Keys : floor[k] <= floor'[k] /\ floor'[k] <= Recovered(wal, dir)[k]
  BY <1>3, <1>5, <1>6, <1>7
<1>9. dir.wal
  BY <1>1 DEF BaseInv, MemoryInv
<1>10. StoreInv'
  BY <1>1, <1>7, <1>8, <1>9 DEF StoreInv
<1> QED
  BY <1>1, <1>8, <1>10 DEF Visible

LEMMA StorePublishSegment ==
    ASSUME BaseInv, DirectoryInv, StoreInv, PublishSegment
    PROVE  StoreInv' /\ Visible /\ floor' = floor
<1>1. /\ dir'.manifest = dir.manifest /\ dir'.wal = dir.wal /\ wal' = wal /\ dwal' = dwal
      /\ ddir' = ddir /\ floor' = floor /\ nput' = nput /\ step' # "append"
  BY BaseTypes DEF PublishSegment, Directory
<1>2. next.generation \notin Live(dir)
  BY FreshGeneration DEF PublishSegment, Preparing
<1>3. \A i \in DOMAIN dir.manifest.segment_files :
         dir'.segs[dir.manifest.segment_files[i]] = dir.segs[dir.manifest.segment_files[i]]
  BY <1>2, BaseTypes DEF PublishSegment, Directory, Live
<1>4. \A k \in Keys : Segs(dir', k) = Segs(dir, k)
  <2> TAKE k \in Keys
  <2>1. SegmentGet(dir.manifest.segment_files, dir'.segs, k) =
           SegmentGet(dir.manifest.segment_files, dir.segs, k)
    BY <1>3, BaseTypes, SegmentGetSame
  <2> QED
    BY <1>1, <2>1 DEF Segs
<1> QED
  BY <1>1, <1>4, NeutralStep DEF Visible

LEMMA StorePublishManifest ==
    ASSUME BaseInv, DirectoryInv, StoreInv, PublishManifest
    PROVE  StoreInv' /\ Visible /\ floor' = floor
<1>1. /\ step = "manifest" /\ phase = "ready" /\ wal' = wal /\ dwal' = dwal /\ ddir' = ddir
      /\ floor' = floor /\ nput' = nput /\ step' # "append"
  BY DEF PublishManifest
<1>2. dir'.manifest = next /\ dir'.segs = dir.segs /\ dir'.wal = dir.wal /\ dir.wal
  BY <1>1, BaseTypes DEF PublishManifest, Directory, BaseInv, MemoryInv
<1>3. /\ manifest = dir.manifest /\ segments = manifest.segment_files
      /\ memtable = Replay(wal.records)
  BY <1>1 DEF BaseInv, MemoryInv, Opened
<1>4. /\ dir.segs[next.generation] = NewSegment /\ next.generation \in Generations
      /\ kind \in {"flush", "compact"}
  BY <1>1 DEF DirectoryInv, Preparing
<1>5. CASE kind = "compact"
  <2>1. next.segment_files = <<next.generation>>
    BY <1>1, <1>5 DEF DirectoryInv, Preparing
  <2>2. \A k \in Keys : Segs(dir', k) = Segs(dir, k)
    <3> TAKE k \in Keys
    <3>1. Segs(dir', k) = dir.segs[next.generation][k]
      BY <1>2, <1>4, <2>1, SegmentGetSingle DEF Segs
    <3>2. NewSegment[k] = Segs(dir, k)
      BY <1>3, <1>5 DEF NewSegment, Compacted, SegmentsView, Segs
    <3> QED
      BY <1>4, <3>1, <3>2
  <2> QED
    BY <1>1, <1>2, <2>2, NeutralStep DEF Visible
<1>6. CASE kind = "flush"
  <2>1. next.segment_files = Append(dir.manifest.segment_files, next.generation)
    BY <1>1, <1>3, <1>6 DEF DirectoryInv, Preparing
  <2>2. ASSUME NEW k \in Keys PROVE Segs(dir', k) = Recovered(wal, dir)[k]
    <3>1. SegmentGet(Append(dir.manifest.segment_files, next.generation), dir.segs, k) =
             IF dir.segs[next.generation][k] # NoSample THEN dir.segs[next.generation][k]
             ELSE SegmentGet(dir.manifest.segment_files, dir.segs, k)
      BY <1>4, BaseTypes, SegmentGetAppend
    <3>2. dir.segs[next.generation] = Replay(wal.records)
      BY <1>3, <1>4, <1>6 DEF NewSegment
    <3> QED
      BY <1>2, <2>1, <3>1, <3>2, RecoveredIs DEF Segs
  <2>3. ASSUME NEW k \in Keys PROVE Recovered(wal, dir')[k] = Recovered(wal, dir)[k]
    BY <2>2, RecoveredIs
  <2>4. ASSUME NEW k \in Keys
        PROVE  Recovered(dwal, dir')[k] \in {Recovered(dwal, dir)[k], Recovered(wal, dir)[k]}
    BY <2>2, RecoveredIs
  <2>5. Pairs'
    <3> SUFFICES ASSUME NEW w \in {wal, dwal}, NEW d \in {dir', ddir}, NEW k \in Keys
                 PROVE  /\ floor[k] <= Recovered(w, d)[k]
                        /\ Recovered(w, d)[k] <= Recovered(wal, dir)[k]
      BY <1>1, <2>3 DEF Pairs
    <3>1. \A w0 \in {wal, dwal}, d0 \in {dir, ddir} :
             /\ floor[k] <= Recovered(w0, d0)[k]
             /\ Recovered(w0, d0)[k] <= Recovered(wal, dir)[k]
      BY DEF StoreInv
    <3>2. \E w0 \in {wal, dwal}, d0 \in {dir, ddir} :
             Recovered(w, d)[k] = Recovered(w0, d0)[k]
      BY <2>3, <2>4
    <3> QED
      BY <3>1, <3>2
  <2> QED
    BY <1>1, <1>2, <2>3, <2>5 DEF StoreInv, Pairs, Visible
<1> QED
  BY <1>4, <1>5, <1>6

LEMMA StoreInstallManifest ==
    ASSUME BaseInv, DirectoryInv, StoreInv, InstallManifest
    PROVE  StoreInv' /\ Visible /\ floor' = floor
<1>1. /\ step = "manifest_sync" /\ phase = "ready" /\ dir.manifest = next
      /\ ddir' = dir /\ wal' = wal /\ dwal' = dwal /\ floor' = floor /\ nput' = nput
      /\ step' # "append" /\ kind \in {"flush", "compact"}
  BY DEF InstallManifest, SyncDirectory, EndMutation, BaseInv, MemoryInv
<1>2. CASE kind = "flush"
  <2>1. dir' = dir
    BY <1>2 DEF InstallManifest
  <2> QED
    BY <1>1, <2>1, NeutralStep DEF Visible
<1>3. CASE kind = "compact"
  <2>1. PICK gone \in SUBSET {segments[i] : i \in DOMAIN segments} :
           dir' = RemoveFiles(dir, gone)
    BY <1>3 DEF InstallManifest
  <2>2. dir'.manifest = dir.manifest /\ dir'.wal = dir.wal
    BY <2>1, BaseTypes DEF RemoveFiles, Directory
  <2>3. next.segment_files = <<next.generation>> /\ next.generation \in Generations
    BY <1>1, <1>3 DEF DirectoryInv, Preparing
  <2>4. next.generation \notin gone
    <3>1. \A i \in DOMAIN segments : segments[i] \in Nat /\ segments[i] <= manifest.generation
      BY <1>1, BaseTypes DEF DirectoryInv, Opened
    <3>2. next.generation = manifest.generation + 1
      BY <1>1 DEF BaseInv, GenerationInv, Preparing
    <3> QED
      BY <2>1, <3>1, <3>2, BaseTypes
  <2>5. dir'.segs[next.generation] = dir.segs[next.generation]
    BY <2>1, <2>3, <2>4, BaseTypes DEF RemoveFiles, Directory
  <2>6. \A k \in Keys : Segs(dir', k) = Segs(dir, k)
    BY <1>1, <2>2, <2>3, <2>5, SegmentGetSingle DEF Segs
  <2> QED
    BY <1>1, <2>2, <2>6, NeutralStep DEF Visible
<1> QED
  BY <1>1, <1>2, <1>3

\* Once the manifest is published the segments alone say what the log and the
\* segments said together.
LEMMA Flushed ==
    ASSUME BaseInv, DirectoryInv, step \in {"truncate", "truncate_sync"}, NEW k \in Keys
    PROVE  /\ Segs(dir, k) = IF memtable[k] # NoSample THEN memtable[k] ELSE Segs(dir, k)
           /\ View[k] = Segs(dir, k)
           /\ dir.wal
<1>1. phase = "ready" /\ segments = dir.manifest.segment_files /\ dir.wal
  BY DEF BaseInv, TypeInv, MemoryInv, Opened
<1> QED
  BY <1>1 DEF DirectoryInv, Segs, View, Get

LEMMA StoreTruncate ==
    ASSUME BaseInv, DirectoryInv, StoreInv, TruncateWal
    PROVE  StoreInv' /\ Visible /\ floor' = floor
<1>1. /\ step = "truncate" /\ phase = "ready" /\ wal' = EmptyLog /\ dwal' = dwal /\ dir' = dir
      /\ ddir' = ddir /\ ddir = dir /\ floor' = floor /\ nput' = nput /\ step' # "append"
  BY DEF TruncateWal, DirectoryInv
<1>2. memtable = Replay(wal.records)
  BY <1>1 DEF BaseInv, MemoryInv
<1>3. \A k \in Keys : Replay(wal'.records)[k] = NoSample
  BY <1>1, ReplayEmpty DEF EmptyLog, NoSamples
<1>4. \A k \in Keys : Recovered(wal', dir')[k] = Recovered(wal, dir)[k]
  BY <1>1, <1>2, <1>3, Flushed, RecoveredIs
<1>5. Pairs'
  <2> SUFFICES ASSUME NEW w \in {wal', dwal}, NEW k \in Keys
               PROVE  /\ floor[k] <= Recovered(w, dir)[k]
                      /\ Recovered(w, dir)[k] <= Recovered(wal, dir)[k]
    BY <1>1, <1>4 DEF Pairs
  <2>1. \A w0 \in {wal, dwal} : /\ floor[k] <= Recovered(w0, dir)[k]
                                /\ Recovered(w0, dir)[k] <= Recovered(wal, dir)[k]
    BY DEF StoreInv
  <2> QED
    BY <1>1, <1>4, <2>1
<1> QED
  BY <1>1, <1>4, <1>5 DEF StoreInv, Pairs, Visible

LEMMA StoreReset ==
    ASSUME JournaledDirectory, BaseInv, DirectoryInv, StoreInv, ResetWal
    PROVE  /\ StoreInv' /\ Visible
           /\ \A k \in Keys : floor[k] <= floor'[k] /\ floor'[k] <= Recovered(wal, dir)[k]
<1>1. /\ step = "truncate_sync" /\ wal' = wal /\ dwal' = wal /\ dir' = dir /\ ddir' = dir
      /\ nput' = nput /\ step' = "none" /\ floor' = View /\ wal = EmptyLog
  BY DEF ResetWal, SyncWal, EndMutation, BaseInv, MemoryInv
<1>2. \A k \in Keys : Replay(wal.records)[k] = NoSample
  BY <1>1, ReplayEmpty DEF EmptyLog, NoSamples
<1>3. \A k \in Keys : floor'[k] = Recovered(wal, dir)[k]
  BY <1>1, <1>2, Flushed, RecoveredIs
<1>4. dir.wal
  BY <1>1 DEF BaseInv, TypeInv, MemoryInv
<1>5. \A k \in Keys : /\ floor[k] <= Recovered(wal, dir)[k] /\ Recovered(wal, dir)[k] \in Nat
                      /\ Recovered(wal, dir)[k] <= nput
  BY StoreTypes DEF StoreInv
<1>6. StoreInv'
  BY <1>1, <1>3, <1>4, <1>5 DEF StoreInv
<1> QED
  BY <1>1, <1>3, <1>5, <1>6 DEF Visible

LEMMA StorePowerLoss ==
    ASSUME BaseInv, StoreInv, PowerLoss
    PROVE  /\ StoreInv' /\ floor' = floor /\ PowerLossPossible
           /\ \A k \in Keys : /\ floor[k] <= Recovered(wal', dir')[k]
                              /\ Recovered(wal', dir')[k] <= Recovered(wal, dir)[k]
<1>1. /\ wal' = (IF ddir.wal THEN dwal ELSE EmptyLog) /\ dwal' = wal' /\ dir' = ddir /\ ddir' = ddir
      /\ floor' = floor /\ nput' = nput /\ step' = "none" /\ PowerLossPossible
  BY DEF PowerLoss, LoseMemory, EndMutation
<1>2. \A k \in Keys : /\ floor[k] <= Recovered(wal', dir')[k]
                      /\ Recovered(wal', dir')[k] <= Recovered(wal, dir)[k]
                      /\ Recovered(wal', dir')[k] \in Nat
  <2>1. CASE ddir.wal
    BY <1>1, <2>1, StoreTypes DEF StoreInv
  <2>2. CASE ~ddir.wal
    <3> TAKE k \in Keys
    <3>1. floor[k] = 0 /\ ddir.manifest.segment_files = <<>>
      BY <2>2 DEF StoreInv, NoSamples, NoSample
    <3>2. Segs(ddir, k) = NoSample
      BY <3>1, SegmentGetEmpty DEF Segs
    <3>3. Replay(EmptyLog.records)[k] = NoSample
      BY ReplayEmpty DEF EmptyLog, NoSamples
    <3>4. Recovered(wal', dir')[k] = 0
      BY <1>1, <2>2, <3>2, <3>3, RecoveredIs DEF NoSample
    <3>5. Recovered(wal, dir)[k] \in Nat
      BY StoreTypes
    <3> QED
      BY <3>1, <3>4, <3>5
  <2> QED
    BY <2>1, <2>2
<1>3. \A k \in Keys : /\ Recovered(wal, dir)[k] <= nput /\ nput \in Nat
                      /\ Recovered(wal, dir)[k] \in Nat
  BY StoreTypes DEF StoreInv
<1>4. \A k \in Keys : Recovered(wal', dir')[k] <= nput'
  BY <1>1, <1>2, <1>3
<1>5. StoreInv'
  BY <1>1, <1>2, <1>4 DEF StoreInv
<1> QED
  BY <1>1, <1>2, <1>5

LEMMA StoreOther ==
    ASSUME JournaledDirectory, BaseInv, StoreInv,
           FlushBegin \/ CompactBegin \/ SyncSegment \/ Fail \/ Stop \/ WriteBack \/ UNCHANGED vars
    PROVE  StoreInv' /\ Visible /\ floor' = floor
<1>1. CASE FlushBegin \/ CompactBegin
  <2>1. /\ dir'.manifest = dir.manifest /\ dir'.segs = dir.segs /\ dir'.wal = dir.wal
        /\ wal' = wal /\ dwal' = dwal /\ ddir' = ddir /\ floor' = floor /\ nput' = nput
        /\ step' = "segment"
    BY <1>1, BaseTypes DEF FlushBegin, CompactBegin, WriteTemporary, Directory
  <2>2. \A k \in Keys : Segs(dir', k) = Segs(dir, k)
    BY <2>1 DEF Segs
  <2> QED
    BY <2>1, <2>2, NeutralStep DEF Visible
<1>2. CASE SyncSegment
  BY <1>2, NeutralStep DEF SyncSegment, SyncDirectory, Visible
<1>3. CASE Fail \/ Stop
  BY <1>3, NeutralStep DEF Fail, Stop, LoseMemory, EndMutation, disk, Visible
<1>4. CASE WriteBack
  <2>1. /\ wal' = wal /\ dwal' \in {dwal, wal} /\ dir' = dir /\ ddir' \in {ddir, dir}
        /\ floor' = floor /\ nput' = nput /\ step' = step
    BY <1>4 DEF WriteBack, WriteBackWal, WriteBackDirectory, engine
  <2> QED
    BY <2>1, NeutralStep DEF Visible
<1>5. CASE UNCHANGED vars
  BY <1>5, NeutralStep DEF vars, engine, disk, Visible
<1> QED
  BY <1>1, <1>2, <1>3, <1>4, <1>5

-----------------------------------------------------------------------------
(* Every step of the engine is a step of the store, or none.               *)

LEMMA StoreInit == Init => StoreInv /\ Store!Init
<1> SUFFICES ASSUME Init PROVE StoreInv /\ Store!Init
  OBVIOUS
<1>1. /\ wal = EmptyLog /\ dwal = EmptyLog /\ dir = EmptyDirectory /\ ddir = EmptyDirectory
      /\ floor = NoSamples /\ nput = 0 /\ step = "none"
  BY DEF Init
<1>2. EmptyDirectory.manifest.segment_files = <<>>
  BY DEF EmptyDirectory, EmptyManifest
<1>3. \A k \in Keys : Recovered(EmptyLog, EmptyDirectory)[k] = 0
  <2> TAKE k \in Keys
  <2>1. Segs(EmptyDirectory, k) = NoSample
    BY <1>2, SegmentGetEmpty DEF Segs
  <2>2. Replay(EmptyLog.records)[k] = NoSample
    BY ReplayEmpty DEF EmptyLog, NoSamples
  <2> QED
    BY <2>1, <2>2, RecoveredIs DEF NoSample
<1>4. Recovered(EmptyLog, EmptyDirectory) = [k \in Keys |-> 0]
  BY <1>3 DEF Recovered
<1>5. StoreInv
  BY <1>1, <1>2, <1>3 DEF StoreInv, NoSamples, NoSample
<1>6. Store!Init
  BY <1>1, <1>4 DEF Store!Init, NoSamples, NoSample
<1> QED
  BY <1>5, <1>6

LEMMA StoreStep ==
    ASSUME JournaledDirectory, BaseInv, DirectoryInv, StoreInv, [Next]_vars
    PROVE  StoreInv' /\ [Store!Next]_<<Recovered(wal, dir), floor>>
<1> DEFINE Kept == \A k \in Keys : /\ floor[k] <= floor'[k]
                                   /\ floor'[k] <= Recovered(wal, dir)[k]
<1>1. ASSUME Visible PROVE Recovered(wal', dir') = Recovered(wal, dir)
  BY <1>1 DEF Visible, Recovered
<1>2. ASSUME Visible, floor' = floor
      PROVE  [Store!Next]_<<Recovered(wal, dir), floor>>
  BY <1>1, <1>2
<1>3. ASSUME Visible, Kept PROVE Store!Next
  BY <1>1, <1>3 DEF Store!Next, Store!Promise
<1>4. CASE Recover
  BY <1>2, <1>4, StoreRecover
<1>5. CASE \E k \in Keys : PutBegin(k)
  BY <1>2, <1>5, StorePutBegin
<1>6. CASE PutWrite
  <2>1. /\ StoreInv' /\ floor' = floor
        /\ \E j \in Keys, v \in Puts :
              /\ \A k \in Keys : Recovered(wal, dir)[k] < v
              /\ Recovered(wal', dir') = [Recovered(wal, dir) EXCEPT ![j] = v]
    BY <1>6, StorePutWrite
  <2> QED
    BY <2>1 DEF Store!Next, Store!Write
<1>7. CASE PutSync
  BY <1>3, <1>7, StorePutSync
<1>8. CASE Sync
  BY <1>3, <1>8, StoreSync
<1>9. CASE PublishSegment
  BY <1>2, <1>9, StorePublishSegment
<1>10. CASE PublishManifest
  BY <1>2, <1>10, StorePublishManifest
<1>11. CASE InstallManifest
  BY <1>2, <1>11, StoreInstallManifest
<1>12. CASE TruncateWal
  BY <1>2, <1>12, StoreTruncate
<1>13. CASE ResetWal
  BY <1>3, <1>13, StoreReset
<1>14. CASE PowerLoss
  BY <1>14, StorePowerLoss DEF Store!Next, Store!Lose
<1>15. CASE FlushBegin \/ CompactBegin \/ SyncSegment \/ Fail \/ Stop \/ WriteBack
             \/ UNCHANGED vars
  BY <1>2, <1>15, StoreOther
<1> QED
  BY <1>4, <1>5, <1>6, <1>7, <1>8, <1>9, <1>10, <1>11, <1>12, <1>13, <1>14, <1>15
     DEF Next, Mutate

LEMMA StoreInvariant ==
    ASSUME JournaledDirectory
    PROVE  Spec => [](BaseInv /\ DirectoryInv /\ StoreInv)
<1>1. BaseInv /\ DirectoryInv /\ StoreInv /\ [Next]_vars => StoreInv'
  BY StoreStep
<1> QED
  BY <1>1, StoreInit, DirectoryInvariant, TypeInvariant, MemoryInvariant, GenerationInvariant,
     PTL DEF Spec, BaseInv

\* Durability: what a put with sync_on_append, a sync or a flush promised is there
\* whenever the engine is open, after any number of process crashes, power losses
\* and failed operations, and at whatever step they struck.
THEOREM PromisesAreKept ==
    ASSUME JournaledDirectory
    PROVE  Spec => []PromisesKept
<1>1. BaseInv /\ StoreInv => PromisesKept
  <2> SUFFICES ASSUME BaseInv, StoreInv, Idle, NEW k \in Keys PROVE Get(k) >= floor[k]
    BY DEF PromisesKept
  <2>1. Get(k) = Recovered(wal, dir)[k]
    BY ViewIs DEF View
  <2>2. floor[k] <= Recovered(wal, dir)[k] /\ floor[k] \in Nat /\ Recovered(wal, dir)[k] \in Nat
    BY StoreTypes DEF StoreInv
  <2> QED
    BY <2>1, <2>2
<1> QED
  BY <1>1, StoreInvariant, PTL

\* Refinement: the engine, with its log, segments, manifest, flush, compaction,
\* crashes and recovery, implements the store that changes by single writes.
THEOREM EngineImplementsStore ==
    ASSUME JournaledDirectory
    PROVE  Spec => ImplementsStore
<1>1. BaseInv /\ DirectoryInv /\ StoreInv /\ [Next]_vars
        => [Store!Next]_<<Recovered(wal, dir), floor>>
  BY StoreStep
<1> QED
  BY <1>1, StoreInit, StoreInvariant, PTL DEF Spec, ImplementsStore, Store!Spec

=============================================================================
