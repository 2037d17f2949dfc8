----------------------------- MODULE SegmentReads -----------------------------
(***************************************************************************)
(* The read path: how samples are cut into blocks and indexed when they are *)
(* flushed or compacted, and how get, latest, range and series find them    *)
(* again in the memtable and the segments (src/src/segment_file.cpp,        *)
(* memtable.cpp, storage_engine.cpp), also when the medium has damaged a    *)
(* segment.  StorageEngine takes a segment for a map from keys to values;   *)
(* this module opens the box.                                              *)
(*                                                                         *)
(* The bytes of a block or an index are abstracted to what decoding them    *)
(* gives, or Garbage where a checksum fails, and to their sizes.  Crashes,  *)
(* failures of a file operation, the log with its own limit, and the counts *)
(* are StorageEngine's and Codec's subject: here a mutation is one step.    *)
(***************************************************************************)
EXTENDS Lists, Sequences, SequencesExt

CONSTANTS
    Series,           \* the series keys whose records the log accepts, numbered in order
    KeySize,          \* the size of every series key
    Times,            \* the timestamps that are written
    QueryTimes,       \* the timestamps that are asked for
    MaxSamples,       \* max_samples_per_segment_block (256)
    MaxBlocks,        \* max_segment_block_count (1,000,000)
    MaxBlockPayload,  \* max_segment_block_payload_size (16 MiB)
    MaxIndexPayload,  \* max_index_payload_size (64 MiB)
    MaxPuts,          \* bound: number of puts; the n-th writes value n
    MaxSegments,      \* bound: number of live segments
    MaxDamage         \* bound: faults of the medium

ASSUME ReadBounds ==
    /\ Series \subseteq Nat \ {0} /\ IsFiniteSet(Series)
    /\ KeySize \in [Series -> Nat]
    /\ Times \subseteq QueryTimes /\ QueryTimes \subseteq Int /\ IsFiniteSet(Times)
    /\ MaxSamples \in Nat \ {0}
    /\ MaxBlocks \in Nat /\ MaxBlockPayload \in Nat /\ MaxIndexPayload \in Nat
    /\ MaxPuts \in Nat /\ MaxSegments \in Nat /\ MaxDamage \in Nat

VARIABLES
    phase,     \* "ready", "failed" (failed_ is set), "refused" (opening threw)
    memtable,  \* MemTable::series_: the value of every series and time, or None
    segments,  \* the live segment files, oldest first; each has an open reader
    written,   \* the newest value of every series and time
    nput, ndamage

vars == <<phase, memtable, segments, written, nput, ndamage>>

None == 0
Keys == Series \X Times
Empty == [k \in Keys |-> None]

\* A read returns samples (none or one for get and latest) or throws.
Found(samples) == [ok |-> TRUE, samples |-> samples]
Corrupt        == [ok |-> FALSE, samples |-> <<>>]

-----------------------------------------------------------------------------
(* Blocks and files.                                                       *)

\* The samples of one series at the given times, in the order of time.
SamplesAt(table, s, times) ==
    LET order == Ordered({t \in times : table[<<s, t>>] # None})
    IN  [i \in DOMAIN order |-> [timestamp |-> order[i], value |-> table[<<s, order[i]>>]]]

\* MemTable::snapshot of one series.
Samples(table, s) == SamplesAt(table, s, Times)

\* Mutant of Cut: the blocks of a series share a sample.
CutOverlapping(s, samples) ==
    [i \in 1..((Len(samples) + MaxSamples - 1) \div MaxSamples) |->
        [series |-> s, samples |-> SubSeq(samples, IF i = 1 THEN 1 ELSE (i - 1) * MaxSamples,
                                          IF i * MaxSamples < Len(samples)
                                          THEN i * MaxSamples ELSE Len(samples))]]

\* The blocks of one series.
Cut(s, samples) ==
    [i \in 1..((Len(samples) + MaxSamples - 1) \div MaxSamples) |->
        [series |-> s, samples |-> SubSeq(samples, (i - 1) * MaxSamples + 1,
                                          IF i * MaxSamples < Len(samples)
                                          THEN i * MaxSamples ELSE Len(samples))]]

blocks_from_snapshots(table) ==
    LET order == Ordered(Series)
    IN  FlattenSeq([i \in DOMAIN order |-> Cut(order[i], Samples(table, order[i]))])

first_timestamp(block) == block.samples[1].timestamp
last_timestamp(block)  == block.samples[Len(block.samples)].timestamp

\* The series key and the samples; the encoded block has a header as well.
BlockPayload(block) == KeySize[block.series] + Len(block.samples)
EncodedSize(block)  == 1 + BlockPayload(block)

HeaderSize == 1

\* encode_segment_block throws std::length_error unless this holds, and
\* decode_segment_block rejects the block.
FitsBlock(block) == BlockPayload(block) <= MaxBlockPayload

\* The parts of a segment file around its blocks.
Envelope == {"header", "footer", "index"}

\* Where blocks that follow one another after the header begin, and the last ends.
Offsets(blocks) ==
    LET offset[i \in 1..Len(blocks) + 1] ==
            IF i = 1 THEN HeaderSize ELSE offset[i - 1] + EncodedSize(blocks[i - 1])
    IN  offset

\* The index entries of the blocks.
IndexOf(blocks) ==
    [i \in DOMAIN blocks |->
        [series |-> blocks[i].series,
         first_timestamp |-> first_timestamp(blocks[i]),
         last_timestamp |-> last_timestamp(blocks[i]),
         block_offset |-> Offsets(blocks)[i],
         block_size |-> EncodedSize(blocks[i]),
         sample_count |-> Len(blocks[i].samples)]]

\* Every entry has numbers and the series key.
IndexPayload(index) ==
    LET size[i \in 0..Len(index)] == IF i = 0 THEN 0 ELSE size[i - 1] + 1 + KeySize[index[i].series]
    IN  size[Len(index)]

\* encode_index throws std::length_error unless this holds, and decode_index rejects
\* the index.
FitsIndex(index) == IndexPayload(index) <= MaxIndexPayload

\* validate_blocks and the constructor of SegmentBlock.
validate_blocks(blocks) ==
    /\ blocks # <<>>
    /\ Len(blocks) <= MaxBlocks
    /\ \A i \in DOMAIN blocks :
          /\ Len(blocks[i].samples) \in 1..MaxSamples
          /\ \A j \in 2..Len(blocks[i].samples) :
                blocks[i].samples[j - 1].timestamp < blocks[i].samples[j].timestamp
    /\ \A i \in 2..Len(blocks) :
          \/ blocks[i - 1].series < blocks[i].series
          \/ /\ blocks[i - 1].series = blocks[i].series
             /\ last_timestamp(blocks[i - 1]) < first_timestamp(blocks[i])

\* write_segment_file does not throw before it writes.
Writable(blocks) ==
    /\ validate_blocks(blocks)
    /\ \A i \in DOMAIN blocks : FitsBlock(blocks[i])
    /\ FitsIndex(IndexOf(blocks))

\* write_segment_file: the file is its index, and a block at every offset.
write_segment_file(blocks) ==
    LET index == IndexOf(blocks)
    IN  [intact |-> Envelope,
         index |-> index,
         index_offset |-> index[Len(index)].block_offset + index[Len(index)].block_size,
         blocks |-> [o \in {e.block_offset : e \in ToSet(index)} |->
                        blocks[CHOOSE i \in DOMAIN index : index[i].block_offset = o]]]

\* validate_index.
validate_index(index, index_offset) ==
    /\ index # <<>>
    /\ \A i \in DOMAIN index :
          LET e == index[i]
          IN  /\ e.block_offset = IF i = 1 THEN HeaderSize
                                  ELSE index[i - 1].block_offset + index[i - 1].block_size
              /\ e.block_size > 0
              /\ e.block_offset + e.block_size <= index_offset
              /\ e.sample_count \in 1..MaxSamples
              /\ e.first_timestamp <= e.last_timestamp
              /\ i > 1 => \/ index[i - 1].series < e.series
                          \/ /\ index[i - 1].series = e.series
                             /\ index[i - 1].last_timestamp < e.first_timestamp
    /\ index[Len(index)].block_offset + index[Len(index)].block_size = index_offset

\* The checksum of each part is verified, then what it says.
decode_header(segment) == "header" \in segment.intact /\ Len(segment.index) \in 1..MaxBlocks
decode_footer(segment) == "footer" \in segment.intact
decode_index(segment) ==
    /\ "index" \in segment.intact
    /\ Len(segment.index) \in 1..MaxBlocks
    /\ FitsIndex(segment.index)
    /\ validate_index(segment.index, segment.index_offset)

\* SegmentReader's constructor accepts the file.
Opens(segment) == decode_header(segment) /\ decode_footer(segment) /\ decode_index(segment)

\* What a block decodes to when its checksum fails.
Garbage == [series |-> 0, samples |-> <<>>]

\* Mutant of Matches: a block with a good checksum is the right one.
MatchesChecksum(block, entry) == block # Garbage

\* The bytes decode, all of them, to the block that the index entry describes.
Matches(block, entry) ==
    /\ block # Garbage
    /\ FitsBlock(block)
    /\ EncodedSize(block) = entry.block_size
    /\ block.series = entry.series
    /\ Len(block.samples) = entry.sample_count
    /\ first_timestamp(block) = entry.first_timestamp
    /\ last_timestamp(block) = entry.last_timestamp

read_block(segment, entry) ==
    LET block == segment.blocks[entry.block_offset]
    IN  IF Matches(block, entry) THEN Found(block.samples) ELSE Corrupt

-----------------------------------------------------------------------------
(* SegmentReader.                                                          *)

\* std::lower_bound, for a test that holds of a prefix: the first position after
\* it.
LowerBound(seq, Before(_)) ==
    CHOOSE i \in 1..Len(seq) + 1 :
        /\ \A j \in 1..i - 1 : Before(seq[j])
        /\ i <= Len(seq) => ~Before(seq[i])

\* The first sample that is not before t.
TimeBound(samples, t) == LowerBound(samples, LAMBDA x : x.timestamp < t)

\* The first entry of s or of a series after it; the first after those of s.
SeriesBegin(index, s) == LowerBound(index, LAMBDA e : e.series < s)
SeriesEnd(index, s)   == LowerBound(index, LAMBDA e : ~(s < e.series))

\* The entries that the loops of get and range walk through.
Run(index, s) ==
    LET from == SeriesBegin(index, s)
    IN  {i \in from..Len(index) : \A j \in from..i : index[j].series = s}

First(positions) == CHOOSE i \in positions : \A j \in positions : i <= j

SegmentLatest(segment, s) ==
    LET end == SeriesEnd(segment.index, s)
        block == read_block(segment, segment.index[end - 1])
    IN  IF end = 1 \/ segment.index[end - 1].series # s THEN Found(<<>>)
        ELSE IF ~block.ok THEN Corrupt
        ELSE Found(<<block.samples[Len(block.samples)]>>)

\* The sample of a block at t, if there is one.
SampleAt(samples, t) ==
    LET i == TimeBound(samples, t)
    IN  IF i <= Len(samples) /\ samples[i].timestamp = t THEN <<samples[i]>> ELSE <<>>

\* Mutant of SegmentGet: the gap between two blocks is searched in the block
\* after it.
SegmentGetSearchesGaps(segment, s, t) ==
    LET index == segment.index
        reached == {i \in Run(index, s) : t <= index[i].last_timestamp}
        block == read_block(segment, index[First(reached)])
    IN  IF reached = {} THEN Found(<<>>)
        ELSE IF ~block.ok THEN Corrupt
        ELSE Found(SampleAt(block.samples, t))

\* The first block that does not end before t decides.
SegmentGet(segment, s, t) ==
    LET index == segment.index
        reached == {i \in Run(index, s) : t <= index[i].last_timestamp}
        block == read_block(segment, index[First(reached)])
    IN  IF reached = {} \/ t < index[First(reached)].first_timestamp THEN Found(<<>>)
        ELSE IF ~block.ok THEN Corrupt
        ELSE Found(SampleAt(block.samples, t))

\* Mutant of RangeBlocks: a block that ends at the start of the range is skipped.
RangeBlocksAfterStart(index, s, start, end) ==
    {i \in Run(index, s) : index[i].last_timestamp > start /\ index[i].first_timestamp < end}

\* The blocks that range reads.
RangeBlocks(index, s, start, end) ==
    {i \in Run(index, s) : index[i].last_timestamp >= start /\ index[i].first_timestamp < end}

\* The samples of a block in the half-open interval.
SamplesBetween(samples, start, end) ==
    SubSeq(samples, TimeBound(samples, start), TimeBound(samples, end) - 1)

SegmentRange(segment, s, start, end) ==
    LET order == Ordered(RangeBlocks(segment.index, s, start, end))
        read  == [n \in DOMAIN order |-> read_block(segment, segment.index[order[n]])]
    IN  IF start = end THEN Found(<<>>)
        ELSE IF \E n \in DOMAIN read : ~read[n].ok THEN Corrupt
        ELSE Found(FlattenSeq([n \in DOMAIN read |->
                                  SamplesBetween(read[n].samples, start, end)]))

-----------------------------------------------------------------------------
(* StorageEngine's queries.                                                *)

MemTableGet(s, t) == SamplesAt(memtable, s, {t} \cap Times)

MemTableLatest(s) ==
    LET all == Samples(memtable, s) IN IF all = <<>> THEN <<>> ELSE <<all[Len(all)]>>

MemTableRange(s, start, end) ==
    SamplesAt(memtable, s, {t \in Times : start <= t /\ t < end})

\* The segments from the newest to the oldest, until one has the sample or is
\* corrupt; older ones are not read.
get_in_segments(s, t) ==
    LET answering == {i \in DOMAIN segments : SegmentGet(segments[i], s, t) # Found(<<>>)}
    IN  IF answering = {} THEN Found(<<>>)
        ELSE SegmentGet(segments[CHOOSE i \in answering : \A j \in answering : i >= j], s, t)

\* Memory first, then the segments.
get(s, t) ==
    IF MemTableGet(s, t) # <<>> THEN Found(MemTableGet(s, t)) ELSE get_in_segments(s, t)

\* Mutant of Later: of two samples with one timestamp the older stays.
LaterOldestWins(result, candidate) ==
    IF ~result.ok \/ ~candidate.ok THEN Corrupt
    ELSE IF /\ candidate.samples # <<>>
            /\ \/ result.samples = <<>>
               \/ candidate.samples[1].timestamp > result.samples[1].timestamp
    THEN candidate ELSE result

Later(result, candidate) ==
    IF ~result.ok \/ ~candidate.ok THEN Corrupt
    ELSE IF /\ candidate.samples # <<>>
            /\ \/ result.samples = <<>>
               \/ candidate.samples[1].timestamp >= result.samples[1].timestamp
    THEN candidate ELSE result

\* The loop over the candidates, oldest first.
LatestOf(candidates) ==
    LET best[i \in 0..Len(candidates)] ==
            IF i = 0 THEN Found(<<>>) ELSE Later(best[i - 1], candidates[i])
    IN  best[Len(candidates)]

latest(s) ==
    LatestOf(Append([i \in DOMAIN segments |-> SegmentLatest(segments[i], s)],
                    Found(MemTableLatest(s))))

\* The value that a std::map holds at t when it is filled in the order of samples.
Assigned(samples, t) ==
    LET hits == {i \in DOMAIN samples : samples[i].timestamp = t}
    IN  IF hits = {} THEN None ELSE samples[Max(hits)].value

\* The samples of that map.
Merged(samples) ==
    LET times == Ordered({samples[i].timestamp : i \in DOMAIN samples})
    IN  [n \in DOMAIN times |-> [timestamp |-> times[n], value |-> Assigned(samples, times[n])]]

range(s, start, end) ==
    LET read == [i \in DOMAIN segments |-> SegmentRange(segments[i], s, start, end)]
    IN  IF \E i \in DOMAIN read : ~read[i].ok THEN Corrupt
        ELSE Found(Merged(FlattenSeq(Append([i \in DOMAIN read |-> read[i].samples],
                                            MemTableRange(s, start, end)))))

\* Mutant of series: only the first entry of an index is looked at.
seriesFirstOnly ==
    {segments[i].index[1].series : i \in DOMAIN segments}
        \cup {s \in Series : Samples(memtable, s) # <<>>}

\* Also of segments whose blocks are damaged: the index is in memory.
series ==
    (UNION {{e.series : e \in ToSet(segments[i].index)} : i \in DOMAIN segments})
        \cup {s \in Series : Samples(memtable, s) # <<>>}

-----------------------------------------------------------------------------
(* Mutations, damage and reopening.                                        *)

Init ==
    /\ phase = "ready"
    /\ memtable = Empty
    /\ segments = <<>>
    /\ written = Empty
    /\ nput = 0
    /\ ndamage = 0

\* put looks for the sample first, and throws, unchanged, if that meets damage.
Put(s, t) ==
    /\ phase = "ready"
    /\ nput < MaxPuts
    /\ get(s, t).ok
    /\ nput' = nput + 1
    /\ memtable' = [memtable EXCEPT ![<<s, t>>] = nput + 1]
    /\ written' = [written EXCEPT ![<<s, t>>] = nput + 1]
    /\ UNCHANGED <<phase, segments, ndamage>>

\* Write a segment with the samples of a table, open it, and go on with it.  Samples
\* that the log took one by one may be too many for a block, an index or a file.
Publish(table, others) ==
    LET blocks == blocks_from_snapshots(table)
    IN  IF Writable(blocks) /\ Opens(write_segment_file(blocks))
        THEN segments' = Append(others, write_segment_file(blocks)) /\ UNCHANGED phase
        ELSE phase' = "failed" /\ UNCHANGED segments

Flush ==
    /\ phase = "ready"
    /\ memtable # Empty
    /\ Len(segments) < MaxSegments
    /\ Publish(memtable, segments)
    /\ memtable' = IF phase' = "ready" THEN Empty ELSE memtable
    /\ UNCHANGED <<written, nput, ndamage>>

\* What compact reads: all blocks, in the order of the index.
Blocks(segment) == [i \in DOMAIN segment.index |-> read_block(segment, segment.index[i])]

\* The samples of a series in the order in which compact assigns them.
Assignments(s) ==
    FlattenSeq([i \in DOMAIN segments |->
        FlattenSeq([n \in DOMAIN segments[i].index |->
            IF segments[i].index[n].series = s THEN Blocks(segments[i])[n].samples ELSE <<>>])])

\* What the segments hold, the newest one having the last word.
Compacted == [k \in Keys |-> Assigned(Assignments(k[1]), k[2])]

Compact ==
    /\ phase = "ready"
    /\ Len(segments) > 1
    /\ IF \A i \in DOMAIN segments : \A n \in DOMAIN segments[i].index : Blocks(segments[i])[n].ok
       THEN Publish(Compacted, <<>>)
       ELSE phase' = "failed" /\ UNCHANGED segments
    /\ UNCHANGED <<memtable, written, nput, ndamage>>

\* A restart: the log has the memtable; every segment is opened, and the replay
\* looks for every sample of the log in the segments.  After a refusal one may
\* try again.
Reopen ==
    /\ phase' = IF /\ \A i \in DOMAIN segments : Opens(segments[i])
                   /\ \A k \in Keys : memtable[k] # None => get_in_segments(k[1], k[2]).ok
                THEN "ready" ELSE "refused"
    /\ UNCHANGED <<memtable, segments, written, nput, ndamage>>

\* The medium loses a block, or puts another block of the file in its place.
DamageBlock(i, entry, other) ==
    /\ ndamage < MaxDamage
    /\ ndamage' = ndamage + 1
    /\ segments' = [segments EXCEPT ![i].blocks[entry.block_offset] = other]
    /\ UNCHANGED <<phase, memtable, written, nput>>

\* The medium damages a header, a footer or an index.
DamageEnvelope(i, part) ==
    /\ ndamage < MaxDamage
    /\ ndamage' = ndamage + 1
    /\ segments' = [segments EXCEPT ![i].intact = @ \ {part}]
    /\ UNCHANGED <<phase, memtable, written, nput>>

Next ==
    \/ \E s \in Series, t \in Times : Put(s, t)
    \/ Flush
    \/ Compact
    \/ Reopen
    \/ \E i \in DOMAIN segments :
          \E e, f \in ToSet(segments[i].index) :
             DamageBlock(i, e, IF e = f THEN Garbage ELSE segments[i].blocks[f.block_offset])
    \/ \E i \in DOMAIN segments, part \in Envelope : DamageEnvelope(i, part)

Spec == Init /\ [][Next]_vars

-----------------------------------------------------------------------------
(* Properties.                                                             *)

\* A block cannot be read as what its index entry says.
Lost(i, n) == ~read_block(segments[i], segments[i].index[n]).ok

Damaged == \E i \in DOMAIN segments : \E n \in DOMAIN segments[i].index : Lost(i, n)

\* A read is right or, if some block is damaged, throws: never wrong.
Right(result, samples) == result = Found(samples) \/ (result = Corrupt /\ Damaged)

\* The newest samples of a series at the given times.
Written(s, times) == SamplesAt(written, s, times \cap Times)

\* get returns the newest value of exactly the timestamp it is asked for, from
\* whichever block of whichever segment, or from memory.
GetIsExact ==
    phase = "ready" => \A s \in Series, t \in QueryTimes : Right(get(s, t), Written(s, {t}))

\* latest returns the newest value of the greatest timestamp.
LatestIsExact ==
    phase = "ready" =>
        \A s \in Series :
            LET all == Written(s, Times)
            IN  Right(latest(s), IF all = <<>> THEN <<>> ELSE <<all[Len(all)]>>)

\* range returns every sample of the half-open interval once, in order, with its
\* newest value.
RangeIsExact ==
    phase = "ready" =>
        \A s \in Series, start, end \in QueryTimes :
            start <= end =>
                Right(range(s, start, end),
                      Written(s, {t \in QueryTimes : start <= t /\ t < end}))

\* series returns the series that have samples, damage or not.
SeriesAreExact ==
    phase = "ready" => series = {s \in Series : \E t \in Times : written[<<s, t>>] # None}

\* A damaged block fails only the gets that it could have answered.
DamageIsContained ==
    phase = "ready" =>
        \A s \in Series, t \in QueryTimes :
            ~get(s, t).ok =>
                \E i \in DOMAIN segments : \E n \in DOMAIN segments[i].index :
                    LET e == segments[i].index[n]
                    IN  Lost(i, n) /\ e.series = s /\ t \in e.first_timestamp..e.last_timestamp

\* The samples of the table exceed a limit of a segment file: too many blocks, a block
\* that is too large, or an index that is.
TooLarge(table) ==
    LET blocks == blocks_from_snapshots(table)
    IN  \/ Len(blocks) > MaxBlocks
        \/ \E i \in DOMAIN blocks : ~FitsBlock(blocks[i])
        \/ ~FitsIndex(IndexOf(blocks))

\* What flush and compact write is always accepted when it is read back: without
\* damage a mutation fails only because what it has to write exceeds a limit, and no
\* restart is refused, also after such a failure.
OnlyDamageOrSizeFails ==
    ndamage = 0 => \/ phase = "ready"
                   \/ phase = "failed" /\ (TooLarge(memtable) \/ TooLarge(Compacted))

=============================================================================
