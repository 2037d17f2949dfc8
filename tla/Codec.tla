-------------------------------- MODULE Codec --------------------------------
(***************************************************************************)
(* The byte formats of the log record (wal_record.cpp), the segment file   *)
(* (segment_file.cpp, segment_block_codec.cpp) and the manifest            *)
(* (manifest.cpp), built from the same pieces: little-endian integers and  *)
(* strings (byte_codec.cpp), a length with its bitwise inverse, and a      *)
(* checksum (crc32c.cpp).                                                  *)
(*                                                                         *)
(* Integers keep their shape and not their size: a byte has ByteBits bits, *)
(* the 32-bit and the 64-bit types have two bytes, the 8-bit and 16-bit    *)
(* types one.  The checksum is as wide as the length, as in the code.      *)
(*                                                                         *)
(* An encoder that throws std::length_error is an encoder whose Fits... is  *)
(* FALSE.  The decoders compare counts with the bytes left before they     *)
(* reserve memory; reading past the end would fail in any case, so these   *)
(* comparisons are left out.                                               *)
(***************************************************************************)
EXTENDS Integers, Sequences, SequencesExt

CONSTANTS
    ByteBits,            \* bits of a byte
    Polynomial,          \* reflected_polynomial
    MaxRecordPayload,    \* max_payload_size
    MaxBlockPayload,     \* max_segment_block_payload_size
    MaxIndexPayload,     \* max_index_payload_size
    MaxManifestPayload,  \* max_manifest_payload_size
    MaxSamples,          \* max_samples_per_segment_block
    MaxBlocks,           \* max_segment_block_count
    MaxFiles             \* max_manifest_segments

U8  == 1
U16 == 1
U32 == 2
U64 == 2

Base == 2 ^ ByteBits
Byte == 0 .. Base - 1
Word == 0 .. Base ^ U32 - 1

ASSUME CodecBounds ==
    /\ ByteBits \in Nat \ {0}
    /\ Polynomial \in Word
    /\ {MaxRecordPayload, MaxBlockPayload, MaxIndexPayload, MaxManifestPayload} \subseteq Word
    /\ {MaxSamples, MaxBlocks, MaxFiles} \subseteq Word

-----------------------------------------------------------------------------
(* byte_codec.cpp and crc32c.cpp.                                          *)

\* write_unsigned: the low byte first.
write_unsigned(value, width) == [i \in 1..width |-> (value \div Base ^ (i - 1)) % Base]

\* Sum of the bytes of a little-endian number.
Number(bytes) ==
    LET sum[i \in 0..Len(bytes)] == IF i = 0 THEN 0
                                    ELSE sum[i - 1] + bytes[i] * Base ^ (i - 1)
    IN  sum[Len(bytes)]

\* One write_u8 ... write_u64 after the other.
write_fields(values, widths) ==
    FlattenSeq([i \in 1..Len(widths) |-> write_unsigned(values[i], widths[i])])

Size(widths) == LET sum[i \in 0..Len(widths)] == IF i = 0 THEN 0 ELSE sum[i - 1] + widths[i]
                IN  sum[Len(widths)]

write_string(s) == write_unsigned(Len(s), U32) \o s

\* A ByteReader: the bytes not read yet, what was read last, and whether every
\* read so far succeeded.
ByteReader(bytes) == [ok |-> TRUE, rest |-> bytes, value |-> <<>>]

read_bytes(r, n) ==
    IF r.ok /\ n <= Len(r.rest)
    THEN [ok |-> TRUE, rest |-> SubSeq(r.rest, n + 1, Len(r.rest)), value |-> SubSeq(r.rest, 1, n)]
    ELSE [r EXCEPT !.ok = FALSE]

read_unsigned(r, width) ==
    LET number(b) == IF b.ok THEN [b EXCEPT !.value = Number(@)] ELSE b
    IN  number(read_bytes(r, width))

read_string(r) ==
    LET string(n) == read_bytes(n, n.value) IN string(read_unsigned(r, U32))

\* n reads, one after the other: the sequence of their values.
read_all(r, n, read(_, _)) ==
    LET add(done, item)  == [item EXCEPT !.value = Append(done.value, @)]
        next(done, i)    == add(done, read(done, i))
        first[i \in 0..n] == IF i = 0 THEN [r EXCEPT !.value = <<>>] ELSE next(first[i - 1], i)
    IN  first[n]

\* The values of consecutive fields.
read_fields(r, widths) ==
    LET read(s, i) == read_unsigned(s, widths[i]) IN read_all(r, Len(widths), read)

read_strings(r, n) == LET read(s, i) == read_string(s) IN read_all(r, n, read)

Xor[a \in Word, b \in Word] ==
    LET sum[i \in 0 .. U32 * ByteBits] ==
            IF i = 0 THEN 0
            ELSE sum[i - 1] + 2 ^ (i - 1) * ((a \div 2 ^ (i - 1) + b \div 2 ^ (i - 1)) % 2)
    IN  sum[U32 * ByteBits]

Inverted(n) == Base ^ U32 - 1 - n

\* One byte of crc32c: the byte goes into the low bits, then one shift per bit.
CrcStep ==
    [c \in Word, byte \in Byte |->
        LET shift[i \in 0..ByteBits] ==
                IF i = 0 THEN Xor[c, byte]
                ELSE LET crc == shift[i - 1]
                     IN  IF crc % 2 = 1 THEN Xor[crc \div 2, Polynomial] ELSE crc \div 2
        IN  shift[ByteBits]]

crc32c(bytes) ==
    LET crc[i \in 0..Len(bytes)] == IF i = 0 THEN Inverted(0) ELSE CrcStep[crc[i - 1], bytes[i]]
    IN  Inverted(crc[Len(bytes)])

\* The bytes with their checksum behind them, and the check of it.
Sealed(bytes)   == bytes \o write_unsigned(crc32c(bytes), U32)
SealHolds(bytes) ==
    LET n == Len(bytes) - U32
    IN  Number(SubSeq(bytes, n + 1, Len(bytes))) = crc32c(SubSeq(bytes, 1, n))

-----------------------------------------------------------------------------
(* model.hpp: tags, series and samples.                                    *)

\* std::string and std::vector compare lexicographically.
Lexicographic(s, t, Less(_, _)) ==
    \E i \in 1..Len(t) :
        /\ \A j \in 1..i - 1 : j <= Len(s) /\ s[j] = t[j]
        /\ i <= Len(s) => Less(s[i], t[i])

StringLess(s, t) == LET Less(a, b) == a < b IN Lexicographic(s, t, Less)

\* The strings of a series in the order in which operator<=> compares them.
Strings(series) ==
    <<series.measurement>> \o FlattenSeq([i \in 1..Len(series.tags) |->
                                             <<series.tags[i].key, series.tags[i].value>>])

SeriesLess(a, b) == Lexicographic(Strings(a), Strings(b), StringLess)

\* The constructor of SeriesKey sorts the tags; it and that of Tag reject the rest.
SeriesKey(measurement, tags) ==
    [measurement |-> measurement,
     tags |-> SortSeq(tags, LAMBDA a, b : StringLess(a.key, b.key))]

ValidSeries(measurement, tags) ==
    /\ measurement # <<>>
    /\ \A i \in DOMAIN tags : tags[i].key # <<>>
    /\ \A i, j \in DOMAIN tags : tags[i].key = tags[j].key => i = j

\* bit_cast between std::int64_t and std::uint64_t.
SignedMin == -(Base ^ U64 \div 2)
ToBits(timestamp) == timestamp % Base ^ U64
FromBits(bits)    == IF bits < -SignedMin THEN bits ELSE bits - Base ^ U64

\* A double has a sign bit, two bits of exponent and the rest of mantissa; an
\* exponent of ones is an infinity or a NaN, which the constructor of Sample rejects.
Finite(bits) == (bits \div 2 ^ (U64 * ByteBits - 3)) % 4 # 3

encode_series(series) ==
    write_string(series.measurement) \o write_unsigned(Len(series.tags), U32)
      \o FlattenSeq([i \in 1..Len(series.tags) |->
                        write_string(series.tags[i].key) \o write_string(series.tags[i].value)])

\* Measurement and tags in the order of the bytes, not checked yet.
read_series(r) ==
    LET tags(strings) == [i \in 1 .. Len(strings) \div 2 |->
                             [key |-> strings[2 * i - 1], value |-> strings[2 * i]]]
        series(m, t)  == IF t.ok THEN [t EXCEPT !.value = [measurement |-> m.value, tags |-> tags(@)]]
                         ELSE t
        counted(m, n) == series(m, IF n.ok THEN read_strings(n, 2 * n.value) ELSE n)
        named(m)      == counted(m, read_unsigned(m, U32))
    IN  named(read_string(r))

\* Blocks and index entries must hold the tags in canonical order.
Canonical(series) ==
    /\ ValidSeries(series.measurement, series.tags)
    /\ series = SeriesKey(series.measurement, series.tags)

encode_sample(s) == write_unsigned(ToBits(s.timestamp), U64) \o write_unsigned(s.value, U64)

Sample(fields) == [timestamp |-> FromBits(fields[1]), value |-> fields[2]]

-----------------------------------------------------------------------------
(* wal_record.cpp.                                                         *)

Magic   == [wal |-> 1, block |-> 2, segment |-> 3, footer |-> 4, index |-> 5, manifest |-> 6]
Version == 1
Flags   == 0
Put     == 1

WalHeader == <<U32, U8, U8, U32, U32>>

wal_payload(record) == encode_series(record.series) \o encode_sample(record.sample)

FitsWal(record) == Len(wal_payload(record)) <= MaxRecordPayload

encode_wal_record(record) ==
    LET payload == wal_payload(record)
        n       == Len(payload)
    IN  Sealed(write_fields(<<Magic.wal, Version, Put, n, Inverted(n)>>, WalHeader) \o payload)

Failed(error)  == [ok |-> FALSE, error |-> error]
Decoded(v, n)  == [ok |-> TRUE, value |-> v, consumed |-> n]

decode_wal_payload(payload, total) ==
    LET decoded(key, sample) ==
            IF /\ sample.ok
               /\ sample.rest = <<>>
               /\ ValidSeries(key.measurement, key.tags)
               /\ Finite(sample.value[2])
            THEN Decoded([series |-> SeriesKey(key.measurement, key.tags),
                          sample |-> Sample(sample.value)], total)
            ELSE Failed("invalid_payload")
        after(series) == decoded(series.value, read_fields(series, <<U64, U64>>))
    IN  after(read_series(ByteReader(payload)))

\* Mutant of LengthHolds: the length is not compared with its inverse.
LengthUnchecked(length, inverted, limit) == length <= limit

LengthHolds(length, inverted, limit) == inverted = Inverted(length) /\ length <= limit

\* What is read of a record, in the order in which decode_wal_record checks it.
decode_wal_record(bytes) ==
    LET size == Size(WalHeader)
        decoded(h, total) ==
            IF h[1] # Magic.wal THEN Failed("invalid_magic")
            ELSE IF ~LengthHolds(h[4], h[5], MaxRecordPayload) THEN Failed("invalid_length")
            ELSE IF Len(bytes) < total THEN Failed("incomplete_record")
            ELSE IF ~SealHolds(SubSeq(bytes, 1, total)) THEN Failed("checksum_mismatch")
            ELSE IF h[2] # Version THEN Failed("unsupported_version")
            ELSE IF h[3] # Put THEN Failed("unsupported_record_type")
            ELSE decode_wal_payload(SubSeq(bytes, size + 1, size + h[4]), total)
        after(h) == decoded(h, size + h[4] + U32)
    IN  IF Len(bytes) < size THEN Failed("incomplete_record")
        ELSE after(read_fields(ByteReader(bytes), WalHeader).value)

-----------------------------------------------------------------------------
(* segment_block_codec.cpp and segment_block.cpp.                          *)

BlockHeader == <<U32, U16, U16, U32, U32, U32>>

block_payload(block) ==
    encode_series(block.series)
      \o FlattenSeq([i \in 1..Len(block.samples) |-> encode_sample(block.samples[i])])

FitsBlock(block) == Len(block_payload(block)) <= MaxBlockPayload

encode_segment_block(block) ==
    LET payload == block_payload(block)
        n       == Len(payload)
    IN  Sealed(write_fields(<<Magic.block, Version, Flags, n, Inverted(n), Len(block.samples)>>,
                            BlockHeader) \o payload)

decode_block_payload(payload, count, total) ==
    LET ordered(samples) == \A i \in 1..count - 1 : samples[i].timestamp < samples[i + 1].timestamp
        decoded(series, read, samples) ==
            IF /\ read.ok
               /\ read.rest = <<>>
               /\ Canonical(series)
               /\ \A i \in 1..count : Finite(samples[i].value)
               /\ ordered(samples)
            THEN Decoded([series |-> series, samples |-> samples], total)
            ELSE Failed("invalid_payload")
        sampled(series, read) ==
            decoded(series, read, [i \in 1..count |-> Sample(SubSeq(read.value, 2 * i - 1, 2 * i))])
        after(series) == sampled(series.value, read_fields(series, [i \in 1 .. 2 * count |-> U64]))
    IN  after(read_series(ByteReader(payload)))

decode_segment_block(bytes) ==
    LET size == Size(BlockHeader)
        decoded(h, total) ==
            IF h[1] # Magic.block THEN Failed("invalid_magic")
            ELSE IF ~LengthHolds(h[4], h[5], MaxBlockPayload) THEN Failed("invalid_length")
            ELSE IF Len(bytes) < total THEN Failed("incomplete_block")
            ELSE IF ~SealHolds(SubSeq(bytes, 1, total)) THEN Failed("checksum_mismatch")
            ELSE IF h[2] # Version THEN Failed("unsupported_version")
            ELSE IF h[3] # Flags THEN Failed("unsupported_flags")
            ELSE IF h[6] \notin 1..MaxSamples THEN Failed("invalid_sample_count")
            ELSE decode_block_payload(SubSeq(bytes, size + 1, size + h[4]), h[6], total)
        after(h) == decoded(h, size + h[4] + U32)
    IN  IF Len(bytes) < size THEN Failed("incomplete_block")
        ELSE after(read_fields(ByteReader(bytes), BlockHeader).value)

-----------------------------------------------------------------------------
(* segment_file.cpp: header, blocks, index, footer.                        *)

SegmentHeader == <<U32, U16, U16, U32, U64, U64>>
SegmentFooter == <<U32, U16, U16, U64, U64, U32>>
IndexHeader   == <<U32, U16, U16, U32, U32, U32>>
IndexEntry    == <<U64, U32, U32, U64, U64>>
EnvelopeSize  == Size(SegmentHeader) + U32

\* SegmentIndexEntry of every block.
IndexOf(blocks) ==
    LET offset[i \in 1 .. Len(blocks) + 1] ==
            IF i = 1 THEN EnvelopeSize
            ELSE offset[i - 1] + Len(encode_segment_block(blocks[i - 1]))
    IN  [i \in 1..Len(blocks) |->
            [series |-> blocks[i].series,
             fields |-> <<offset[i], offset[i + 1] - offset[i], Len(blocks[i].samples),
                          ToBits(blocks[i].samples[1].timestamp),
                          ToBits(blocks[i].samples[Len(blocks[i].samples)].timestamp)>>]]

index_payload(entries) ==
    FlattenSeq([i \in 1..Len(entries) |->
                   write_fields(entries[i].fields, IndexEntry) \o encode_series(entries[i].series)])

\* A series comes after another, or a block after another of its series.
Ordered(first, second, last_of_first, first_of_second) ==
    \/ SeriesLess(first, second)
    \/ first = second /\ last_of_first < first_of_second

validate_blocks(blocks) ==
    /\ Len(blocks) \in 1..MaxBlocks
    /\ \A i \in 2..Len(blocks) :
          Ordered(blocks[i - 1].series, blocks[i].series,
                  Last(blocks[i - 1].samples).timestamp, blocks[i].samples[1].timestamp)

FitsIndex(blocks) == Len(index_payload(IndexOf(blocks))) <= MaxIndexPayload

encode_index(entries) ==
    LET payload == index_payload(entries)
        n       == Len(payload)
    IN  Sealed(write_fields(<<Magic.index, Version, Flags, Len(entries), n, Inverted(n)>>,
                            IndexHeader) \o payload)

\* write_segment_file up to atomic_write_file.
encode_segment(blocks) ==
    LET body   == FlattenSeq([i \in 1..Len(blocks) |-> encode_segment_block(blocks[i])])
        index  == encode_index(IndexOf(blocks))
        offset == EnvelopeSize + Len(body)
    IN  Sealed(write_fields(<<Magic.segment, Version, Flags, Len(blocks), offset, Len(index)>>,
                            SegmentHeader))
          \o body \o index
          \o Sealed(write_fields(<<Magic.footer, Version, Flags, offset, Len(index), Len(blocks)>>,
                                 SegmentFooter))

\* decode_header and decode_footer, as block count, index offset and index size.
Invalid == <<>>

decode_header(bytes) ==
    LET decoded(h) ==
            IF /\ h[1] = Magic.segment /\ SealHolds(bytes)
               /\ h[2] = Version /\ h[3] = Flags /\ h[4] \in 1..MaxBlocks
            THEN <<h[4], h[5], h[6]>> ELSE Invalid
    IN  decoded(read_fields(ByteReader(bytes), SegmentHeader).value)

decode_footer(bytes) ==
    LET decoded(f) ==
            IF f[1] = Magic.footer /\ SealHolds(bytes) /\ f[2] = Version /\ f[3] = Flags
            THEN <<f[6], f[4], f[5]>> ELSE Invalid
    IN  decoded(read_fields(ByteReader(bytes), SegmentFooter).value)

validate_index(entries, index_offset) ==
    LET offset(i) == entries[i].fields[1]
        size(i)   == entries[i].fields[2]
        first(i)  == FromBits(entries[i].fields[4])
        last(i)   == FromBits(entries[i].fields[5])
        n         == Len(entries)
    IN  /\ \A i \in 1..n :
              /\ offset(i) = IF i = 1 THEN EnvelopeSize ELSE offset(i - 1) + size(i - 1)
              /\ size(i) # 0
              /\ entries[i].fields[3] \in 1..MaxSamples
              /\ first(i) <= last(i)
        /\ \A i \in 2..n :
              Ordered(entries[i - 1].series, entries[i].series, last(i - 1), first(i))
        /\ offset(n) + size(n) = index_offset

decode_index(bytes, count, index_offset) ==
    LET size == Size(IndexHeader)
        entry(s, f)  == [s EXCEPT !.value = [series |-> @, fields |-> f.value]]
        after(f)     == entry(read_series(f), f)
        read(r, i)   == after(read_fields(r, IndexEntry))
        decoded(all) ==
            IF /\ all.ok /\ all.rest = <<>>
               /\ \A i \in 1..count : Canonical(all.value[i].series)
               /\ validate_index(all.value, index_offset)
            THEN Decoded(all.value, Len(bytes)) ELSE Failed("invalid_index")
        checked(h) ==
            IF /\ h[1] = Magic.index /\ h[2] = Version /\ h[3] = Flags
               /\ h[4] = count
               /\ LengthHolds(h[5], h[6], MaxIndexPayload)
               /\ Len(bytes) = size + h[5] + U32
               /\ SealHolds(bytes)
            THEN decoded(read_all(ByteReader(SubSeq(bytes, size + 1, size + h[5])), count, read))
            ELSE Failed("invalid_index")
    IN  IF Len(bytes) < size + U32 THEN Failed("invalid_index")
        ELSE checked(read_fields(ByteReader(bytes), IndexHeader).value)

\* The constructor of SegmentReader.
open_segment(bytes) ==
    LET n == Len(bytes)
        opened(header, footer) ==
            IF header = Invalid \/ header # footer THEN Failed("invalid_envelope")
            ELSE IF header[2] < EnvelopeSize \/ header[2] + header[3] + EnvelopeSize # n
            THEN Failed("invalid_bounds")
            ELSE decode_index(SubSeq(bytes, header[2] + 1, header[2] + header[3]),
                              header[1], header[2])
    IN  IF n < 2 * EnvelopeSize + Size(IndexHeader) + U32 THEN Failed("too_small")
        ELSE opened(decode_header(SubSeq(bytes, 1, EnvelopeSize)),
                    decode_footer(SubSeq(bytes, n - EnvelopeSize + 1, n)))

\* read_block: the block that an index entry points to, if it is what it says.
read_block(bytes, entry) ==
    LET f == entry.fields
        matched(block) ==
            IF block.ok /\ block.consumed = f[2] /\ block.value.series = entry.series
               /\ Len(block.value.samples) = f[3]
               /\ ToBits(block.value.samples[1].timestamp) = f[4]
               /\ ToBits(block.value.samples[f[3]].timestamp) = f[5]
            THEN block ELSE Failed("mismatch")
    IN  matched(decode_segment_block(SubSeq(bytes, f[1] + 1, f[1] + f[2])))

-----------------------------------------------------------------------------
(* manifest.cpp.                                                           *)

ManifestHeader == <<U32, U16, U16, U64, U64, U32, U32, U32>>

Slash     == 5    \* '/' or '\'
Extension == 7    \* ".cst", one character here

valid_segment_filename(name) ==
    Len(name) >= 2 /\ Last(name) = Extension /\ \A i \in DOMAIN name : name[i] # Slash

validate_state(state) ==
    /\ Len(state.segment_files) <= MaxFiles
    /\ \A i \in DOMAIN state.segment_files : valid_segment_filename(state.segment_files[i])
    /\ IsInjective(state.segment_files)

manifest_payload(state) ==
    FlattenSeq([i \in 1..Len(state.segment_files) |-> write_string(state.segment_files[i])])

FitsManifest(state) ==
    validate_state(state) /\ Len(manifest_payload(state)) <= MaxManifestPayload

encode_manifest(state) ==
    LET payload == manifest_payload(state)
        n       == Len(payload)
    IN  Sealed(write_fields(<<Magic.manifest, Version, Flags, state.generation,
                              state.logical_sample_count, Len(state.segment_files),
                              n, Inverted(n)>>, ManifestHeader) \o payload)

decode_manifest(bytes) ==
    LET size == Size(ManifestHeader)
        decoded(names, state) ==
            IF names.ok /\ names.rest = <<>> /\ validate_state(state)
            THEN Decoded(state, Len(bytes)) ELSE Failed("invalid_manifest")
        named(h, names) == decoded(names, [generation           |-> h[4],
                                           logical_sample_count |-> h[5],
                                           segment_files        |-> names.value])
        checked(h) ==
            IF /\ h[1] = Magic.manifest /\ h[2] = Version /\ h[3] = Flags
               /\ h[6] <= MaxFiles
               /\ LengthHolds(h[7], h[8], MaxManifestPayload)
               /\ Len(bytes) = size + h[7] + U32
               /\ SealHolds(bytes)
            THEN named(h, read_strings(ByteReader(SubSeq(bytes, size + 1, size + h[7])), h[6]))
            ELSE Failed("invalid_manifest")
    IN  IF Len(bytes) < size + U32 THEN Failed("invalid_manifest")
        ELSE checked(read_fields(ByteReader(bytes), ManifestHeader).value)

=============================================================================
