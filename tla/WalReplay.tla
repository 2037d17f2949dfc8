------------------------------- MODULE WalReplay -------------------------------
(***************************************************************************)
(* The bytes of the write-ahead log: WalWriter writes records in any number *)
(* of pieces (src/src/wal_file.cpp), replay_wal reads the file in chunks    *)
(* and decodes records out of a buffer, repair_wal_tail cuts off a torn     *)
(* record (src/src/wal_recovery.cpp), and decode_wal_record tells a torn    *)
(* record from a corrupt one (src/src/wal_record.cpp).                      *)
(*                                                                         *)
(* A record is where it starts, its encoded size and what is wrong with it; *)
(* the bytes themselves matter only through these.  The file is the first   *)
(* length bytes of its records, which follow one another without a gap.     *)
(***************************************************************************)
EXTENDS Integers, Sequences, SequencesExt

CONSTANTS
    HeaderSize,   \* wal_header_size (14)
    ChunkSize,    \* read_chunk_size (64 KiB)
    Sizes,        \* the encoded sizes of records
    Defects,      \* what the medium may do to a record
    MaxRecords    \* bound: how many records the log holds

\* What decode_wal_record finds wrong with the header, and with the rest.
HeaderDefects == {"invalid_magic", "invalid_length"}
BodyDefects   == {"checksum_mismatch", "unsupported_version", "unsupported_record_type",
                  "invalid_payload"}

ASSUME SizesAreNat ==
    /\ Defects \subseteq HeaderDefects \cup BodyDefects
    /\ HeaderSize \in Nat /\ ChunkSize \in Nat \ {0} /\ MaxRecords \in Nat
    /\ Sizes \subseteq Nat
    /\ \A s \in Sizes : s > HeaderSize

VARIABLES
    records,      \* the records in the file, the last one perhaps torn
    length,       \* the file's size
    pc,           \* what the process is doing with the log
    size_bytes,   \* WalWriter::size_bytes_
    begin,        \* file offset of the first byte of replay_wal's buffer
    filled,       \* buffer.size()
    consumed,     \* consumed
    reached_end,  \* reached_end
    result        \* WalReplayResult

file   == <<records, length>>
buffer == <<begin, filled, consumed, reached_end>>
vars   == <<file, pc, size_bytes, buffer, result>>

Record == [at : Nat, size : Sizes, defect : {"none"} \cup Defects]

End(r) == r.at + r.size

NoResult == [records_replayed |-> 0, valid_bytes |-> 0, incomplete_tail_bytes |-> 0]

Init ==
    /\ records = <<>>
    /\ length = 0
    /\ pc = "closed"
    /\ size_bytes = 0
    /\ begin = 0 /\ filled = 0 /\ consumed = 0 /\ reached_end = FALSE
    /\ result = NoResult

\* replay_wal's locals begin and end with its call.
DropBuffer ==
    /\ begin' = 0
    /\ filled' = 0
    /\ consumed' = 0
    /\ reached_end' = FALSE

\* The records of which the first n bytes of the file hold something.
Cut(n) == SubSeq(records, 1, SelectLastInSeq(records, LAMBDA r : r.at < n))

-----------------------------------------------------------------------------
(* WalWriter.                                                              *)

\* append begins to write a record.
BeginAppend(size) ==
    /\ pc = "ready"
    /\ Len(records) < MaxRecords
    /\ records' = Append(records, [at |-> length, size |-> size, defect |-> "none"])
    /\ pc' = "appending"
    /\ UNCHANGED <<length, size_bytes, buffer, result>>

\* write_all: one write() of the loop; with the last one append is done.
WriteSome(n) ==
    /\ pc = "appending"
    /\ length + n <= End(records[Len(records)])
    /\ length' = length + n
    /\ IF length' = End(records[Len(records)])
       THEN pc' = "ready" /\ size_bytes' = length'
       ELSE UNCHANGED <<pc, size_bytes>>
    /\ UNCHANGED <<records, buffer, result>>

\* reset.
Reset ==
    /\ pc = "ready"
    /\ records' = <<>>
    /\ length' = 0
    /\ size_bytes' = 0
    /\ UNCHANGED <<pc, buffer, result>>

\* The log is closed, or the process ends: a record may be left torn, and one
\* of which nothing was written is not there at all.
Close ==
    /\ pc # "closed"
    /\ pc' = "closed"
    /\ records' = Cut(length)
    /\ size_bytes' = 0
    /\ DropBuffer
    /\ result' = NoResult
    /\ UNCHANGED length

\* A fault of the medium damages a record.
Corrupt(i, defect) ==
    /\ pc = "closed"
    /\ records[i].defect = "none"
    /\ records' = [records EXCEPT ![i].defect = defect]
    /\ UNCHANGED <<length, pc, size_bytes, buffer, result>>

\* A program that does not respect the directory lock cuts the log between its
\* replay and its repair; repair_wal_tail runs on, overtaken.
Interfere(n) ==
    /\ pc = "replayed"
    /\ n < length
    /\ records' = Cut(n)
    /\ length' = n
    /\ pc' = "overtaken"
    /\ UNCHANGED <<size_bytes, buffer, result>>

-----------------------------------------------------------------------------
(* replay_wal.                                                             *)

\* The record at the buffer's read position, and how many bytes are there.
Candidate == records[result.records_replayed + 1]
Available == filled - consumed

\* Mutant of Decoded: what the header says is believed only when all is there.
DecodedLate ==
    IF Available < HeaderSize \/ Available < Candidate.size THEN "incomplete_record"
    ELSE Candidate.defect

\* decode_wal_record: the header is judged as soon as it is there, the rest when
\* the whole record is.
Decoded ==
    IF Available < HeaderSize THEN "incomplete_record"
    ELSE IF Candidate.defect \in HeaderDefects THEN Candidate.defect
    ELSE IF Available < Candidate.size THEN "incomplete_record"
    ELSE Candidate.defect

Open ==
    /\ pc = "closed"
    /\ pc' = "replaying"
    /\ UNCHANGED <<file, size_bytes, buffer, result>>

\* A complete record goes to the callback; an emptied buffer starts afresh.
ReplayRecord ==
    /\ pc = "replaying"
    /\ Available > 0
    /\ Decoded = "none"
    /\ result' = [result EXCEPT !.records_replayed = @ + 1,
                                !.valid_bytes = @ + Candidate.size]
    /\ IF consumed + Candidate.size = filled
       THEN /\ begin' = begin + filled
            /\ filled' = 0
            /\ consumed' = 0
       ELSE /\ consumed' = consumed + Candidate.size
            /\ UNCHANGED <<begin, filled>>
    /\ UNCHANGED <<file, pc, size_bytes, reached_end>>

\* WalFormatError with the offset valid_bytes.
RejectRecord ==
    /\ pc = "replaying"
    /\ Available > 0
    /\ Decoded \notin {"none", "incomplete_record"}
    /\ pc' = "refused"
    /\ DropBuffer
    /\ UNCHANGED <<file, size_bytes, result>>

NeedsMore == Available = 0 \/ Decoded = "incomplete_record"

\* Mutants of ReadChunk: the consumed prefix stays in the buffer; a read of
\* nothing at the end of the file is not taken for its end.
ReadChunkKeepsPrefix ==
    /\ pc = "replaying"
    /\ NeedsMore
    /\ ~reached_end
    /\ LET left == length - (begin + filled)
           read == IF left < ChunkSize THEN left ELSE ChunkSize
       IN  /\ filled' = filled + read
           /\ reached_end' = (read < ChunkSize)
    /\ UNCHANGED <<file, pc, size_bytes, begin, consumed, result>>

ReadChunkMissesEnd ==
    /\ pc = "replaying"
    /\ NeedsMore
    /\ ~reached_end
    /\ LET left == length - (begin + filled)
           read == IF left < ChunkSize THEN left ELSE ChunkSize
       IN  /\ begin' = begin + consumed
           /\ filled' = Available + read
           /\ consumed' = 0
           /\ reached_end' = (0 < read /\ read < ChunkSize)
    /\ UNCHANGED <<file, pc, size_bytes, result>>

\* remove_consumed_prefix and read_next_chunk: a read that comes back short has
\* met the end of the file.
ReadChunk ==
    /\ pc = "replaying"
    /\ NeedsMore
    /\ ~reached_end
    /\ LET left == length - (begin + filled)
           read == IF left < ChunkSize THEN left ELSE ChunkSize
       IN  /\ begin' = begin + consumed
           /\ filled' = Available + read
           /\ consumed' = 0
           /\ reached_end' = (read < ChunkSize)
    /\ UNCHANGED <<file, pc, size_bytes, result>>

FinishReplay ==
    /\ pc = "replaying"
    /\ NeedsMore
    /\ reached_end
    /\ pc' = "replayed"
    /\ result' = [result EXCEPT !.incomplete_tail_bytes = Available]
    /\ DropBuffer
    /\ UNCHANGED <<file, size_bytes>>

-----------------------------------------------------------------------------
(* repair_wal_tail, and the writer that the engine opens.                  *)

\* Mutants of Repair: the last replayed record is cut off with the torn one; the
\* size of the file is not compared with what was read.
RepairCutsReplayed ==
    /\ pc \in {"replayed", "overtaken"}
    /\ length = result.valid_bytes + result.incomplete_tail_bytes
    /\ LET n == result.records_replayed
           size == IF result.incomplete_tail_bytes = 0 \/ n = 0 THEN result.valid_bytes
                   ELSE records[n].at
       IN  records' = Cut(size) /\ length' = size /\ size_bytes' = size
    /\ pc' = "ready"
    /\ result' = NoResult
    /\ UNCHANGED buffer

RepairUnchecked ==
    /\ pc \in {"replayed", "overtaken"}
    /\ records' = Cut(result.valid_bytes)
    /\ length' = IF result.incomplete_tail_bytes = 0 THEN length ELSE result.valid_bytes
    /\ size_bytes' = length'
    /\ pc' = "ready"
    /\ result' = NoResult
    /\ UNCHANGED buffer

\* The file has the size that was read: it is cut to the valid bytes, if there
\* is a torn record, and the writer that is opened on it finds that size.
Repair ==
    /\ pc \in {"replayed", "overtaken"}
    /\ length = result.valid_bytes + result.incomplete_tail_bytes
    /\ records' = Cut(result.valid_bytes)
    /\ length' = result.valid_bytes
    /\ size_bytes' = result.valid_bytes
    /\ pc' = "ready"
    /\ result' = NoResult
    /\ UNCHANGED buffer

\* "WAL changed after recovery", or "WAL changed while opening storage engine".
RefuseRepair ==
    /\ pc \in {"replayed", "overtaken"}
    /\ length # result.valid_bytes + result.incomplete_tail_bytes
    /\ pc' = "changed"
    /\ UNCHANGED <<file, size_bytes, buffer, result>>

Replay == ReplayRecord \/ RejectRecord \/ ReadChunk \/ FinishReplay

Next ==
    \/ \E size \in Sizes : BeginAppend(size)
    \/ \E size \in Sizes : \E n \in 1..size : WriteSome(n)
    \/ Reset
    \/ Close
    \/ \E i \in DOMAIN records, d \in Defects : Corrupt(i, d)
    \/ \E n \in 0..length : Interfere(n)
    \/ Open
    \/ Replay
    \/ Repair
    \/ RefuseRepair

Spec == Init /\ [][Next]_vars

\* Opening the log runs on its caller's thread.
FairSpec == Spec /\ WF_vars(Replay) /\ WF_vars(Repair \/ RefuseRepair)

-----------------------------------------------------------------------------
(* Properties.                                                             *)

\* Every variable holds a value of its C++ type.
TypeOK ==
    /\ records \in Seq(Record)
    /\ length \in Nat
    /\ pc \in {"closed", "replaying", "replayed", "overtaken", "refused", "changed", "ready", "appending"}
    /\ size_bytes \in Nat
    /\ begin \in Nat /\ filled \in Nat /\ consumed \in Nat
    /\ reached_end \in BOOLEAN
    /\ result \in [records_replayed : Nat, valid_bytes : Nat, incomplete_tail_bytes : Nat]

\* Reference: a file is what decoding it in one piece, record after record, says.
Complete(i) == End(records[i]) <= length
Good(i)     == Complete(i) /\ records[i].defect = "none"
Visible(i)  == \* the defect of record i can be seen
    \/ records[i].defect \in BodyDefects /\ Complete(i)
    \/ records[i].defect \in HeaderDefects /\ records[i].at + HeaderSize <= length

\* Chunks are invisible: replay accepts a file exactly when its records are good
\* up to a torn tail, and has then replayed all the complete ones; it refuses a
\* file exactly at the first record that is visibly corrupt.
ReplayIsExact ==
    LET n == result.records_replayed
    IN  /\ pc = "replayed" =>
              /\ \A i \in 1..n : Good(i)
              /\ \A i \in DOMAIN records : i > n => i = Len(records) /\ ~Complete(i) /\ ~Visible(i)
              /\ result.valid_bytes = IF n = 0 THEN 0 ELSE End(records[n])
              /\ result.valid_bytes + result.incomplete_tail_bytes = length
        /\ pc = "refused" =>
              /\ \A i \in 1..n : Good(i)
              /\ n + 1 \in DOMAIN records
              /\ Visible(n + 1)
              /\ result.valid_bytes = records[n + 1].at

\* The buffer never holds more than one incomplete record and one chunk, however
\* large the log.
BufferIsBounded ==
    \E s \in Sizes \cup {HeaderSize} : filled < s + ChunkSize

\* Only reset removes a complete record from the log: no crash, torn write,
\* replay or repair does, even if replay and repair are interrupted.
CompleteRecordsStay ==
    [][\A i \in DOMAIN records :
          Complete(i) => \/ Reset
                         \/ \E n \in 0..length : Interfere(n)
                         \/ i \in DOMAIN records' /\ Complete(i)']_vars

\* An open log consists of sound records and nothing else, and the writer knows
\* its size: the next record begins where replay will look for it.  A log that
\* another program cut in the meantime is not opened.
ReadyForAppend ==
    pc = "ready" =>
        /\ size_bytes = length
        /\ length = IF records = <<>> THEN 0 ELSE End(records[Len(records)])
        /\ \A i \in DOMAIN records : records[i].defect = "none"

\* Opening the log comes to an end: it is refused or ready.
ReplayEnds == pc = "replaying" ~> pc \in {"refused", "changed", "ready", "closed"}

=============================================================================
