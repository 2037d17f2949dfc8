----------------------------- MODULE DatabaseFile -----------------------------
(***************************************************************************)
(* One file of the database directory, byte by byte: the log, which grows  *)
(* by appended records (wal_file.cpp), or a segment or the manifest, which *)
(* atomic_write_file (file_io.cpp) replaces as a whole.  The file is       *)
(* written, the writer fails, the process or the machine stops, and what   *)
(* is left is decoded again when the database is opened.                   *)
(*                                                                         *)
(* The n-th write of a behaviour writes something that tells n, so that    *)
(* what is read can be compared with what was written.                     *)
(***************************************************************************)
EXTENDS Codec

CONSTANTS
    Kinds,      \* which files: a subset of {"wal", "segment", "manifest"}
    Inputs,     \* Inputs[kind][n]: what the n-th write writes
    Bursts      \* the patterns of adjacent flipped bits, as sequences of 0 and 1

MaxWrites == Len(Inputs.wal)  \* bound: how many writes a behaviour makes

ASSUME InputsAreWrites == \A kind \in Kinds : Len(Inputs[kind]) = MaxWrites
\* No burst is longer than the checksum.
ASSUME BurstsAreShort == \A b \in Bursts : Len(b) <= U32 * ByteBits

VARIABLES
    kind,      \* which file this is
    phase,     \* "closed", "ready", "failed" or "refused"
    pc,        \* the next step of the write in progress
    file,      \* the bytes of the file as the process sees them
    durable,   \* the bytes a power loss would leave
    temporary, \* "none", or how far path.tmp is written
    synced,    \* are the bytes under the name path.tmp, and under path, durable?
    loaded,    \* what opening the file returned, and the writes since
    contents,  \* contents[n]: what the file should hold once the n-th write is done
    promised,  \* the last write that was promised to be durable
    damaged,   \* has the medium flipped bits of the file?
    held       \* the write whose content the undamaged file holds

vars == <<kind, phase, pc, file, durable, temporary, synced, loaded, contents, promised,
          damaged, held>>

\* There is no file: unlike the empty one, nothing that a file can hold.
NoFile == <<-1>>

Atomic == kind # "wal"

\* What a file that does not exist stands for.
Nothing == IF kind = "manifest"
           THEN [generation |-> 0, logical_sample_count |-> 0, segment_files |-> <<>>]
           ELSE <<>>

Encoded(content) == IF kind = "manifest" THEN encode_manifest(content) ELSE encode_segment(content)

\* The encoders throw std::length_error, or the state to write is refused.
Fits(input) ==
    CASE kind = "wal"      -> FitsWal(input)
      [] kind = "segment"  -> /\ validate_blocks(input)
                              /\ \A i \in DOMAIN input : FitsBlock(input[i])
                              /\ FitsIndex(input)
      [] kind = "manifest" -> FitsManifest(input)

\* replay_wal, over the whole file at once: WalReplay has its chunks.
replay_wal(bytes) ==
    LET ends(p)      == [ok |-> TRUE, content |-> <<>>, valid |-> p]
        add(v, rest) == IF rest.ok THEN [rest EXCEPT !.content = <<v>> \o @] ELSE rest
        from[p \in Nat] ==
            LET next(d) == IF d.ok THEN add(d.value, from[p + d.consumed])
                           ELSE IF d.error = "incomplete_record" THEN ends(p) ELSE d
            IN  IF p = Len(bytes) THEN ends(p)
                ELSE next(decode_wal_record(SubSeq(bytes, p + 1, Len(bytes))))
    IN  from[0]

\* The segment is opened and every block read.
read_segment(bytes) ==
    LET content(blocks) ==
            IF \A i \in DOMAIN blocks : blocks[i].ok
            THEN [ok |-> TRUE, content |-> [i \in DOMAIN blocks |-> blocks[i].value],
                  valid |-> Len(bytes)]
            ELSE Failed("invalid_segment")
        opened(index) ==
            IF index.ok
            THEN content([i \in DOMAIN index.value |-> read_block(bytes, index.value[i])])
            ELSE index
    IN  opened(open_segment(bytes))

load_manifest(bytes) ==
    LET loaded_from(m) ==
            IF m.ok THEN [ok |-> TRUE, content |-> m.value, valid |-> Len(bytes)] ELSE m
    IN  loaded_from(decode_manifest(bytes))

Read(bytes) ==
    IF bytes = NoFile THEN [ok |-> TRUE, content |-> Nothing, valid |-> 0]
    ELSE CASE kind = "wal"      -> replay_wal(bytes)
           [] kind = "segment"  -> read_segment(bytes)
           [] kind = "manifest" -> load_manifest(bytes)

\* The number of the write that a content comes from, 0 for none, and a number
\* that no write has for anything that was never written.
Origin(content, written) ==
    IF content = Nothing THEN 0
    ELSE LET same == {n \in DOMAIN written : written[n] = content}
         IN  IF same = {} THEN MaxWrites + 1 ELSE Max(same)

Holds(bytes, written) ==
    LET origin(r) == IF r.ok THEN Origin(r.content, written) ELSE MaxWrites + 1
    IN  origin(Read(bytes))

\* held is there for the properties only: it follows the file.
Track == held' = IF damaged' THEN held ELSE Holds(file', contents')

Init ==
    /\ kind \in Kinds
    /\ phase = "closed"
    /\ pc = "none"
    /\ file = NoFile
    /\ durable = NoFile
    /\ temporary = "none"
    /\ synced = [temporary |-> TRUE, file |-> TRUE]
    /\ loaded = Nothing
    /\ contents = <<>>
    /\ promised = 0
    /\ damaged = FALSE
    /\ held = 0

-----------------------------------------------------------------------------
(* Opening.                                                                *)

\* What was read is used, a log that is not there created and an incomplete last
\* record cut off it, durably; or the database does not open.  That the entry of a new
\* log may be lost from the directory is left to StorageEngine.
Opened(r) ==
    \/ /\ r.ok
       /\ phase' = "ready"
       /\ loaded' = r.content
       /\ file' = IF Atomic THEN file ELSE SubSeq(file, 1, r.valid)
       /\ durable' = IF ~Atomic /\ r.valid < Len(file) THEN file' ELSE durable
    \/ /\ ~r.ok
       /\ phase' = "refused"
       /\ UNCHANGED <<loaded, file, durable>>

\* The temporaries of segments are removed, unless that fails, which is ignored.
Open ==
    /\ phase = "closed"
    /\ Opened(Read(file))
    /\ \/ UNCHANGED temporary
       \/ kind = "segment" /\ temporary' = "none"
    /\ UNCHANGED <<kind, pc, synced, contents, promised, damaged>>
    /\ Track

-----------------------------------------------------------------------------
(* The log: WalWriter::append and sync.                                    *)

Idle == phase = "ready" /\ pc = "none" /\ ~damaged

Input == Inputs[kind][Len(contents) + 1]

\* Some bytes of the record are written.
BeginAppend ==
    /\ Idle
    /\ ~Atomic
    /\ Len(contents) < MaxWrites
    /\ Fits(Input)
    /\ contents' = Append(contents, Append(loaded, Input))
    /\ LET record == encode_wal_record(Input)
       IN  \E n \in 0 .. Len(record) - 1 : file' = file \o SubSeq(record, 1, n)
    /\ pc' = "append"
    /\ UNCHANGED <<kind, phase, durable, temporary, synced, loaded, promised, damaged>>
    /\ Track

\* The others follow.
EndAppend ==
    /\ phase = "ready"
    /\ pc = "append"
    /\ loaded' = Last(contents)
    /\ file' = SubSeq(file, 1, Read(file).valid) \o encode_wal_record(Last(loaded'))
    /\ pc' = "none"
    /\ UNCHANGED <<kind, phase, durable, temporary, synced, contents, promised, damaged>>
    /\ Track

SyncLog ==
    /\ Idle
    /\ ~Atomic
    /\ durable' = file
    /\ promised' = Origin(loaded, contents)
    /\ UNCHANGED <<kind, phase, pc, file, temporary, synced, loaded, contents, damaged>>
    /\ Track

-----------------------------------------------------------------------------
(* Segments and the manifest: atomic_write_file.                           *)

\* path.tmp is opened and truncated, whatever an earlier write left in it.
\* Nothing ever reads it, so its bytes are left out until they are complete.
OpenTemporary ==
    /\ Idle
    /\ Atomic
    /\ Len(contents) < MaxWrites
    /\ Fits(Input)
    /\ contents' = Append(contents, Input)
    /\ temporary' = "partial"
    /\ synced' = [synced EXCEPT !.temporary = FALSE]
    /\ pc' = "write"
    /\ UNCHANGED <<kind, phase, file, durable, loaded, promised, damaged>>
    /\ Track

WriteTemporary ==
    /\ phase = "ready"
    /\ pc = "write"
    /\ temporary' = "complete"
    /\ pc' = "sync"
    /\ UNCHANGED <<kind, phase, file, durable, synced, loaded, contents, promised, damaged>>
    /\ Track

\* Mutant of SyncTemporary: the file is only flushed to the operating system.
SyncTemporaryNot ==
    /\ phase = "ready"
    /\ pc = "sync"
    /\ pc' = "rename"
    /\ UNCHANGED <<kind, phase, file, durable, temporary, synced, loaded, contents, promised,
                   damaged>>
    /\ Track

\* sync_file.
SyncTemporary ==
    /\ phase = "ready"
    /\ pc = "sync"
    /\ synced' = [synced EXCEPT !.temporary = TRUE]
    /\ pc' = "rename"
    /\ UNCHANGED <<kind, phase, file, durable, temporary, loaded, contents, promised, damaged>>
    /\ Track

\* replace_file: rename ...
Rename ==
    /\ phase = "ready"
    /\ pc = "rename"
    /\ file' = Encoded(Last(contents))
    /\ temporary' = "none"
    /\ synced' = [temporary |-> TRUE, file |-> synced.temporary]
    /\ pc' = "directory"
    /\ UNCHANGED <<kind, phase, durable, loaded, contents, promised, damaged>>
    /\ Track

\* ... and fsync of the directory.
SyncDirectory ==
    /\ phase = "ready"
    /\ pc = "directory"
    /\ durable' = IF synced.file THEN file ELSE durable
    /\ loaded' = Last(contents)
    /\ promised' = Len(contents)
    /\ pc' = "none"
    /\ UNCHANGED <<kind, phase, file, temporary, synced, contents, damaged>>
    /\ Track

-----------------------------------------------------------------------------
(* Failures and faults.                                                    *)

\* A call throws, an encoder that refuses its input included; the engine then
\* refuses every operation.
Fail ==
    /\ phase = "ready"
    /\ ~damaged
    /\ phase' = "failed"
    /\ pc' = "none"
    /\ UNCHANGED <<kind, file, durable, temporary, synced, loaded, contents, promised, damaged>>
    /\ Track

\* The database is closed or the process dies.
Stop ==
    /\ phase # "closed"
    /\ phase' = "closed"
    /\ pc' = "none"
    /\ loaded' = Nothing
    /\ UNCHANGED <<kind, file, durable, temporary, synced, contents, promised, damaged>>
    /\ Track

\* Of a log some of the bytes behind the durable ones are left.  Of a published
\* file the old or the new bytes are left; of new bytes that nobody synchronized,
\* any prefix.
AfterPowerLoss ==
    IF ~Atomic THEN {SubSeq(file, 1, n) : n \in Len(durable)..Len(file)}
    ELSE {durable} \cup (IF synced.file THEN {file} ELSE {SubSeq(file, 1, n) : n \in 0..Len(file)})

PowerLoss ==
    /\ ~damaged
    /\ phase' = "closed"
    /\ pc' = "none"
    /\ loaded' = Nothing
    /\ file' \in AfterPowerLoss
    /\ durable' = file'
    /\ temporary' \in {temporary, "none"}
    /\ synced' = [temporary |-> TRUE, file |-> TRUE]
    /\ UNCHANGED <<kind, contents, promised, damaged>>
    /\ Track

\* The bytes with the bits of burst flipped, from the given bit on, the low bit
\* of a byte first.
Flipped(bytes, at, burst) ==
    LET bit(i, j) == (i - 1) * ByteBits + j - at
        flip(i, j) == bit(i, j) \in DOMAIN burst /\ burst[bit(i, j)] = 1
        sum(i) == LET s[j \in 0..ByteBits] ==
                        IF j = 0 THEN 0
                        ELSE s[j - 1] + 2 ^ (j - 1) *
                               (((bytes[i] \div 2 ^ (j - 1)) + IF flip(i, j) THEN 1 ELSE 0) % 2)
                  IN  s[ByteBits]
    IN  [i \in 1..Len(bytes) |-> sum(i)]

\* The medium damages the file at rest: one burst of adjacent bits.  What follows
\* is only whether the damage is found.
Damage ==
    /\ phase = "closed"
    /\ ~damaged
    /\ file # NoFile
    /\ damaged' = TRUE
    /\ \E burst \in Bursts : \E at \in 0 .. Len(file) * ByteBits - Len(burst) :
          file' = Flipped(file, at, burst)
    /\ UNCHANGED <<kind, phase, pc, durable, temporary, synced, loaded, contents, promised>>
    /\ Track

Next ==
    \/ Open
    \/ BeginAppend \/ EndAppend \/ SyncLog
    \/ OpenTemporary \/ WriteTemporary \/ SyncTemporary \/ Rename \/ SyncDirectory
    \/ Fail \/ Stop \/ PowerLoss \/ Damage

Spec == Init /\ [][Next]_vars

-----------------------------------------------------------------------------
(* Properties.                                                             *)

Store == INSTANCE DurableStore
         WITH Keys <- {"file"}, Values <- 1..MaxWrites, MayLose <- TRUE,
              store <- [k \in {"file"} |-> held],
              promised <- [k \in {"file"} |-> promised]

\* A file changes from one written content to the next all at once, judged by what
\* decoding its bytes returns: no crash between the steps of a write shows a
\* mixture or something never written, and a power loss goes back to a written
\* content that is at least as new as the promised one.
WritesAreAtomic == Store!Spec

\* Torn appends, leftover temporaries, failures, crashes and power losses never
\* leave a file that the next start refuses.
OnlyDamageRefuses == phase = "refused" => damaged

\* Whatever the damaged bits were part of, opening the file either refuses or
\* returns exactly what was there before: damage is never taken for other
\* content, nor, in the log, a complete record for a torn one to be cut off.
DamageIsDetected ==
    damaged /\ phase = "ready" => Origin(loaded, contents) = held

=============================================================================
