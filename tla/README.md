# ChronoStore in TLA+

ChronoStore is an embedded time-series database written in C++ (`src/`). This
directory models the part of it that must not go wrong: what is in memory, what
is in the files, what is on the disk, and how they stay consistent over
mutations, failures, process crashes and power losses. TLC checks the models on
small instances; TLAPS proves the safety properties of the storage engine, its
callers, the log's replay, the queries over blocks, the ownership of the
directory and the graphical tool's panel for every value of the constants. The
byte formats of the files are modelled and model-checked.

## 1. Inventory of the system

| component | state | operations | talks to |
|---|---|---|---|
| `Database` (`database.cpp`) | owner of a lock and an engine; flush threshold | open, put (+ automatic flush), sync, flush, compact, reads, move | lock, engine |
| `DatabaseLock` (`database_lock.cpp`) | an `flock` on `LOCK` | acquire without waiting, release | operating system |
| `StorageEngine` (`storage_engine.cpp`) | memtable, manifest, open readers, WAL writer, logical sample count, `failed_`, a `shared_mutex` | recover, put, sync, flush, compact, get, latest, range, series, counters | everything below |
| `MemTable` (`memtable.cpp`) | series -> timestamp -> value | put, get, latest, range, snapshot, clear | engine |
| `WalWriter` (`wal_file.cpp`) | a descriptor, the file size | append, sync, reset, close | engine, OS |
| WAL recovery (`wal_recovery.cpp`) | the unread bytes of a chunked read | replay, repair of the tail | engine, record codec |
| manifest (`manifest.cpp`) | generation, logical count, live segments | load, store | engine, atomic file |
| segments (`segment_file.cpp`, `segment_block*.cpp`) | blocks, sparse index, header, footer | write, open, get, latest, range, blocks | engine, atomic file |
| atomic file (`file_io.cpp`) | a `.tmp` file | write, fsync, rename, fsync of the directory | OS |
| codecs (`byte_codec.cpp`, `wal_record.cpp`, `crc32c.cpp`, ...) | none | encode, decode | WAL, segments, manifest |
| ChronoView (`tools/chronoview`) | a `Database`, series and counts read from it, a selected index, the text of the series editor | open, close, refresh, select, put, query, demo, sync, flush, compact | `Database`, other programs through the directory |
| command line tool | a `Database` for one command | put, reads, sync, flush, compact | `Database` |
| benchmark, example | none of their own | fixed sequences of calls | `Database` |

Interactions. Every engine call takes `mutex_`: mutations exclusively, reads
shared. A mutation changes files first and memory afterwards; any exception in
between sets `failed_`, after which only destruction is possible. `Database::put`
is three critical sections (put, read of the memtable's size, flush). Opening
takes the directory lock and then runs recovery, which itself changes files.

What is hard, and what makes each part right:

* *engine, WAL, manifest, segments together*: a crash or a power loss between
  any two file operations of put, flush, compact or recovery. Acknowledged
  puts must survive, a sample must be counted once although it may be in the
  log and in several segments, the newest value must win, a manifest must
  never name a missing segment, a live segment must never change, and the
  database must open again.
* *database and lock*: concurrent callers between the critical sections of
  `put`; two processes opening one directory.
* *WAL recovery*: a torn last record against a corrupt one, records across
  chunk boundaries, the limits of lengths read from the file.
* *segments*: boundaries of blocks in index lookups; agreement of the sparse
  index with the blocks.
* *codecs*: a torn record against a damaged one, damage anywhere in a file, the
  limits of one format against those of the next, signed and unsigned widths.
* *ChronoView*: what it read from the database against what other programs and
  its own failing operations did since; a selection kept as an index and
  addressed through text, of which a demo or an opening that throws half way sets
  only one; its ways to end while it holds the lock.

`PROJECT.json` lists the hazards line by line.

## 2. Modules and order of work

Most important behaviour first: the engine and its files over crashes, then
the callers, the ownership of the directory, the two algorithms whose
details the engine model abstracts, the bytes below all of them, and the
programs above.

| module | models | builds on |
|---|---|---|
| `DurableStore` | what the engine promises: a value per key, a promised value per key, writes, promises, and losses that never reach below a promise | |
| `StorageEngine` | `storage_engine.cpp` with log, manifest, segments and atomic publication, one action per file operation | `INSTANCE DurableStore` |
| `Database` | threads calling put, get, sync, flush and compact through `database.cpp` and `mutex_` | `EXTENDS StorageEngine` |
| `DatabaseOwnership` | `DatabaseLock`, construction, move and destruction of `Database` | |
| `WalReplay` | append, chunked replay and tail repair over byte positions | |
| `Lists` | the members of a set in order, as a loop over a `std::map` meets them | |
| `SegmentReads` | blocks, sparse index, validation, get, latest, range, series, compaction | `EXTENDS Lists` |
| `Codec` | the value types, `ByteWriter`/`ByteReader`, the checksum, and the encoders and decoders of log records, blocks, segments and the manifest, as operators | |
| `DatabaseFile` | one file, byte by byte: `WalWriter::append`, `atomic_write_file`, opening, crashes, damage | `EXTENDS Codec`, `INSTANCE DurableStore` |
| `ChronoView` | `GuiState` and its handlers, and the other programs that use the directory | `EXTENDS DatabaseOwnership`, `Lists` |
| `StorageEngineInvariants` | the inductive invariants of the engine | `StorageEngine` |
| `StorageEngineProofs`, `FilesProofs` | lemmas about the operators and theorems about the engine, one layer on the other | the invariants |
| `DatabaseProofs` | theorems about concurrent callers | `Database`, `FilesProofs` |
| `OwnershipProofs` | theorems about ownership and about ChronoView | `ChronoView`, `ListLemmas` |
| `WalReplayProofs` | theorems about append, replay and repair | `WalReplay` |
| `ListLemmas` | induction, and lemmas about ordered sets and flattened sequences | `Lists` |
| `SegmentLemmas` | lemmas about split sequences, and about the blocks and the index of a file | `SegmentReads`, `ListLemmas` |
| `SegmentReadsProofs` | theorems about get, latest, range, series, flush and compact | `SegmentLemmas` |
| `MC*` | model values, symmetry sets, the assignment of variables to processes | |

### How state and actions correspond to the code

**StorageEngine.** `memtable`, `manifest`, `segments` (open readers) and the
logical count are the members of `StorageEngine::Impl`; `phase` is how far
`recover()` came, or `failed_`; `step` is the file operation the running
mutation comes to next. `wal` and `dir` are what the process sees in the files,
`dwal` and `ddir` what a power loss would leave. `Recover` is five steps
(manifest, sweep, creation of the log, replay, its fsync); `put` is
`PutBegin` (a first piece of the record is written), `PutWrite`, `PutSync`;
flush and compact go through `WriteTemporary`, `PublishSegment`, `SyncSegment`,
`PublishManifest`, `InstallManifest`, and for flush `TruncateWal` and
`ResetWal`. `Fail` may strike between any two; `Stop` ends the process anywhere,
and `PowerLoss` also replaces the files by the durable ones. The durability mode is
chosen at every opening from the constant `Durabilities`, as in the code, where
it is an option of the constructor and not a property of the directory. `WriteBack` is the
operating system, which may make files durable earlier than asked. A value is
the number of the put that wrote it, so "newer" is "larger", and a key is a
`(series, timestamp)` pair. `floor` is a history variable: the newest value per
key that a returned call made durable, which is what the documentation promises.

**Database.** `thread[t]` is where a call is; `told[k]` is the newest value that
a caller has been told (a power loss takes it back to `floor`), `low` the value of `told` when a get began.
The shared mutex is not a variable: it is held exclusively in the stages
`Exclusive` and shared in `Shared`, and a call starts only when the code's lock
would be granted. `put` gives the lock up twice, so `ReadSize` and `AutoFlush`
are steps of their own and other threads' calls fit between them; `AutoFlush`
does nothing on an empty memtable, as in `flush`. A get looks at the memtable
and then at one segment after the other, keeping the lock.

**DatabaseOwnership.** `stage[i]` follows an `Impl` from the open of `LOCK` to
its release, in the order of construction and of member destruction;
`impl[h]` is the `unique_ptr` of a `Database` variable, and `flock` says whose
descriptor holds the lock. `Exit` ends a process,
which releases its locks.

**WalReplay.** The file is a sequence of records with positions, a `length` (a
torn write stops anywhere), and at most the defects the decoder tells apart.
`filled` and `consumed` are the bounds of the replay buffer. `Interfere` is
another process writing to the file between replay and repair, which
`repair_wal_tail` guards against.

**SegmentReads.** A segment is the blocks of its samples and an index with
offsets and sizes, computed as the writer does; readers use the index only. The
writer refuses what exceeds a limit, as in the code: too many blocks
(`validate_blocks`), a block that is too large (`encode_segment_block`), an index
that is (`encode_index`). A sample takes one unit of size, a series key
`KeySize`, and the log is taken to have accepted every record, so a flush meets
the limits with what several samples or series need together.
`DamageBlock` makes a block undecodable or puts another in its place,
`DamageEnvelope` damages header, footer or index. `written` holds what was put, the
reference for every query. A `std::map` is a function from keys to values, and
walking through it takes them in the sequence `Ordered`; `Assigned` is what is
left at a key after a loop of assignments. `LowerBound` is `std::lower_bound` and,
with the test negated, `std::upper_bound`.

**Codec and DatabaseFile.** A byte has `ByteBits` bits, and the widths are
scaled: `U8` and `U16` take one byte, `U32` and `U64` two. Field
order, little-endian order, magic numbers, the inverted length, what a checksum
covers, the limits and the checks of the decoders are the code's, except the
comparisons made only before memory is reserved. The checksum is the code's loop with a polynomial of the reduced width;
like CRC32C, it finds every burst not longer than itself.
`kind` is the file a behaviour is about; `file` holds its bytes, `durable` what
a power loss leaves at least. An append is two steps, so that the
process may stop after any byte; `atomic_write_file` is five: open, write,
fsync, rename, fsync of the directory. `Open` decodes the bytes with the
operators of `Codec`, creates a log that is missing and cuts a torn record off
the log; `NoFile`, a missing file, is not the empty one. `Damage` flips a burst
of bits of a closed file. The n-th write writes something that tells n, and
`held` is the number of the write whose content decoding the undamaged file returns.

**ChronoView.** `known_series`, `selected_series`, `stats`, `text` and
`status_is_error` are the members of `GuiState`. Every step that constructs or
destroys a `Database` is a conjunction with the action of `DatabaseOwnership`
that does so, which is why the theorems about ownership apply here too. The
engine is reduced to what its callers see: the stored keys, split into flushed
and not, calls that fail it for good, and calls that throw and do not.
A handler runs in one step, because ChronoView has one thread and holds the lock
meanwhile; opening and destruction take several, since the lock is
what other programs meet. The texts are sequences of characters, and
`parse_tags`, `encode_tags` and `set_text` are modelled by what they do.
`chosen`, `text_from` and `cut_short` are history variables for the properties:
the series selected last, whether the text comes from a selection, the user or
the demo, and whether an operation threw half way.

### The durable directory

The constant `JournaledDirectory` chooses what an fsync does besides its file:

* `TRUE`: the file system persists directory operations in order, and any fsync
  persists all earlier ones, as the usual journaling file systems do.
* `FALSE`: what POSIX promises. Only an fsync of the directory makes its
  entries durable; before it any of them may, in any order.

`PowerLossPossible = FALSE` leaves process crashes only.

## 3. Runs

| run | question | instance |
|---|---|---|
| `power_loss` | With sync-on-append and power losses: do acknowledged puts survive, do memory, files and counts agree, can every start succeed, do live segments stay? | 2 keys, 3 puts, 3 generations, journaled directory |
| `reopened_in_either_mode` | Each opening in its own durability mode, with crashes and power losses: does the engine implement `DurableStore`, does only a power loss take a put back or let the log hide a newer flushed value, and does recovery complete once crashes end? | 2 keys, 2 puts, 3 generations, no symmetry (liveness) |
| `posix_directory` | When directory entries become durable in any order: are the counts still exact, and does the durable generation still never go back? | 2 puts, 3 generations |
| `wal_entry_lost`, `orphan_swept_early`, `stale_log_replayed` | Violations, see section 4. | 2 puts |
| `concurrent_callers` | Are gets linearizable and free of failures, and do callers only do what the engine specification allows, with failures, restarts and power losses? | 2 threads, 2 keys, 2 puts, threshold 2, 3 generations |
| `automatic_flush` | Is the memtable below the threshold whenever no put is running, and does every call return? | 3 threads, 3 puts, no restarts |
| `wal_replay` | Is chunked replay the same as decoding the file in one piece, in bounded memory, and does repair cut a torn record only? | header 2, chunk 3, records of 3, 4, 5 and 7 bytes, 3 records, 4 defects |
| `segment_reads` | Do get, latest, range and series return what was written, or throw where a block is damaged? Does flush or compact fail without damage only on a limit of size? | 2 series, a large and a small one, 3 timestamps, blocks of 2, at most 2 blocks, 4 puts, 3 segments, 1 fault |
| `file_bytes` | Does every write of a log, a segment and a manifest take effect at once, judged by decoding its bytes? Is only a damaged file refused, and is damage never taken for other content? | 3 writes per file, 3-bit bytes, 6-bit checksum, bursts of 1 to 6 bits at every position |
| `chronoview` | One engine per directory, each `Impl` owned once, no lock left behind; does ChronoView show and address the database as it is? | ChronoView and a program with 2 variables, 2 `Impl`s, 4 series, 3 samples, 1 damaged block |

Why the bounds are enough to be interesting. Two keys and three puts overwrite
one key in memory, in the log and in a segment while another key is untouched.
Three generations allow two flushes and a compaction of both, a flush after a
compaction, and the refusal at the last generation, which is also where the
code's check of the generation number bites. The number of crashes is not
bounded: every run with crashes explores recovery interrupted at each step, any
number of times. Two threads with a threshold of two let one thread flush what
the other counted; three are needed for a put to slip between another's put and
its flush while a third one compacts. Records of a header plus 1 to 5 bytes are
shorter than, equal to and longer than one chunk, and cross one or two
boundaries. Query times 0 and 4 lie before and after all samples; three
samples in blocks of two put a block boundary inside a series, and two samples
that are not adjacent leave a gap inside a block. The limits of `segment_reads`
let each series fill a segment alone or share one, and are exceeded by a full
block of the large series (block payload) and by three blocks (block count), by a
flush, and by a compaction of segments that were each small enough; the limit of the
index is met exactly and never exceeded alone.

In `file_bytes` the inputs have a series without tags and one with several,
timestamps of both signs, one and two blocks, up to three manifest entries, a log
record exactly at the limit of its size and, for each file, an input beyond a
limit. The limits of a log record, a block and the manifest are constants of
their own, equal as in the code, and that of an index is larger. In `chronoview`
the four series are the one of the demo, one too long for the editor, one with
two tags that the user types in another order, and one whose tag value holds the
comma that separates tags. Two `Impl`s are enough for an open
database and an attempt, or for a destruction and the next opening.

Symmetry is over keys, and over threads in `concurrent_callers`; no property and
no action distinguishes them. An idle thread's record holds a fixed key, which
nothing reads before the next call overwrites it. Runs with a liveness property
use no symmetry.

`automatic_flush` says `CHECK_DEADLOCK FALSE`: without restarts, the run really
ends when the puts and the generations are used up. It has no restarts because
recovery does not flush: a restart may leave a memtable above the threshold
until the next put.

### Fairness

* `WF(Recover)`: recovery runs on the thread that constructs the engine and waits
  for no one.
* `WF(Continue(t))` per thread: the scheduler runs a thread that is not blocked.
  `std::shared_mutex` does not promise a writer its turn against an endless
  stream of readers, so `EveryCallReturns` is under the premise `ReadsEnd`. Nor
  does it promise a thread its turn against an endless stream of writers; this
  is excluded by the bounds on puts and generations, after which no writer comes.
* `WF(ViewAdvance(i))` in `ChronoView`: constructors and destructors of
  `Database` continue, in whichever program.
* `WF(Replay)` and `WF(Repair \/ RefuseRepair)`: the loops of recovery continue.

Nothing is fair about callers, users, crashes or write-back.

## 4. Where the code and its documentation disagree

1. `wal_entry_lost` (file system that persists entries by directory fsync only).
   `recover` creates `chronostore.wal` and synchronizes the file, never the
   directory. A power loss before the first flush can remove the log with all
   acknowledged sync-on-append puts. `docs/architecture.md:96-97` promises them.
2. `orphan_swept_early` (same file system). A process dies between the rename of
   `MANIFEST` in compact and the fsync of the directory; the next recovery
   trusts the new manifest and removes the old segments at once; a power loss
   may then bring back the old manifest without its segments, and the database
   does not open again. `docs/architecture.md:221-222` calls the new manifest
   authoritative.
3. `stale_log_replayed` (any file system). Flush does not synchronize the log
   before it publishes the segment. If the log holds records that the disk does
   not, a power loss before the reset of the log is durable leaves an older
   prefix of it, and its replay hides the newer flushed value.
   `README.md:34-35` and `158-159` say that the newest value wins and that this
   window is safe. The value that shows up again is never older than what was
   promised: `PromisesKept` holds in the same situations.

## 5. What is proved

All theorems hold for any finite set of keys, any number of puts, generations,
threads, processes and variables, any sizes of records, chunks and headers, and
any series. Assumptions on constants: `KeysFinite`,
`BoundsAreNat`, `DurabilitiesAreModes`, `SwitchesAreBoolean` (engine); `KeysExist`, `ThresholdIsNat`,
`StopIsBoolean` (database); `HandlesHaveProcesses` (ownership); `GuiHasOneHandle`,
`DemoIsSeries`, `SeriesAreKeys` (ChronoView: what the constructors of `Tag` and `SeriesKey` accept); `SizesAreNat` (log); `ReadBounds` (segments: series
are numbers, as many and as large as one likes, blocks hold at least one sample,
and the limits are numbers). Theorems marked
*J* also assume `JournaledDirectory`; the violations above show why. All others
about the engine hold on a POSIX directory too.

| theorem | statement |
|---|---|
| `StorageEngineProofs!TypeCorrect` | `Spec => []TypeOK` |
| `StorageEngineProofs!MemoryIsRecoverable` | an idle engine answers exactly what a restart would recover |
| `StorageEngineProofs!DurableGenerationIsMonotonic` | the durable manifest's generation never goes back |
| `StorageEngineProofs!NoSegmentIsMissing` *J* | neither manifest names a missing segment |
| `StorageEngineProofs!LiveSegmentsNeverChange` *J* | a segment the durable manifest names does not change |
| `StorageEngineProofs!PromisesAreKept` *J* | nothing promised is lost |
| `StorageEngineProofs!EngineImplementsStore` *J* | the engine implements `DurableStore`, with `store <- Recovered(wal, dir)` and `promised <- floor` |
| `FilesProofs!OnlyPowerLossTakesBack` | no step but a power loss lets a restart recover less than before |
| `FilesProofs!OnlyPowerLossMakesStale` | no step but a power loss lets the log hide a newer flushed value |
| `FilesProofs!CountsStayExact` | the counts are those of the unique keys, so compact never finds them contradicted |
| `FilesProofs!NoStartIsRefused` *J* | recovery accepts whatever crashes and power losses leave |
| `DatabaseProofs!CallersDriveEngine` | callers only make the engine's own steps |
| `DatabaseProofs!ReadsAreLinearizable` | a get returns nothing older than what a call returned before it began (*J*, or no power loss) |
| `DatabaseProofs!NoReadFails` | no get meets a removed segment |
| `DatabaseProofs!AutomaticFlushIsNotLost` | below the flush threshold whenever no put is running (no restart) |
| `OwnershipProofs!OnlyOneEngine`, `EveryImplOwnedOnce` | one engine per directory, one owner per `Impl` |
| `OwnershipProofs!ProgramsKeepToOwnership` | ChronoView and the programs beside it implement `DatabaseOwnership` |
| `OwnershipProofs!PanelIsCurrent` | the panel shows the series and counts of the database, unless an operation was cut short |
| `OwnershipProofs!SelectionStays` | the selected index names the series chosen last |
| `OwnershipProofs!EditorFollowsSelection` | until the user types, the text in the editor denotes the highlighted series, if that fits the editor and no tag contains the separators; after a demo that threw, the demo's series |
| `WalReplayProofs!WalTypes` | types of the log, the buffer and the result |
| `WalReplayProofs!ChunksAreInvisible` | chunked replay accepts and refuses what one decoding of the whole file would |
| `WalReplayProofs!ReplayBufferIsBounded` | the buffer holds at most one incomplete record and one chunk |
| `WalReplayProofs!LogIsReadyForAppend` | an open log is sound to its end, which is where the writer appends |
| `WalReplayProofs!OnlyResetRemoves` | only reset, or another program, removes a complete record |
| `SegmentReadsProofs!ReadsInvariant` | every segment is, but for counted damage, the file of a table, and the tables with memory on top make up what was written |
| `SegmentReadsProofs!GetIsExactAlways`, `LatestIsExactAlways`, `RangeIsExactAlways` | a query returns the newest values of exactly what it is asked for, or throws because a block is damaged |
| `SegmentReadsProofs!SeriesAreExactAlways` | series names exactly the series with samples, damage or not |
| `SegmentReadsProofs!DamageIsContainedAlways` | a damaged block fails only the gets it could have answered |
| `SegmentReadsProofs!OnlyDamageOrSizeFailsAlways` | what flush and compact write is accepted when it is read back: without damage they fail only on a limit of size, and no restart is refused |

The argument. None of the properties is inductive; the invariants of
`StorageEngineInvariants` are layered so that each layer's proof uses the ones
below only.

* `TypeInv`: types.
* `MemoryInv`: at every step of a mutation, what memory holds in terms of the
  log and the files, including the torn piece at the log's end.
* `GenerationInv`: the manifest about to be published is newer than the one in
  the files, which is at least as new as the durable one. With it,
  `DurableGenerationIsMonotonic` and `MemoryIsRecoverable` follow on any file
  system.
* `DirectoryInv` (*J*): what a mutation has published but not synchronized; from
  it the segments of both manifests exist.
* `StoreInv` (*J*): *any combination* of the two logs with the two directories
  recovers at least `floor` and at most what the process would recover. This is
  the strengthening that makes promises inductive: a power loss mixes an old log
  with a new directory or the other way round, and the next step starts from the
  mixture.
* `FilesInv`: what is left of `DirectoryInv` on a POSIX directory. A segment
  that a manifest names is the same in the files and on the disk or, if only the
  disk's manifest names it, may be gone from the files; no generation about
  to be used is named by either. It says nothing about existence, which is why
  a start may be refused there, but an engine that has started has all its
  segments (`OpenFiles`), and a flush that published its manifest has every
  sample of the memtable in a segment (`FlushedFiles`). The theorems on any
  file system rest on it.
* `CountInv`: each manifest whose segments all exist counts their unique keys;
  the running count is that of what the engine answers. The physical count of
  the segments, a sum in the code, is written as the cardinality of the set of
  pairs of a reader and a key of it, so that the library's theorems on finite
  sets apply and no induction over the segments is needed.
* `AgeInv`: no value anywhere is newer than the newest put; a put that is about
  to be applied is the newest of all, so it hides nothing newer.
* `CallerInv = HoldersInv /\ ToldInv /\ ReadInv`: at most one exclusive holder
  besides whom no one reads; `told` is at most what a restart would recover; what a
  get has found, or will find in the readers left, is at least `low`. The engine's theorems are reused through
  `CallersDriveEngine`. `ToldInv` is where linearizability needs a promise
  to survive: with *J* by `StoreInv`, without power losses because nothing is
  taken back.
* `ThresholdInv`: the memtable is at the threshold only while some put is
  between its insertion and its flush. A thread that has read the size
  knows no more than that; what makes the invariant inductive is that the *last* put to
  leave has read the size after its own insertion, and that nobody but a put
  fills the memtable. It assumes no restart, after which recovery may
  fill the memtable from the log.
* Ownership: `LockInv` (an engine exists only under the `flock`) and `OwnerInv`.
* `ViewInv`: while ChronoView holds its `Database` no other program changes
  the directory, which is `OnlyOneEngine`, so the list it read differs from the
  database only by its own operations. The invariant adds that an unconnected
  panel shows nothing and that the list is current unless an operation was cut
  short. The puts of the demo are a recursive function over their number, for
  which the proof uses the well-founded definition of the library.
* `EditorInv`: after a selection that fits, the editor holds the text of the
  series chosen last, or the text that a put parsed to find it, and after the demo
  that of the demo. That the text of a series
  denotes the series is a fact about the two conversions: the text
  is the items of the tags end to end (`FlattenLinesUp`), so its
  commas are those between the items, cutting there gives the items
  back, and the first `=` of an item ends its key, since the key has none
  (`EncodingParses`). A series is determined by its measurement and its
  set of tags, so no other is found (`TextDenotes`).
* `WalReplayProofs`: `Contiguous` and `EndsInLast` say how records lie in the
  file; `PrefixInv`, that the records replayed so far are good and end where
  `valid_bytes` says; `WindowInv`, that the buffer is the bytes from there to
  what has been read. With them one turn of the loop decides for the next record
  exactly what the bytes of the whole file decide, wherever the chunk ends.

* `ReadsInv` (`SegmentReadsProofs`): there is a stack of tables, one per segment
  and the memtable on top. Each segment is the file of its table (`FileOf`: its
  index is that of the blocks cut from the table, and what lies at an offset is a
  block of the file or garbage), and `written` has at every key the value of the
  uppermost table that has one (`Layers`). The properties are about answers only
  and are far from inductive: nothing in them says what a segment holds that a
  query does not show. The proof has three layers. First, in `ListLemmas`
  and `SegmentLemmas`, what the constructions return: `Ordered` lists a finite set in
  order, a flattened sequence has a position for every position of its parts and
  keeps their order, `Cut` loses and repeats no sample, the offsets of an index
  are distinct. Then every query of a segment against its table: a block
  is read as itself or not at all, because no two blocks of a file have the same
  series and first timestamp; the two searches find the blocks that overlap. Last,
  the queries over the stack: the newest segment that answers, the fold of
  `latest`, the merge of `range`. A flush pushes the memtable's table on the
  stack, and a compaction replaces the stack by the one table that it adds
  up to, which is why compact changes no answer. TLC checks the
  properties and not `ReadsInv`, which quantifies over stacks of tables.

Induction. The library's induction theorems take an operator as a parameter and
cannot be used here. `ListLemmas` takes induction over sets instead
(`NatInductive`: a set of numbers with 0 and every successor is `Nat`, from
the minimal element of the library's well-founded orders), and the recursive
functions `Offsets`, `LatestOf` and the flattening of sequences are treated with it.

## 6. What is only model-checked

* Liveness (`RecoveryCompletes`, `EveryCallReturns`, `LockIsReleased`,
  `ReplayEnds`): out of the prover's reach.
* `DatabaseFile` (`OnlyDamageRefuses`, `DamageIsDetected`, `WritesAreAtomic`): each says what a decoder makes of the
  bytes of an encoder, through loops that take the reading of an item as a
  parameter, a sort by an order given as a parameter, and a checksum that
  is a recursion over bits; that the checksum finds every short burst is a fact
  about polynomials. Lemmas with such parameters cannot be instantiated by
  the provers.

## 7. What is not modelled

* The full widths of the byte formats: see `Codec` above. Damage is one burst
  not longer than the checksum; longer ones a checksum finds only with high
  probability, in the code as well.
* What the engine's other models make of a limit of size: there it is one of the
  failures (`Fail`) that may strike any flush or compact. `SegmentReads` has the
  limits themselves, but not the log's: a record that is too large for the log is
  refused before it is stored.
* Zero-filled tails of a file after a power loss: a lost tail is missing.
* I/O errors while reading: they end the opening as a refusal does, or a query
  with an exception and no change.
* `latest`, `range`, `series` and counters as concurrent calls: they lock as get
  does; what they return is in `SegmentReads`.
* ChronoView's drawing, layout and display of query results; null characters in
  names, which its editor cannot hold; I/O errors of the window system.
* Argument parsing and printing of the command line tool; the benchmark and the
  example, which are fixed sequences of calls.

## 8. Plan

1. `WritesAreAtomic` with decoding as a parameter: an abstract file whose content
   is a value, in which the five steps of `atomic_write_file` can be proved without
   the bytes.
2. Shorter proofs: the cases of `FilesProofs` that repeat one argument for
   several steps.
