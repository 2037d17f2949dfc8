---------------------------- MODULE StorageEngine ----------------------------
(***************************************************************************)
(* The storage engine of ChronoStore (src/src/storage_engine.cpp) together *)
(* with the files it owns: the write-ahead log (wal_file.cpp,              *)
(* wal_recovery.cpp), the manifest (manifest.cpp), the immutable segments  *)
(* (segment_file.cpp) and their atomic publication (file_io.cpp).          *)
(*                                                                         *)
(* Every mutation of the engine runs under the exclusive engine lock, so   *)
(* at most one is in progress; it is split here at every point where a     *)
(* crash, a power loss or an exception leaves the files in a different     *)
(* state.  The operating system is part of the model: what the process     *)
(* sees (wal, dir) and what a power loss leaves (dwal, ddir) are separate. *)
(*                                                                         *)
(* Data abstraction.  A key stands for a (series, timestamp) pair.  The    *)
(* engine never looks at a sample's value, so the n-th put of a behaviour  *)
(* writes the value n: a larger value of a key is a newer one.  0 stands   *)
(* for "no sample".  A segment is the map from keys to values it holds;    *)
(* write_segment_file refuses an empty one, so the all-0 map stands for    *)
(* "no such file".                                                         *)
(***************************************************************************)
EXTENDS Naturals, Sequences, FiniteSets, FiniteSetsExt

CONSTANTS
    Keys,               \* the (series, timestamp) pairs
    MaxPuts,            \* bound: how many puts a behaviour makes
    MaxGeneration,      \* bound: the last manifest generation (2^64 - 1 in the code)
    Durabilities,       \* the WalDurability modes the database may be opened in
    PowerLossPossible,  \* may the machine, not only the process, stop?
    JournaledDirectory  \* does the file system persist directory operations in
                        \* order, and with every fsync?  FALSE: only an fsync of
                        \* the directory makes its entries durable (POSIX)

ASSUME KeysFinite == IsFiniteSet(Keys)
ASSUME BoundsAreNat == MaxPuts \in Nat /\ MaxGeneration \in Nat
ASSUME DurabilitiesAreModes == Durabilities \subseteq {"buffered", "sync_on_append"}
ASSUME SwitchesAreBoolean ==
    /\ PowerLossPossible \in BOOLEAN
    /\ JournaledDirectory \in BOOLEAN

VARIABLES
    phase,                 \* where the engine object is in its life
    step,                  \* the next step of the mutation in progress
    kind,                  \* which maintenance operation is in progress
    next,                  \* the manifest that operation is about to publish
    memtable,              \* memtable_
    segments,              \* segments_: the generations of the open readers, oldest first
    manifest,              \* manifest_
    logical_sample_count,  \* logical_sample_count_
    durability,            \* the WalWriter's mode, chosen anew by every open
    wal,                   \* chronostore.wal as the process sees it
    dir,                   \* the database directory as the process sees it
    dwal,                  \* the log a power loss would leave
    ddir,                  \* the directory a power loss would leave
    nput,                  \* how many puts have been started
    floor                  \* floor[k]: newest value of k promised to be durable

engine == <<phase, step, kind, next, memtable, segments, manifest, logical_sample_count,
            durability>>
disk   == <<wal, dir, dwal, ddir>>
vars   == <<engine, disk, nput, floor>>

Generations == 1..MaxGeneration
Puts        == 1..MaxPuts
NoSample    == 0
Samples     == [Keys -> Puts \cup {NoSample}]
NoSamples   == [k \in Keys |-> NoSample]
NoFile      == NoSamples

KeysOf(m) == {k \in Keys : m[k] # NoSample}

Record   == [key : Keys, value : Puts]
\* A log is a sequence of complete records and at most one record of which
\* only a prefix has been written.
Log      == [records : Seq(Record), tail : {<<>>} \cup {<<r>> : r \in Record}]
EmptyLog == [records |-> <<>>, tail |-> <<>>]

\* struct ManifestState.  A segment file name is the generation it is made of.
Manifest == [generation : Nat, logical_sample_count : Nat, segment_files : Seq(Generations)]
\* load_manifest returns this when there is no MANIFEST file.
EmptyManifest == [generation |-> 0, logical_sample_count |-> 0, segment_files |-> <<>>]

\* The directory: whether the log has an entry, the MANIFEST, the segment-*.cst
\* files and the generations that have a segment-*.cst.tmp file.
Directory == [wal : BOOLEAN, manifest : Manifest,
              segs : [Generations -> Samples], temps : SUBSET Generations]
EmptyDirectory == [wal |-> FALSE, manifest |-> EmptyManifest,
                   segs |-> [g \in Generations |-> NoFile], temps |-> {}]

Live(d) == {d.manifest.segment_files[i] : i \in DOMAIN d.manifest.segment_files}

-----------------------------------------------------------------------------
(* Lookups.                                                                *)

\* SegmentReader::get on the readers of files, newest first.
SegmentGet(files, segs, k) ==
    LET hits == {i \in DOMAIN files : segs[files[i]][k] # NoSample}
    IN  IF hits = {} THEN NoSample ELSE segs[files[Max(hits)]][k]

SegmentsView(files, segs) == [k \in Keys |-> SegmentGet(files, segs, k)]

\* get: the memtable first, then the segments.
Get(k) == IF memtable[k] # NoSample THEN memtable[k]
          ELSE SegmentGet(segments, dir.segs, k)

View == [k \in Keys |-> Get(k)]

Contains(k) == Get(k) # NoSample

\* Mutant of Replay: the first record of a key wins, not the last.
ReplayKeepsOldest(records) ==
    [k \in Keys |->
        LET hits == {i \in DOMAIN records : records[i].key = k}
        IN  IF hits = {} THEN NoSample ELSE records[Min(hits)].value]

\* What replaying the records leaves in an empty memtable.
Replay(records) ==
    [k \in Keys |->
        LET hits == {i \in DOMAIN records : records[i].key = k}
        IN  IF hits = {} THEN NoSample ELSE records[Max(hits)].value]

\* What recovery reads from a log and a directory.
Recovered(log, d) ==
    [k \in Keys |->
        IF Replay(log.records)[k] # NoSample THEN Replay(log.records)[k]
        ELSE SegmentGet(d.manifest.segment_files, d.segs, k)]

\* physical_segment_samples: the sample counts of the readers summed up, that is the
\* number of (reader, key) pairs.
PhysicalSamples(d) ==
    LET files == d.manifest.segment_files
    IN  Cardinality({p \in (DOMAIN files) \X Keys : d.segs[files[p[1]]][p[2]] # NoSample})

-----------------------------------------------------------------------------
(* File operations.                                                        *)

\* fsync of the log.
SyncWal ==
    /\ dwal' = wal
    /\ ddir' = IF JournaledDirectory THEN dir ELSE ddir

\* fsync of the database directory.
SyncDirectory == ddir' = dir

\* The best-effort removal of segment files: any of them may be left behind.
RemoveFiles(d, gens) == [d EXCEPT !.segs = [g \in Generations |->
                                               IF g \in gens THEN NoFile ELSE d.segs[g]]]

Idle == phase = "ready" /\ step = "none"

\* What the end of a mutation, successful or not, leaves of its locals.
EndMutation ==
    /\ step' = "none"
    /\ kind' = "none"
    /\ next' = EmptyManifest

Init ==
    /\ phase = "closed"
    /\ step = "none"
    /\ kind = "none"
    /\ next = EmptyManifest
    /\ memtable = NoSamples
    /\ segments = <<>>
    /\ manifest = EmptyManifest
    /\ logical_sample_count = 0
    /\ durability = "none"
    /\ wal = EmptyLog
    /\ dir = EmptyDirectory
    /\ dwal = EmptyLog
    /\ ddir = EmptyDirectory
    /\ nput = 0
    /\ floor = NoSamples

-----------------------------------------------------------------------------
(* Opening: StorageEngine::recover and the constructor.                    *)

\* Mutant of Orphans: only the newest segment is taken to be live.
OrphansAllButNewest(d) ==
    {g \in Generations : d.segs[g] # NoFile} \ {d.manifest.generation}

Orphans(d) == {g \in Generations : d.segs[g] # NoFile} \ Live(d)

\* Mutant of RecoveredCount: the live segments are not consulted.
RecoveredCountIgnoresSegments ==
    manifest.logical_sample_count + Cardinality(KeysOf(Replay(wal.records)))

\* Replay counts a record's key only when neither the recovered memtable nor a
\* live segment has it.
RecoveredCount ==
    manifest.logical_sample_count
      + Cardinality({k \in KeysOf(Replay(wal.records)) :
                        SegmentGet(segments, dir.segs, k) = NoSample})

\* Mutant of LoadManifest: a temporary left by a crash is taken for corruption.
LoadManifestRefusesTemporaries ==
    /\ phase = "closed"
    /\ IF dir.temps = {} /\ \A g \in Live(dir) : dir.segs[g] # NoFile
       THEN /\ phase' = "loaded"
            /\ manifest' = dir.manifest
            /\ segments' = dir.manifest.segment_files
            /\ logical_sample_count' = dir.manifest.logical_sample_count
       ELSE /\ phase' = "refused"
            /\ UNCHANGED <<manifest, segments, logical_sample_count>>
    /\ durability' \in Durabilities
    /\ UNCHANGED <<step, kind, next, memtable, disk, nput, floor>>

\* The manifest is read and a reader is opened on every segment it names.
LoadManifest ==
    /\ phase = "closed"
    /\ IF \A g \in Live(dir) : dir.segs[g] # NoFile
       THEN /\ phase' = "loaded"
            /\ manifest' = dir.manifest
            /\ segments' = dir.manifest.segment_files
            /\ logical_sample_count' = dir.manifest.logical_sample_count
       ELSE /\ phase' = "refused"
            /\ UNCHANGED <<manifest, segments, logical_sample_count>>
    /\ durability' \in Durabilities
    /\ UNCHANGED <<step, kind, next, memtable, disk, nput, floor>>

\* Unreferenced segments and stale temporaries are removed, then the
\* manifest's count is compared with what the segments hold.
SweepDirectory ==
    /\ phase = "loaded"
    /\ \E gone \in SUBSET Orphans(dir), temps \in SUBSET dir.temps :
          dir' = [RemoveFiles(dir, gone) EXCEPT !.temps = temps]
    /\ phase' = IF manifest.logical_sample_count > PhysicalSamples(dir)
                THEN "refused" ELSE "swept"
    /\ UNCHANGED <<step, kind, next, memtable, segments, manifest, logical_sample_count,
                   durability, wal, dwal, ddir, nput, floor>>

\* No log yet: one is created (and synchronized by SyncRecoveredWal).
CreateWal ==
    /\ phase = "swept"
    /\ ~dir.wal
    /\ dir' = [dir EXCEPT !.wal = TRUE]
    /\ phase' = "created"
    /\ UNCHANGED <<step, kind, next, memtable, segments, manifest, logical_sample_count,
                   durability, wal, dwal, ddir, nput, floor>>

\* Every complete record is replayed; an incomplete last one is cut off.
ReplayWal ==
    /\ phase = "swept"
    /\ dir.wal
    /\ memtable' = Replay(wal.records)
    /\ logical_sample_count' = RecoveredCount
    /\ wal' = [wal EXCEPT !.tail = <<>>]
    /\ phase' = IF wal.tail = <<>> THEN "ready" ELSE "repaired"
    /\ UNCHANGED <<step, kind, next, segments, manifest, durability, dir, dwal, ddir, nput,
                   floor>>

\* A log that was created or cut is synchronized before the engine is used.
SyncRecoveredWal ==
    /\ phase \in {"created", "repaired"}
    /\ SyncWal
    /\ phase' = "ready"
    /\ UNCHANGED <<step, kind, next, memtable, segments, manifest, logical_sample_count,
                   durability, wal, dir, nput, floor>>

Recover == LoadManifest \/ SweepDirectory \/ CreateWal \/ ReplayWal \/ SyncRecoveredWal

-----------------------------------------------------------------------------
(* put and sync.                                                           *)

\* Mutants of InsertRecord: an existing sample is kept (emplace for
\* insert_or_assign); every put counts; only the memtable is searched.
InsertRecordKeepsOld(r) ==
    /\ memtable' = [memtable EXCEPT ![r.key] = IF @ # NoSample THEN @ ELSE r.value]
    /\ logical_sample_count' = IF Contains(r.key) THEN logical_sample_count
                               ELSE logical_sample_count + 1

InsertRecordAlwaysCounts(r) ==
    /\ memtable' = [memtable EXCEPT ![r.key] = r.value]
    /\ logical_sample_count' = logical_sample_count + 1

InsertRecordIgnoresSegments(r) ==
    /\ memtable' = [memtable EXCEPT ![r.key] = r.value]
    /\ logical_sample_count' = IF memtable[r.key] # NoSample THEN logical_sample_count
                               ELSE logical_sample_count + 1

\* The second half of put: MemTable::put, and the count of a new key.
InsertRecord(r) ==
    /\ memtable' = [memtable EXCEPT ![r.key] = r.value]
    /\ logical_sample_count' = IF Contains(r.key) THEN logical_sample_count
                               ELSE logical_sample_count + 1

\* WalWriter::append has written some but not all bytes of the record.
PutBegin(k) ==
    /\ Idle
    /\ nput < MaxPuts
    /\ nput' = nput + 1
    /\ wal' = [wal EXCEPT !.tail = <<[key |-> k, value |-> nput + 1]>>]
    /\ step' = "append"
    /\ UNCHANGED <<phase, kind, next, memtable, segments, manifest, logical_sample_count,
                   durability, dir, dwal, ddir, floor>>

\* The record is complete.  A buffered put is done with it.
PutWrite ==
    /\ phase = "ready"
    /\ step = "append"
    /\ wal' = [records |-> Append(wal.records, wal.tail[1]), tail |-> <<>>]
    /\ IF durability = "sync_on_append"
       THEN /\ step' = "append_sync"
            /\ UNCHANGED <<memtable, logical_sample_count>>
       ELSE /\ step' = "none"
            /\ InsertRecord(wal.tail[1])
    /\ UNCHANGED <<phase, kind, next, segments, manifest, durability, dir, dwal, ddir, nput,
                   floor>>

\* Mutant of PutSync: put returns without the fsync.
PutSyncWithoutFsync ==
    /\ phase = "ready"
    /\ step = "append_sync"
    /\ LET r == wal.records[Len(wal.records)]
       IN  /\ InsertRecord(r)
           /\ floor' = [floor EXCEPT ![r.key] = r.value]
    /\ step' = "none"
    /\ UNCHANGED <<phase, kind, next, segments, manifest, durability, disk, nput>>

\* The log is synchronized, the sample inserted, and put returns.
PutSync ==
    /\ phase = "ready"
    /\ step = "append_sync"
    /\ SyncWal
    /\ LET r == wal.records[Len(wal.records)]
       IN  /\ InsertRecord(r)
           /\ floor' = [floor EXCEPT ![r.key] = r.value]
    /\ step' = "none"
    /\ UNCHANGED <<phase, kind, next, segments, manifest, durability, wal, dir, nput>>

\* Mutant of Sync: sync returns at once in buffered mode.
SyncOnlyIfSyncOnAppend ==
    /\ Idle
    /\ IF durability = "sync_on_append" THEN SyncWal ELSE UNCHANGED <<dwal, ddir>>
    /\ floor' = View
    /\ UNCHANGED <<engine, wal, dir, nput>>

\* sync, and flush when the memtable is empty: every put made so far is durable.
Sync ==
    /\ Idle
    /\ SyncWal
    /\ floor' = View
    /\ UNCHANGED <<engine, wal, dir, nput>>

-----------------------------------------------------------------------------
(* flush and compact.                                                      *)

NextGeneration == manifest.generation + 1

FlushManifest ==
    [generation           |-> NextGeneration,
     logical_sample_count |-> logical_sample_count,
     segment_files        |-> Append(manifest.segment_files, NextGeneration)]

\* Mutants of CompactManifest: the number of the newest input is used again;
\* the generation is counted up from that of a fresh ManifestState.
CompactManifestReusesNumber ==
    [generation           |-> manifest.generation,
     logical_sample_count |-> manifest.logical_sample_count,
     segment_files        |-> <<manifest.generation>>]

CompactManifestFromZero ==
    [generation           |-> EmptyManifest.generation + 1,
     logical_sample_count |-> manifest.logical_sample_count,
     segment_files        |-> <<EmptyManifest.generation + 1>>]

CompactManifest ==
    [generation           |-> NextGeneration,
     logical_sample_count |-> manifest.logical_sample_count,
     segment_files        |-> <<NextGeneration>>]

\* compact overlays the segments oldest first.
Compacted == SegmentsView(segments, dir.segs)

\* write_segment_file up to the synchronized temporary file.
WriteTemporary(op, m) ==
    /\ kind' = op
    /\ next' = m
    /\ dir' = [dir EXCEPT !.temps = @ \cup {m.generation}]
    /\ step' = "segment"
    /\ UNCHANGED <<phase, memtable, segments, manifest, logical_sample_count, durability,
                   wal, dwal, ddir, nput, floor>>

\* Mutant of FlushBegin: the exhausted generation is found one too late.
FlushBeginPastLastGeneration ==
    /\ Idle
    /\ memtable # NoSamples
    /\ manifest.generation <= MaxGeneration
    /\ WriteTemporary("flush", FlushManifest)

FlushBegin ==
    /\ Idle
    /\ memtable # NoSamples
    /\ manifest.generation < MaxGeneration
    /\ WriteTemporary("flush", FlushManifest)

CompactBegin ==
    /\ Idle
    /\ Len(segments) > 1
    /\ Cardinality(KeysOf(Compacted)) = manifest.logical_sample_count
    /\ manifest.generation < MaxGeneration
    /\ WriteTemporary("compact", CompactManifest)

\* The temporary is renamed to the segment's name.
PublishSegment ==
    /\ phase = "ready"
    /\ step = "segment"
    /\ dir' = [dir EXCEPT !.temps = @ \ {next.generation},
                          !.segs[next.generation] =
                              IF kind = "flush" THEN memtable ELSE Compacted]
    /\ step' = "segment_sync"
    /\ UNCHANGED <<phase, kind, next, memtable, segments, manifest, logical_sample_count,
                   durability, wal, dwal, ddir, nput, floor>>

\* Mutant of SyncSegment: flush resets the log before it stores the manifest.
SyncSegmentThenTruncate ==
    /\ phase = "ready"
    /\ step = "segment_sync"
    /\ SyncDirectory
    /\ step' = IF kind = "flush" THEN "truncate" ELSE "manifest"
    /\ UNCHANGED <<phase, kind, next, memtable, segments, manifest, logical_sample_count,
                   durability, wal, dir, dwal, nput, floor>>

\* The directory is synchronized and the new segment opened.
SyncSegment ==
    /\ phase = "ready"
    /\ step = "segment_sync"
    /\ SyncDirectory
    /\ step' = "manifest"
    /\ UNCHANGED <<phase, kind, next, memtable, segments, manifest, logical_sample_count,
                   durability, wal, dir, dwal, nput, floor>>

\* store_manifest up to the rename of MANIFEST.tmp.
PublishManifest ==
    /\ phase = "ready"
    /\ step = "manifest"
    /\ dir' = [dir EXCEPT !.manifest = next]
    /\ step' = "manifest_sync"
    /\ UNCHANGED <<phase, kind, next, memtable, segments, manifest, logical_sample_count,
                   durability, wal, dwal, ddir, nput, floor>>

\* The directory is synchronized and the new reader set installed.  flush goes
\* on to reset the log; compact removes the segments it replaced.
InstallManifest ==
    /\ phase = "ready"
    /\ step = "manifest_sync"
    /\ SyncDirectory
    /\ segments' = next.segment_files
    /\ manifest' = next
    /\ \/ /\ kind = "flush"
          /\ step' = "truncate"
          /\ UNCHANGED <<kind, next, dir>>
       \/ /\ kind = "compact"
          /\ \E gone \in SUBSET {segments[i] : i \in DOMAIN segments} :
                dir' = RemoveFiles(dir, gone)
          /\ EndMutation
    /\ UNCHANGED <<phase, memtable, logical_sample_count, durability, wal, dwal, nput,
                   floor>>

\* WalWriter::reset: ftruncate ...
TruncateWal ==
    /\ phase = "ready"
    /\ step = "truncate"
    /\ wal' = EmptyLog
    /\ step' = "truncate_sync"
    /\ UNCHANGED <<phase, kind, next, memtable, segments, manifest, logical_sample_count,
                   durability, dir, dwal, ddir, nput, floor>>

\* ... and fsync; then the memtable is cleared and flush returns.
ResetWal ==
    /\ phase = "ready"
    /\ step = "truncate_sync"
    /\ SyncWal
    /\ floor' = View
    /\ memtable' = NoSamples
    /\ EndMutation
    /\ UNCHANGED <<phase, segments, manifest, logical_sample_count, durability, wal, dir,
                   nput>>

Mutate == \/ PutWrite \/ PutSync
          \/ PublishSegment \/ SyncSegment \/ PublishManifest \/ InstallManifest
          \/ TruncateWal \/ ResetWal

-----------------------------------------------------------------------------
(* Failures, the end of the process, and the operating system.             *)

\* A call threw: every mutation's catch block sets failed_, and ensure_usable
\* refuses every later call.  From an idle engine this is an operation that
\* threw before it changed a file (an oversized record, a full log, an
\* exhausted generation, a failed fsync or a refused compaction).
Fail ==
    /\ phase = "ready"
    /\ phase' = "failed"
    /\ EndMutation
    /\ UNCHANGED <<memtable, segments, manifest, logical_sample_count, durability, disk,
                   nput, floor>>

\* The engine object is gone.
LoseMemory ==
    /\ phase' = "closed"
    /\ EndMutation
    /\ memtable' = NoSamples
    /\ segments' = <<>>
    /\ manifest' = EmptyManifest
    /\ logical_sample_count' = 0
    /\ durability' = "none"

\* The database is closed, opening it threw, or the process died at any point;
\* the files stay as the process left them.
Stop ==
    /\ phase # "closed"
    /\ LoseMemory
    /\ UNCHANGED <<disk, nput, floor>>

\* The machine stopped: only what was durable is left.
PowerLoss ==
    /\ PowerLossPossible
    /\ LoseMemory
    /\ wal' = IF ddir.wal THEN dwal ELSE EmptyLog
    /\ dwal' = wal'
    /\ dir' = ddir
    /\ UNCHANGED <<ddir, nput, floor>>

\* The operating system may write the log back at any time ...
WriteBackWal ==
    /\ PowerLossPossible
    /\ dwal # wal
    /\ dwal' = wal
    /\ UNCHANGED <<engine, wal, dir, ddir, nput, floor>>

\* ... and the directory: all of it, or entry by entry when it is not journaled.
WriteBackDirectory ==
    /\ PowerLossPossible
    /\ ddir # dir
    /\ \/ ddir' = dir
       \/ /\ ~JournaledDirectory
          /\ \/ ddir' = [ddir EXCEPT !.wal = dir.wal]
             \/ ddir' = [ddir EXCEPT !.manifest = dir.manifest]
             \/ \E g \in Generations : ddir' = [ddir EXCEPT !.segs[g] = dir.segs[g]]
    /\ UNCHANGED <<engine, wal, dir, dwal, nput, floor>>

WriteBack == WriteBackWal \/ WriteBackDirectory

Next ==
    \/ Recover
    \/ \E k \in Keys : PutBegin(k)
    \/ Sync \/ FlushBegin \/ CompactBegin
    \/ Mutate
    \/ Fail \/ Stop \/ PowerLoss \/ WriteBack

Spec == Init /\ [][Next]_vars

\* The constructor runs on its caller's thread, which the scheduler does not
\* suspend for ever.
FairSpec == Spec /\ WF_vars(Recover)

-----------------------------------------------------------------------------
(* Properties.                                                             *)

Store == INSTANCE DurableStore
         WITH Values <- Puts, MayLose <- PowerLossPossible,
              store <- Recovered(wal, dir), promised <- floor

\* The engine implements the store: judged by what a restart would recover, a
\* put takes effect in one step, flush, compact, crash and recovery change
\* nothing, and a power loss takes back only what was not promised.
ImplementsStore == Store!Spec

Phases == {"closed", "loaded", "swept", "created", "repaired", "ready", "failed", "refused"}
Steps  == {"none", "append", "append_sync", "segment", "segment_sync", "manifest",
           "manifest_sync", "truncate", "truncate_sync"}

\* Every variable holds a value of its C++ type or of the file's format.
TypeOK ==
    /\ phase \in Phases
    /\ step \in Steps
    /\ kind \in {"none", "flush", "compact"}
    /\ next \in Manifest
    /\ memtable \in Samples
    /\ segments \in Seq(Generations)
    /\ manifest \in Manifest
    /\ logical_sample_count \in Nat
    /\ durability \in Durabilities \cup {"none"}
    /\ wal \in Log
    /\ dir \in Directory
    /\ dwal \in Log
    /\ ddir \in Directory
    /\ nput \in 0..MaxPuts
    /\ floor \in Samples

\* Durability: whatever crashed in between, an open engine still has, for every
\* key, the newest value that a put, sync or flush promised, or a newer one.
PromisesKept == Idle => \A k \in Keys : Get(k) >= floor[k]

\* Between two operations the engine shows exactly what a restart would
\* recover from the log and the live segments.
MemoryMatchesFiles == Idle => View = Recovered(wal, dir)

\* Last write wins: the memtable, which get and range prefer, never hides a
\* newer value of a live segment.
NewestWins ==
    Idle => \A k \in Keys :
        memtable[k] # NoSample => memtable[k] >= SegmentGet(segments, dir.segs, k)

\* Of the steps that keep, move or remove data (put, flush, compact, failure, the
\* end of the process, recovery in another mode), only a power loss takes a value
\* back that a restart would have recovered, promised or not.
OnlyPowerLossLoses ==
    [][PowerLoss \/ \A k \in Keys : Recovered(wal, dir)[k] <= Recovered(wal, dir)'[k]]_vars

\* The log, which recovery lays over the segments, holds no value that is older
\* than theirs.
LogIsNewest ==
    \A k \in Keys : Replay(wal.records)[k] # NoSample
        => Replay(wal.records)[k] >= SegmentGet(dir.manifest.segment_files, dir.segs, k)

\* Only a power loss makes the log hide a newer flushed value: not a crash between
\* the new manifest and the reset of the log, nor any number of later restarts.
OnlyPowerLossHides == [][LogIsNewest => PowerLoss \/ LogIsNewest']_vars

\* sample_count is the number of unique keys, and the manifest's count the number
\* of unique keys of the segments, so that compact never refuses to run.
CountsAreExact ==
    Idle => /\ logical_sample_count = Cardinality(KeysOf(View))
            /\ manifest.logical_sample_count =
                   Cardinality(KeysOf(SegmentsView(segments, dir.segs)))

\* No crash leaves a directory that the next start refuses to open.
NeverRefused == phase # "refused"

\* Every segment that a MANIFEST names exists: the one the process sees and the
\* one a power loss would leave.
NoDanglingSegment ==
    /\ \A g \in Live(dir) : dir.segs[g] # NoFile
    /\ \A g \in Live(ddir) : ddir.segs[g] # NoFile

\* A segment that the durable manifest names never changes while it is named,
\* although its number is computed anew after every restart.
PublishedSegmentsImmutable ==
    [][\A g \in Live(ddir) \cap Live(ddir') :
          /\ ddir'.segs[g] = ddir.segs[g]
          /\ g \in Live(dir) \cap Live(dir') => dir'.segs[g] = dir.segs[g]]_vars

\* The generation of the durable manifest never goes back, whatever crashes.
DurableGenerationGrows ==
    [][ddir'.manifest.generation >= ddir.manifest.generation]_vars

\* From some point on neither the process nor the machine stops.
CrashesEnd == <>[][~(Stop \/ PowerLoss)]_vars

\* Recovery is live: whatever crashed before, and wherever an earlier recovery
\* was cut short, the constructor ends with an open engine once crashes end.
RecoveryCompletes == CrashesEnd => (phase = "closed" ~> phase = "ready")

=============================================================================
