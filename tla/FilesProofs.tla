----------------------------- MODULE FilesProofs -----------------------------
(***************************************************************************)
(* What holds of the engine on every file system, a POSIX directory whose  *)
(* entries become durable one by one included: the counts are exact, and   *)
(* only a power loss loses or hides a value.  With the counts and a        *)
(* directory that becomes durable in order, no start is refused.           *)
(***************************************************************************)
EXTENDS StorageEngineProofs

\* When the directory changes in nothing but the log's entry and the temporaries,
\* and the durable one is the old one or a copy, their segments still agree.
LEMMA LiveFilesKept ==
    ASSUME LiveFiles, dir'.manifest = dir.manifest, dir'.segs = dir.segs,
           ddir' \in {ddir, dir}
    PROVE  LiveFiles'
<1>1. CASE ddir' = ddir
  BY <1>1 DEF LiveFiles, Live
<1>2. CASE ddir' = dir
  BY <1>2 DEF LiveFiles, Live
<1> QED
  BY <1>1, <1>2

\* A number that flush or compact is about to use is not in use.
LEMMA UnusedGeneration ==
    ASSUME BaseInv, FilesInv, step \in Preparing \ {"manifest_sync"}
    PROVE  /\ phase = "ready" /\ manifest = dir.manifest
           /\ segments = dir.manifest.segment_files
           /\ next.generation \in Generations /\ next.generation \notin Live(dir)
           /\ next.generation \notin Live(ddir)
           /\ \A i \in DOMAIN segments : segments[i] # next.generation
<1>1. /\ phase = "ready" /\ manifest = dir.manifest /\ segments = manifest.segment_files
  BY DEF BaseInv, TypeInv, MemoryInv, Opened, Preparing
<1>2. /\ next.generation = manifest.generation + 1
      /\ dir.manifest.generation >= ddir.manifest.generation
  BY DEF BaseInv, GenerationInv, Preparing
<1>3. next.generation \in Generations
  BY DEF FilesInv, NextFiles
<1>4. /\ \A g \in Live(dir) : g <= dir.manifest.generation /\ g \in Nat
      /\ \A g \in Live(ddir) : g <= ddir.manifest.generation /\ g \in Nat
  <2>1. /\ \A g \in Live(dir) : g <= dir.manifest.generation
        /\ \A g \in Live(ddir) : g <= ddir.manifest.generation
    BY DEF FilesInv, LiveFiles
  <2>2. Live(dir) \subseteq Generations /\ Live(ddir) \subseteq Generations
    BY BaseTypes DEF Live
  <2> QED
    BY <2>1, <2>2, BaseTypes
<1>5. /\ next.generation \notin Live(dir) /\ next.generation \notin Live(ddir)
  BY <1>1, <1>2, <1>4, BaseTypes
<1>6. \A i \in DOMAIN segments : segments[i] \in Live(dir)
  BY <1>1 DEF Live
<1> QED
  BY <1>1, <1>3, <1>5, <1>6

LEMMA FilesPut ==
    ASSUME BaseInv, FilesInv, (\E k \in Keys : PutBegin(k)) \/ PutWrite \/ PutSync \/ Sync
    PROVE  FilesInv'
<1>1. dir' = dir /\ ddir' \in {ddir, dir} /\ segments' = segments /\ manifest' = manifest
      /\ phase' = phase /\ step' \in {"none", "append", "append_sync"}
  BY DEF PutBegin, PutWrite, PutSync, Sync, SyncWal, engine, Idle
<1>2. LiveFiles'
  BY <1>1, LiveFilesKept DEF FilesInv
<1> QED
  BY <1>1, <1>2 DEF FilesInv, OpenFiles, NextFiles, FlushedFiles, Complete, Live, Preparing

LEMMA FilesRecover ==
    ASSUME BaseInv, FilesInv, Recover
    PROVE  FilesInv'
<1>0. step = "none" /\ step' = "none"
  BY DEF Recover, LoadManifest, SweepDirectory, CreateWal, ReplayWal, SyncRecoveredWal,
         BaseInv, TypeInv
<1>1. NextFiles' /\ FlushedFiles'
  BY <1>0 DEF NextFiles, FlushedFiles, Preparing
<1>2. CASE LoadManifest
  <2>1. dir' = dir /\ ddir' = ddir /\ phase' \in {"loaded", "refused"}
        /\ (phase' = "loaded" => /\ Complete(dir) /\ manifest' = dir.manifest
                                 /\ segments' = dir.manifest.segment_files)
    BY <1>2 DEF LoadManifest, disk, Complete
  <2>2. LiveFiles'
    BY <2>1, LiveFilesKept DEF FilesInv
  <2>3. OpenFiles'
    BY <2>1 DEF OpenFiles, Opened, FilesInv, LiveFiles, Complete, Live
  <2> QED
    BY <1>1, <2>2, <2>3 DEF FilesInv
<1>3. CASE SweepDirectory
  <2>1. PICK gone \in SUBSET Orphans(dir), temps \in SUBSET dir.temps :
           dir' = [RemoveFiles(dir, gone) EXCEPT !.temps = temps]
    BY <1>3 DEF SweepDirectory
  <2>2. dir'.manifest = dir.manifest /\ ddir' = ddir /\ phase \in Opened
        /\ segments' = segments /\ manifest' = manifest
    BY <1>3, <2>1, BaseTypes DEF RemoveFiles, Directory, SweepDirectory, Opened
  <2>3. \A g \in Generations : dir'.segs[g] = IF g \in gone THEN NoFile ELSE dir.segs[g]
    BY <2>1, BaseTypes DEF RemoveFiles, Directory
  <2>4. Live(dir') = Live(dir) /\ Live(ddir') = Live(ddir)
    BY <2>2 DEF Live
  <2>5. Live(dir) \subseteq Generations /\ Live(ddir) \subseteq Generations
    BY BaseTypes DEF Live
  <2>6. \A g \in Live(dir) : dir'.segs[g] = dir.segs[g]
    BY <2>3, <2>5 DEF Orphans
  <2>7. LiveFiles'
    BY <2>2, <2>3, <2>4, <2>5, <2>6 DEF FilesInv, LiveFiles
  <2>8. OpenFiles'
    BY <2>2, <2>4, <2>6 DEF FilesInv, OpenFiles, Complete
  <2> QED
    BY <1>1, <2>7, <2>8 DEF FilesInv
<1>4. CASE CreateWal \/ ReplayWal \/ SyncRecoveredWal
  <2>1. /\ dir'.manifest = dir.manifest /\ dir'.segs = dir.segs /\ ddir' \in {ddir, dir}
        /\ segments' = segments /\ manifest' = manifest /\ phase \in Opened
    BY <1>4, BaseTypes DEF CreateWal, ReplayWal, SyncRecoveredWal, SyncWal, Directory, Opened
  <2>2. LiveFiles'
    BY <2>1, LiveFilesKept DEF FilesInv
  <2>3. OpenFiles'
    BY <2>1 DEF FilesInv, OpenFiles, Complete, Live
  <2> QED
    BY <1>1, <2>2, <2>3 DEF FilesInv
<1> QED
  BY <1>2, <1>3, <1>4 DEF Recover

\* The segments that compact merges hold at least one sample.
LEMMA MergedSegment ==
    ASSUME BaseInv, FilesInv, phase = "ready", step # "manifest_sync", Len(segments) > 0
    PROVE  Compacted # NoFile
<1>1. segments = dir.manifest.segment_files /\ Complete(dir)
  BY DEF BaseInv, MemoryInv, FilesInv, OpenFiles, Opened
<1>2. 1 \in DOMAIN segments
  BY BaseTypes
<1>3. dir.segs[segments[1]] # NoFile
  BY <1>1, <1>2 DEF Complete, Live
<1> QED
  BY <1>2, <1>3, BaseTypes, MergeNotEmpty DEF Compacted

LEMMA FilesBegin ==
    ASSUME BaseInv, FilesInv, FlushBegin \/ CompactBegin
    PROVE  FilesInv'
<1>1. /\ dir'.manifest = dir.manifest /\ dir'.segs = dir.segs /\ ddir' = ddir
      /\ segments' = segments /\ manifest' = manifest /\ phase' = phase /\ memtable' = memtable
      /\ step' = "segment" /\ phase = "ready" /\ step = "none"
  BY BaseTypes DEF FlushBegin, CompactBegin, WriteTemporary, Directory, Idle
<1>2. LiveFiles'
  BY <1>1, LiveFilesKept DEF FilesInv
<1>3. OpenFiles' /\ FlushedFiles'
  BY <1>1 DEF FilesInv, OpenFiles, FlushedFiles, Complete, Live
<1>4. manifest.generation + 1 \in Generations
  BY BaseTypes, BoundsAreNat DEF FlushBegin, CompactBegin, Generations
<1>5. Compacted' = Compacted
  BY <1>1 DEF Compacted
<1>6. CASE FlushBegin
  <2>1. /\ kind' = "flush" /\ next' = FlushManifest /\ memtable # NoSamples
    BY <1>6 DEF FlushBegin, WriteTemporary
  <2>2. /\ next'.generation = manifest.generation + 1
        /\ next'.segment_files = Append(manifest'.segment_files, next'.generation)
        /\ NewSegment' # NoFile
    BY <1>1, <2>1 DEF FlushManifest, NextGeneration, NewSegment, NoFile
  <2> QED
    BY <1>1, <1>2, <1>3, <1>4, <2>1, <2>2 DEF FilesInv, NextFiles, Preparing
<1>7. CASE CompactBegin
  <2>1. /\ kind' = "compact" /\ next' = CompactManifest /\ Len(segments) > 1
    BY <1>7 DEF CompactBegin, WriteTemporary
  <2>2. /\ next'.generation = manifest.generation + 1
        /\ next'.segment_files = <<next'.generation>>
    BY <1>1, <2>1 DEF CompactManifest, NextGeneration
  <2>3. Len(segments) > 0
    BY <2>1, BaseTypes
  <2>4. NewSegment' # NoFile
    BY <1>1, <1>5, <2>1, <2>3, MergedSegment DEF NewSegment
  <2> QED
    BY <1>1, <1>2, <1>3, <1>4, <2>1, <2>2, <2>4 DEF FilesInv, NextFiles, Preparing
<1> QED
  BY <1>6, <1>7

\* The new segment's file changes no live segment and not what compact merges.
LEMMA FilesPublishSegment ==
    ASSUME BaseInv, FilesInv, PublishSegment
    PROVE  FilesInv' /\ \A k \in Keys : Segs(dir', k) = Segs(dir, k)
<1>1. /\ dir'.manifest = dir.manifest /\ ddir' = ddir /\ segments' = segments
      /\ manifest' = manifest /\ phase' = phase /\ memtable' = memtable /\ kind' = kind
      /\ next' = next /\ step = "segment" /\ step' = "segment_sync"
  BY BaseTypes DEF PublishSegment, Directory
<1>2. /\ phase = "ready" /\ segments = dir.manifest.segment_files
      /\ next.generation \in Generations /\ next.generation \notin Live(dir)
      /\ next.generation \notin Live(ddir)
  BY <1>1, UnusedGeneration DEF Preparing
<1>3. \A g \in Generations : dir'.segs[g] = IF g = next.generation THEN NewSegment ELSE dir.segs[g]
  BY <1>2, BaseTypes DEF PublishSegment, Directory, NewSegment
<1>4. Live(dir') = Live(dir) /\ Live(ddir') = Live(ddir)
  BY <1>1 DEF Live
<1>5. Live(dir) \subseteq Generations /\ Live(ddir) \subseteq Generations
  BY BaseTypes DEF Live
<1>6. \A g \in Live(dir) \cup Live(ddir) : dir'.segs[g] = dir.segs[g]
  BY <1>2, <1>3, <1>5
<1>7. LiveFiles'
  BY <1>1, <1>4, <1>6 DEF FilesInv, LiveFiles
<1>8. OpenFiles'
  BY <1>1, <1>4, <1>6 DEF FilesInv, OpenFiles, Complete
<1>9. \A k \in Keys : SegmentGet(segments, dir'.segs, k) = SegmentGet(segments, dir.segs, k)
  <2> TAKE k \in Keys
  <2>1. \A i \in DOMAIN segments : dir'.segs[segments[i]] = dir.segs[segments[i]]
    BY <1>2, <1>6 DEF Live
  <2> QED
    BY <2>1, BaseTypes, SegmentGetSame
<1>10. NewSegment' = NewSegment
  <2>1. Compacted' = Compacted
    BY <1>1, <1>9 DEF Compacted, SegmentsView
  <2> QED
    BY <1>1, <2>1 DEF NewSegment
<1>11. NextFiles'
  BY <1>1, <1>2, <1>3, <1>10 DEF FilesInv, NextFiles, Preparing
<1>12. FlushedFiles'
  BY <1>1 DEF FlushedFiles
<1> QED
  BY <1>1, <1>2, <1>7, <1>8, <1>9, <1>11, <1>12 DEF FilesInv, Segs

LEMMA FilesSyncSegment ==
    ASSUME BaseInv, FilesInv, SyncSegment
    PROVE  FilesInv'
<1>1. /\ step = "segment_sync" /\ step' = "manifest" /\ dir' = dir /\ ddir' = dir
      /\ segments' = segments /\ manifest' = manifest /\ phase' = phase
      /\ memtable' = memtable /\ kind' = kind /\ next' = next
  BY DEF SyncSegment, SyncDirectory
<1>2. LiveFiles'
  BY <1>1, LiveFilesKept DEF FilesInv
<1>3. NewSegment' = NewSegment
  BY <1>1 DEF NewSegment, Compacted
<1>4. NextFiles'
  BY <1>1, <1>3 DEF FilesInv, NextFiles, Preparing
<1> QED
  BY <1>1, <1>2, <1>4 DEF FilesInv, OpenFiles, FlushedFiles, Complete, Live

\* What the new manifest's segments hold: for flush the memtable over the old
\* segments, which is what the engine shows; for compact what the old ones held.
LEMMA NextSegments ==
    ASSUME BaseInv, FilesInv, step \in {"manifest", "manifest_sync"}, NEW k \in Keys
    PROVE  SegmentGet(next.segment_files, dir.segs, k) =
               IF kind = "flush" THEN Get(k) ELSE SegmentGet(segments, dir.segs, k)
<1>1. /\ dir.segs[next.generation] = NewSegment /\ next.generation \in Generations
      /\ kind \in {"flush", "compact"}
      /\ next.segment_files = IF kind = "flush"
                              THEN Append(manifest.segment_files, next.generation)
                              ELSE <<next.generation>>
  BY DEF FilesInv, NextFiles, Preparing
<1>2. segments = manifest.segment_files
  BY DEF BaseInv, TypeInv, MemoryInv, Opened
<1>3. CASE kind = "flush"
  <2>1. SegmentGet(Append(segments, next.generation), dir.segs, k) =
           IF dir.segs[next.generation][k] # NoSample THEN dir.segs[next.generation][k]
           ELSE SegmentGet(segments, dir.segs, k)
    BY <1>1, BaseTypes, SegmentGetAppend
  <2>2. dir.segs[next.generation] = memtable
    BY <1>1, <1>3 DEF NewSegment
  <2> QED
    BY <1>1, <1>2, <1>3, <2>1, <2>2 DEF Get
<1>4. CASE kind = "compact"
  <2>1. SegmentGet(<<next.generation>>, dir.segs, k) = dir.segs[next.generation][k]
    BY <1>1, SegmentGetSingle
  <2>2. NewSegment[k] = SegmentGet(segments, dir.segs, k)
    BY <1>4 DEF NewSegment, Compacted, SegmentsView
  <2> QED
    BY <1>1, <1>4, <2>1, <2>2
<1> QED
  BY <1>1, <1>3, <1>4

\* The files that the next manifest names are old live ones, or the new one.
LEMMA NextLive ==
    ASSUME BaseInv, FilesInv, step \in Preparing, NEW i \in DOMAIN next.segment_files
    PROVE  \/ next.segment_files[i] = next.generation
           \/ kind = "flush" /\ \E j \in DOMAIN segments : next.segment_files[i] = segments[j]
<1>1. /\ kind \in {"flush", "compact"}
      /\ next.segment_files = IF kind = "flush"
                              THEN Append(manifest.segment_files, next.generation)
                              ELSE <<next.generation>>
  BY DEF FilesInv, NextFiles, Preparing
<1>2. segments = manifest.segment_files /\ segments \in Seq(Generations)
  BY BaseTypes DEF BaseInv, TypeInv, MemoryInv, Opened, Preparing
<1>3. CASE kind = "flush"
  <2>1. next.segment_files = Append(segments, next.generation)
    BY <1>1, <1>2, <1>3
  <2>2. i \in 1..(Len(segments) + 1)
    BY <1>2, <2>1
  <2>3. CASE i = Len(segments) + 1
    BY <1>2, <2>1, <2>3
  <2>4. CASE i \in 1..Len(segments)
    BY <1>2, <1>3, <2>1, <2>4
  <2> QED
    BY <1>2, <2>2, <2>3, <2>4
<1>4. CASE kind = "compact"
  BY <1>1, <1>4
<1> QED
  BY <1>1, <1>3, <1>4

LEMMA FilesPublishManifest ==
    ASSUME BaseInv, FilesInv, PublishManifest
    PROVE  FilesInv'
<1>1. /\ step = "manifest" /\ step' = "manifest_sync" /\ phase = "ready" /\ phase' = phase
      /\ segments' = segments /\ manifest' = manifest /\ memtable' = memtable /\ kind' = kind
      /\ next' = next /\ ddir' = ddir
  BY DEF PublishManifest
<1>2. dir'.manifest = next /\ dir'.segs = dir.segs
  BY BaseTypes DEF PublishManifest, Directory
<1>3. /\ next.generation \in Generations /\ manifest = dir.manifest
      /\ segments = dir.manifest.segment_files /\ next.generation = manifest.generation + 1
  BY <1>1, UnusedGeneration DEF Preparing, BaseInv, GenerationInv
<1>4. /\ dir.segs[next.generation] = NewSegment /\ ddir.segs[next.generation] = NewSegment
      /\ NewSegment # NoFile
  BY <1>1 DEF FilesInv, NextFiles, Preparing
<1>5. ASSUME NEW g \in Live(dir')
      PROVE  g = next.generation \/ g \in Live(dir)
  <2>1. PICK i \in DOMAIN next.segment_files : g = next.segment_files[i]
    BY <1>2 DEF Live
  <2>2. step \in Preparing
    BY <1>1 DEF Preparing
  <2> QED
    BY <1>3, <2>1, <2>2, NextLive DEF Live
<1>6. /\ \A g \in Live(dir) : g <= dir.manifest.generation /\ dir.segs[g] = ddir.segs[g]
      /\ Live(dir) \subseteq Nat
  <2>1. Live(dir) \subseteq Nat
    BY BaseTypes DEF Live
  <2> QED
    BY <2>1 DEF FilesInv, LiveFiles
<1>7. LiveFiles'
  <2>1. \A g \in Live(dir') : g <= next.generation /\ dir'.segs[g] = ddir'.segs[g]
    <3> SUFFICES ASSUME NEW g \in Live(dir')
                 PROVE  g <= next.generation /\ dir'.segs[g] = ddir'.segs[g]
      OBVIOUS
    <3>1. CASE g = next.generation
      BY <1>1, <1>2, <1>4, <3>1, BaseTypes
    <3>2. CASE g \in Live(dir)
      BY <1>1, <1>2, <1>3, <1>6, <3>2, BaseTypes
    <3> QED
      BY <1>5, <3>1, <3>2
  <2> QED
    BY <1>1, <1>2, <2>1 DEF FilesInv, LiveFiles, Live
<1>8. OpenFiles'
  <2>1. Complete(dir) /\ \A i \in DOMAIN segments : segments[i] <= manifest.generation
    BY <1>1 DEF FilesInv, OpenFiles, Opened
  <2>2. Complete(dir')
    BY <1>2, <1>4, <1>5, <2>1 DEF Complete
  <2> QED
    BY <1>1, <2>1, <2>2 DEF OpenFiles, Complete, Live
<1>9. NewSegment' = NewSegment
  BY <1>1, <1>2 DEF NewSegment, Compacted
<1>10. NextFiles'
  BY <1>1, <1>2, <1>4, <1>9 DEF FilesInv, NextFiles, Preparing
<1> QED
  BY <1>1, <1>7, <1>8, <1>10 DEF FilesInv, FlushedFiles

\* Installing the new reader set, and removing the segments that compact replaced,
\* changes nothing that a lookup returns.
LEMMA FilesInstallManifest ==
    ASSUME BaseInv, FilesInv, InstallManifest
    PROVE  /\ FilesInv'
           /\ dir'.manifest = dir.manifest
           /\ \A g \in Live(dir) : dir'.segs[g] = dir.segs[g]
<1>1. /\ step = "manifest_sync" /\ phase = "ready" /\ dir.manifest = next
      /\ ddir' = dir /\ segments' = next.segment_files /\ manifest' = next
      /\ phase' = phase /\ memtable' = memtable /\ kind \in {"flush", "compact"}
  BY DEF InstallManifest, SyncDirectory, BaseInv, MemoryInv
<1>2. next.generation \in Generations /\ next.generation = manifest.generation + 1
  BY <1>1 DEF FilesInv, NextFiles, Preparing, BaseInv, GenerationInv
<1>3. /\ dir'.manifest = dir.manifest /\ step' \in {"none", "truncate"}
      /\ (step' = "truncate" => kind = "flush" /\ dir' = dir)
      /\ \A g \in Generations : dir'.segs[g] \in {dir.segs[g], NoFile}
      /\ \A g \in Live(dir) : dir'.segs[g] = dir.segs[g]
  <2>1. CASE kind = "flush"
    BY <1>1, <2>1 DEF InstallManifest
  <2>2. CASE kind = "compact"
    <3>1. PICK gone \in SUBSET {segments[i] : i \in DOMAIN segments} :
             dir' = RemoveFiles(dir, gone)
      BY <2>2 DEF InstallManifest
    <3>2. step' = "none"
      BY <2>2 DEF InstallManifest, EndMutation
    <3>3. dir'.manifest = dir.manifest
          /\ \A g \in Generations : dir'.segs[g] = IF g \in gone THEN NoFile ELSE dir.segs[g]
      BY <3>1, BaseTypes DEF RemoveFiles, Directory
    <3>4. Live(dir) = {next.generation}
      BY <1>1, <2>2 DEF FilesInv, NextFiles, Preparing, Live
    <3>5. \A i \in DOMAIN segments : segments[i] \in Nat /\ segments[i] <= manifest.generation
      BY <1>1, BaseTypes DEF FilesInv, OpenFiles, Opened
    <3>6. next.generation \notin gone
      BY <1>2, <3>1, <3>5, BaseTypes
    <3> QED
      BY <1>2, <3>2, <3>3, <3>4, <3>6
  <2> QED
    BY <1>1, <2>1, <2>2
<1>4. Live(dir') = Live(dir) /\ Live(ddir') = Live(dir) /\ Live(dir) \subseteq Generations
  BY <1>1, <1>3, BaseTypes DEF Live
<1>5. \A g \in Live(dir) : g <= dir.manifest.generation
  BY DEF FilesInv, LiveFiles
<1>6. LiveFiles'
  BY <1>1, <1>3, <1>4, <1>5 DEF LiveFiles
<1>7. OpenFiles'
  <2>1. Complete(dir)
    BY <1>1 DEF FilesInv, OpenFiles, Opened
  <2>2. \A i \in DOMAIN segments' : segments'[i] \in Live(dir)
    BY <1>1 DEF Live
  <2> QED
    BY <1>1, <1>3, <1>4, <1>5, <2>1, <2>2 DEF OpenFiles, Complete
<1>8. NextFiles'
  BY <1>3 DEF NextFiles, Preparing
<1>9. FlushedFiles'
  <2> SUFFICES ASSUME step' = "truncate", NEW k \in Keys, memtable'[k] # NoSample
               PROVE  SegmentGet(segments', dir'.segs, k) = memtable'[k]
    BY <1>3 DEF FlushedFiles
  <2>1. SegmentGet(next.segment_files, dir.segs, k) = Get(k)
    BY <1>1, <1>3, NextSegments
  <2> QED
    BY <1>1, <1>3, <2>1 DEF Get
<1> QED
  BY <1>3, <1>6, <1>7, <1>8, <1>9 DEF FilesInv

LEMMA FilesReset ==
    ASSUME BaseInv, FilesInv, TruncateWal \/ ResetWal
    PROVE  FilesInv'
<1>1. /\ dir' = dir /\ ddir' \in {ddir, dir} /\ segments' = segments /\ manifest' = manifest
      /\ phase' = phase /\ step' \in {"truncate_sync", "none"}
      /\ (step' = "truncate_sync" => step = "truncate" /\ memtable' = memtable)
  BY DEF TruncateWal, ResetWal, SyncWal, EndMutation
<1>2. LiveFiles'
  BY <1>1, LiveFilesKept DEF FilesInv
<1> QED
  BY <1>1, <1>2 DEF FilesInv, OpenFiles, NextFiles, FlushedFiles, Complete, Live, Preparing

\* The operating system writes back one entry of the directory, or all of it.
LEMMA EntryWrittenBack ==
    ASSUME BaseInv, WriteBackDirectory
    PROVE  /\ ddir'.manifest \in {ddir.manifest, dir.manifest}
           /\ \A g \in Generations : ddir'.segs[g] \in {ddir.segs[g], dir.segs[g]}
<1>1. ddir \in Directory /\ ddir.segs \in [Generations -> Samples]
  BY BaseTypes DEF SegmentMap
<1>2. CASE ddir' = dir
  BY <1>2
<1>3. CASE ddir' = [ddir EXCEPT !.wal = dir.wal]
  BY <1>1, <1>3 DEF Directory
<1>4. CASE ddir' = [ddir EXCEPT !.manifest = dir.manifest]
  BY <1>1, <1>4 DEF Directory
<1>5. ASSUME NEW h \in Generations, ddir' = [ddir EXCEPT !.segs[h] = dir.segs[h]]
      PROVE  /\ ddir'.manifest \in {ddir.manifest, dir.manifest}
             /\ \A g \in Generations : ddir'.segs[g] \in {ddir.segs[g], dir.segs[g]}
  <2>1. ddir'.manifest = ddir.manifest /\ ddir'.segs = [ddir.segs EXCEPT ![h] = dir.segs[h]]
    BY <1>1, <1>5 DEF Directory
  <2> QED
    BY <1>1, <2>1
<1> QED
  BY <1>2, <1>3, <1>4, <1>5 DEF WriteBackDirectory

LEMMA FilesWriteBack ==
    ASSUME BaseInv, FilesInv, WriteBackDirectory
    PROVE  FilesInv'
<1>1. /\ dir' = dir /\ phase' = phase /\ step' = step /\ kind' = kind /\ next' = next
      /\ memtable' = memtable /\ segments' = segments /\ manifest' = manifest
  BY DEF WriteBackDirectory, engine
<1>2. /\ ddir'.manifest \in {ddir.manifest, dir.manifest}
      /\ \A g \in Generations : ddir'.segs[g] \in {ddir.segs[g], dir.segs[g]}
  BY EntryWrittenBack
<1>3. Live(dir) \subseteq Generations /\ Live(ddir) \subseteq Generations
  BY BaseTypes DEF Live
<1>4. Live(dir') = Live(dir)
      /\ (ddir'.manifest = dir.manifest => Live(ddir') = Live(dir))
      /\ (ddir'.manifest = ddir.manifest => Live(ddir') = Live(ddir))
  BY <1>1 DEF Live
<1>5. LiveFiles'
  <2>1. \A g \in Live(dir) : g <= dir.manifest.generation /\ dir.segs[g] = ddir'.segs[g]
    BY <1>2, <1>3 DEF FilesInv, LiveFiles
  <2>2. CASE ddir'.manifest = dir.manifest
    BY <1>1, <1>4, <2>1, <2>2 DEF LiveFiles
  <2>3. CASE ddir'.manifest = ddir.manifest
    <3>1. \A g \in Live(ddir) : /\ g <= ddir.manifest.generation
                                /\ dir.segs[g] \in {ddir'.segs[g], NoFile}
      BY <1>2, <1>3 DEF FilesInv, LiveFiles
    <3> QED
      BY <1>1, <1>4, <2>1, <2>3, <3>1 DEF LiveFiles
  <2> QED
    BY <1>2, <2>2, <2>3
<1>6. NewSegment' = NewSegment
  BY <1>1 DEF NewSegment, Compacted
<1>7. NextFiles'
  <2>1. step = "manifest" => ddir'.segs[next.generation] = NewSegment
    BY <1>2 DEF FilesInv, NextFiles, Preparing
  <2> QED
    BY <1>1, <1>6, <2>1 DEF FilesInv, NextFiles
<1> QED
  BY <1>1, <1>5, <1>7 DEF FilesInv, OpenFiles, FlushedFiles, Complete, Live

LEMMA FilesStop ==
    ASSUME BaseInv, FilesInv,
           Fail \/ Stop \/ PowerLoss \/ WriteBackWal \/ UNCHANGED vars
    PROVE  FilesInv'
<1>1. CASE Fail \/ Stop
  <2>1. dir' = dir /\ ddir' = ddir /\ step' = "none" /\ phase' \in {"failed", "closed"}
    BY <1>1 DEF Fail, Stop, LoseMemory, EndMutation, disk
  <2>2. LiveFiles'
    BY <2>1, LiveFilesKept DEF FilesInv
  <2> QED
    BY <2>1, <2>2 DEF FilesInv, OpenFiles, NextFiles, FlushedFiles, Preparing, Opened
<1>2. CASE PowerLoss
  <2>1. dir' = ddir /\ ddir' = ddir /\ step' = "none" /\ phase' = "closed"
    BY <1>2 DEF PowerLoss, LoseMemory, EndMutation
  <2>2. LiveFiles'
    BY <2>1 DEF FilesInv, LiveFiles, Live
  <2> QED
    BY <2>1, <2>2 DEF FilesInv, OpenFiles, NextFiles, FlushedFiles, Preparing, Opened
<1>3. CASE WriteBackWal \/ UNCHANGED vars
  <2>1. /\ dir' = dir /\ phase' = phase /\ step' = step /\ kind' = kind /\ next' = next
        /\ memtable' = memtable /\ segments' = segments /\ manifest' = manifest /\ ddir' = ddir
    BY <1>3 DEF WriteBackWal, engine, vars, disk
  <2>2. NewSegment' = NewSegment
    BY <2>1 DEF NewSegment, Compacted
  <2>3. LiveFiles'
    BY <2>1, LiveFilesKept DEF FilesInv
  <2>4. NextFiles'
    BY <2>1, <2>2 DEF FilesInv, NextFiles
  <2> QED
    BY <2>1, <2>3, <2>4 DEF FilesInv, OpenFiles, FlushedFiles, Complete, Live
<1> QED
  BY <1>1, <1>2, <1>3

LEMMA FilesInvariant == Spec => [](BaseInv /\ FilesInv)
<1>1. Init => FilesInv
  <2> SUFFICES ASSUME Init PROVE FilesInv
    OBVIOUS
  <2>1. Live(dir) = {} /\ Live(ddir) = {} /\ step = "none" /\ phase = "closed"
    BY DEF Init, Live, EmptyDirectory, EmptyManifest
  <2> QED
    BY <2>1 DEF FilesInv, LiveFiles, OpenFiles, NextFiles, FlushedFiles, Preparing, Opened
<1>2. BaseInv /\ FilesInv /\ [Next]_vars => FilesInv'
  BY FilesRecover, FilesPut, FilesBegin, FilesPublishSegment, FilesSyncSegment,
     FilesPublishManifest, FilesInstallManifest, FilesReset, FilesWriteBack, FilesStop
     DEF Next, Mutate, WriteBack
<1> QED
  BY <1>1, <1>2, TypeInvariant, MemoryInvariant, GenerationInvariant, PTL DEF Spec, BaseInv

-----------------------------------------------------------------------------
(* What the steps do to the live segments.                                 *)

\* Only the new manifest of a flush or compact, or a power loss, changes what the
\* live segments are; no step changes what is in them.
LEMMA LiveSegmentsKept ==
    ASSUME BaseInv, FilesInv, [Next]_vars, ~PublishManifest, ~PowerLoss
    PROVE  /\ dir'.manifest = dir.manifest
           /\ \A g \in Live(dir) : dir'.segs[g] = dir.segs[g]
<1>0. Live(dir) \subseteq Generations
  BY BaseTypes DEF Live
<1>1. CASE SweepDirectory
  <2>1. PICK gone \in SUBSET Orphans(dir), temps \in SUBSET dir.temps :
           dir' = [RemoveFiles(dir, gone) EXCEPT !.temps = temps]
    BY <1>1 DEF SweepDirectory
  <2> QED
    BY <1>0, <2>1, BaseTypes DEF RemoveFiles, Directory, Orphans
<1>2. CASE PublishSegment
  <2>1. next.generation \notin Live(dir)
    BY <1>2, UnusedGeneration DEF PublishSegment, Preparing
  <2> QED
    BY <1>0, <1>2, <2>1, BaseTypes DEF PublishSegment, Directory
<1>3. CASE InstallManifest
  BY <1>3, FilesInstallManifest
<1>4. CASE FlushBegin \/ CompactBegin \/ CreateWal
  BY <1>4, BaseTypes DEF FlushBegin, CompactBegin, WriteTemporary, CreateWal, Directory
<1>5. CASE LoadManifest \/ ReplayWal \/ SyncRecoveredWal \/ SyncSegment \/ TruncateWal \/ ResetWal
  BY <1>5 DEF LoadManifest, ReplayWal, SyncRecoveredWal, SyncSegment, TruncateWal, ResetWal, disk
<1>6. CASE (\E k \in Keys : PutBegin(k)) \/ PutWrite \/ PutSync \/ Sync
  BY <1>6 DEF PutBegin, PutWrite, PutSync, Sync
<1>7. CASE Fail \/ Stop \/ WriteBack \/ UNCHANGED vars
  BY <1>7 DEF Fail, Stop, WriteBack, WriteBackWal, WriteBackDirectory, disk, vars
<1> QED
  BY <1>1, <1>2, <1>3, <1>4, <1>5, <1>6, <1>7 DEF Next, Recover, Mutate

\* Directories with the same manifest and the same live segments hold the same.
LEMMA SameSegments ==
    ASSUME NEW d, NEW e, d.manifest.segment_files \in Seq(Generations),
           e.manifest = d.manifest, \A g \in Live(d) : e.segs[g] = d.segs[g]
    PROVE  /\ \A k \in Keys : Segs(e, k) = Segs(d, k)
           /\ Complete(e) <=> Complete(d)
           /\ UniqueKeys(e) = UniqueKeys(d)
           /\ Counted(e) <=> Counted(d)
<1>1. \A i \in DOMAIN d.manifest.segment_files :
         e.segs[d.manifest.segment_files[i]] = d.segs[d.manifest.segment_files[i]]
  BY DEF Live
<1>2. ASSUME NEW k \in Keys PROVE Segs(e, k) = Segs(d, k)
  <2>1. SegmentGet(d.manifest.segment_files, e.segs, k) =
           SegmentGet(d.manifest.segment_files, d.segs, k)
    BY <1>1, SegmentGetSame
  <2> QED
    BY <2>1 DEF Segs
<1>3. Complete(e) <=> Complete(d)
  BY DEF Complete, Live
<1>4. SegmentsView(e.manifest.segment_files, e.segs) = SegmentsView(d.manifest.segment_files, d.segs)
  BY <1>2 DEF SegmentsView, Segs
<1>5. UniqueKeys(e) = UniqueKeys(d)
  BY <1>4 DEF UniqueKeys
<1> QED
  BY <1>2, <1>3, <1>5 DEF Counted

LEMMA SegsKept ==
    ASSUME BaseInv, FilesInv, [Next]_vars, ~PublishManifest, ~PowerLoss
    PROVE  /\ \A k \in Keys : Segs(dir', k) = Segs(dir, k)
           /\ Counted(dir) => Counted(dir')
BY LiveSegmentsKept, SameSegments, BaseTypes

-----------------------------------------------------------------------------
(* Counts.                                                                 *)

\* The durable manifest counts the keys of its segments, or misses one of them.
LEMMA DurableCounted ==
    ASSUME BaseInv, FilesInv, CountInv, [Next]_vars
    PROVE  Counted(ddir')
<1>1. CASE ddir' \in {ddir, dir}
  BY <1>1 DEF CountInv
<1>2. CASE WriteBackDirectory /\ ddir' # dir
  <2>0. Live(dir) \subseteq Generations /\ Live(ddir) \subseteq Generations
    BY BaseTypes DEF Live
  <2>1. CASE ddir' = [ddir EXCEPT !.wal = dir.wal]
    <3>1. ddir'.manifest = ddir.manifest /\ ddir'.segs = ddir.segs
      BY <2>1, BaseTypes DEF Directory
    <3> QED
      BY <3>1, SameSegments, BaseTypes DEF CountInv
  <2>2. CASE ddir' = [ddir EXCEPT !.manifest = dir.manifest]
    <3>1. ddir'.manifest = dir.manifest /\ ddir'.segs = ddir.segs
      BY <2>2, BaseTypes DEF Directory
    <3>2. \A g \in Live(dir) : ddir'.segs[g] = dir.segs[g]
      BY <3>1 DEF FilesInv, LiveFiles
    <3> QED
      BY <3>1, <3>2, SameSegments, BaseTypes DEF CountInv
  <2>3. ASSUME NEW h \in Generations, ddir' = [ddir EXCEPT !.segs[h] = dir.segs[h]]
        PROVE  Counted(ddir')
    <3>1. /\ ddir'.manifest = ddir.manifest
          /\ \A g \in Generations : ddir'.segs[g] = IF g = h THEN dir.segs[h] ELSE ddir.segs[g]
      BY <2>3, BaseTypes DEF Directory
    <3>2. CASE h \in Live(ddir) /\ dir.segs[h] = NoFile
      <4>1. Live(ddir') = Live(ddir) /\ ddir'.segs[h] = NoFile
        BY <3>1, <3>2 DEF Live
      <4> QED
        BY <3>2, <4>1 DEF Counted, Complete
    <3>3. CASE ~(h \in Live(ddir) /\ dir.segs[h] = NoFile)
      <4>1. \A g \in Live(ddir) : ddir'.segs[g] = ddir.segs[g]
        BY <2>0, <3>1, <3>3 DEF FilesInv, LiveFiles
      <4> QED
        BY <3>1, <4>1, SameSegments, BaseTypes DEF CountInv
    <3> QED
      BY <3>2, <3>3
  <2> QED
    BY <1>2, <2>1, <2>2, <2>3 DEF WriteBackDirectory
<1>3. WriteBackDirectory \/ ddir' \in {ddir, dir}
  BY DEF Next, Recover, Mutate, LoadManifest, SweepDirectory, CreateWal, ReplayWal,
         SyncRecoveredWal, PutBegin, PutWrite, PutSync, Sync, FlushBegin, CompactBegin,
         WriteTemporary, PublishSegment, SyncSegment, PublishManifest, InstallManifest,
         TruncateWal, ResetWal, Fail, Stop, PowerLoss, WriteBack, WriteBackWal,
         SyncWal, SyncDirectory, disk, engine, vars
<1> QED
  BY <1>1, <1>2, <1>3

\* The manifest that flush or compact publishes counts the keys of its segments.
LEMMA PublishedCounted ==
    ASSUME BaseInv, FilesInv, CountInv, PublishManifest
    PROVE  Counted(dir')
<1>1. step = "manifest" /\ phase = "ready" /\ manifest = dir.manifest
      /\ segments = dir.manifest.segment_files /\ kind \in {"flush", "compact"}
  BY UnusedGeneration DEF PublishManifest, Preparing, FilesInv, NextFiles
<1>2. dir'.manifest = next /\ dir'.segs = dir.segs
  BY BaseTypes DEF PublishManifest, Directory
<1>3. CASE kind = "flush"
  <2>1. SegmentsView(next.segment_files, dir.segs) = View
    BY <1>1, <1>3, NextSegments DEF SegmentsView, View
  <2>2. next.logical_sample_count = Cardinality(KeysOf(View))
    BY <1>1, <1>3 DEF CountInv, Preparing
  <2> QED
    BY <1>2, <2>1, <2>2 DEF Counted, UniqueKeys
<1>4. CASE kind = "compact"
  <2>1. SegmentsView(next.segment_files, dir.segs)
           = SegmentsView(dir.manifest.segment_files, dir.segs)
    BY <1>1, <1>4, NextSegments DEF SegmentsView
  <2>2. next.logical_sample_count = dir.manifest.logical_sample_count
    BY <1>1, <1>4 DEF CountInv, Preparing
  <2>3. Complete(dir)
    BY <1>1 DEF FilesInv, OpenFiles, Opened
  <2> QED
    BY <1>2, <2>1, <2>2, <2>3 DEF Counted, UniqueKeys, CountInv
<1> QED
  BY <1>1, <1>3, <1>4

\* put counts a key that neither the memtable nor a segment has.
LEMMA CountInsert ==
    ASSUME BaseInv, logical_sample_count = Cardinality(KeysOf(View)),
           NEW r \in Record, InsertRecord(r), segments' = segments, dir' = dir
    PROVE  logical_sample_count' = Cardinality(KeysOf(View)')
<1>1. r.key \in Keys /\ r.value # NoSample
  BY BoundsAreNat DEF Record, Puts, NoSample
<1>2. \A k \in Keys : Get(k)' = IF k = r.key THEN r.value ELSE Get(k)
  BY <1>1, BaseTypes DEF InsertRecord, Get, Samples
<1>3. KeysOf(View)' = KeysOf(View) \cup {r.key}
  BY <1>1, <1>2 DEF KeysOf, View
<1>4. IsFiniteSet(KeysOf(View))
  BY CardinalityOfKeys DEF KeysOf
<1>5. Cardinality(KeysOf(View) \cup {r.key}) =
         IF r.key \in KeysOf(View) THEN Cardinality(KeysOf(View))
         ELSE Cardinality(KeysOf(View)) + 1
  BY <1>4, FS_AddElement
<1>6. Contains(r.key) <=> r.key \in KeysOf(View)
  BY <1>1 DEF Contains, KeysOf, View
<1> QED
  BY <1>3, <1>5, <1>6 DEF InsertRecord

\* Replay adds the logged keys that no live segment has to the manifest's count.
LEMMA CountReplay ==
    ASSUME BaseInv, FilesInv, CountInv, ReplayWal
    PROVE  logical_sample_count' = Cardinality(KeysOf(View)')
<1> DEFINE R == Replay(wal.records)
           old == KeysOf(SegmentsView(segments, dir.segs))
           fresh == {k \in KeysOf(R) : SegmentGet(segments, dir.segs, k) = NoSample}
<1>1. /\ phase = "swept" /\ memtable' = R /\ dir' = dir /\ segments' = segments
      /\ logical_sample_count' = manifest.logical_sample_count + Cardinality(fresh)
  BY DEF ReplayWal, RecoveredCount
<1>2. Complete(dir) /\ manifest = dir.manifest /\ segments = dir.manifest.segment_files
  BY <1>1 DEF BaseInv, TypeInv, MemoryInv, FilesInv, OpenFiles, Opened
<1>3. manifest.logical_sample_count = Cardinality(old)
  BY <1>2 DEF CountInv, Counted, UniqueKeys
<1>4. \A k \in Keys : Get(k)' = IF R[k] # NoSample THEN R[k] ELSE SegmentGet(segments, dir.segs, k)
  BY <1>1 DEF Get
<1>5. KeysOf(View)' = old \cup fresh
  BY <1>4 DEF KeysOf, View, SegmentsView
<1>6. old \cap fresh = {}
  BY DEF KeysOf, SegmentsView
<1>7. /\ IsFiniteSet(old) /\ Cardinality(old) \in Nat
      /\ IsFiniteSet(fresh) /\ Cardinality(fresh) \in Nat
  BY CardinalityOfKeys DEF KeysOf
<1>8. Cardinality(old \cup fresh) = Cardinality(old) + Cardinality(fresh)
  <2> HIDE DEF old, fresh
  <2>1. Cardinality(old \cup fresh) =
           Cardinality(old) + Cardinality(fresh) - Cardinality(old \cap fresh)
    BY <1>7, FS_Union
  <2>2. Cardinality(old \cap fresh) = 0
    BY <1>6, FS_EmptySet
  <2> QED
    BY <1>7, <2>1, <2>2
<1> QED
  BY <1>1, <1>3, <1>5, <1>8

\* The other steps of an open engine do not change what it shows.
LEMMA ViewKept ==
    ASSUME BaseInv, FilesInv, phase \in {"repaired", "ready"},
           SyncRecoveredWal \/ (\E k \in Keys : PutBegin(k)) \/ Sync \/ FlushBegin \/ CompactBegin
             \/ PublishSegment \/ SyncSegment \/ PublishManifest \/ InstallManifest
             \/ TruncateWal \/ ResetWal \/ WriteBack \/ UNCHANGED vars
    PROVE  View' = View
<1>1. CASE PublishSegment
  <2>1. /\ memtable' = memtable /\ segments' = segments /\ dir'.manifest = dir.manifest
        /\ segments = dir.manifest.segment_files
    BY <1>1, UnusedGeneration, BaseTypes DEF PublishSegment, Preparing, Directory
  <2>2. \A k \in Keys : SegmentGet(segments', dir'.segs, k) = SegmentGet(segments, dir.segs, k)
    BY <1>1, <2>1, FilesPublishSegment DEF Segs
  <2> QED
    BY <2>1, <2>2 DEF View, Get
<1>2. CASE InstallManifest
  <2>1. /\ step = "manifest_sync" /\ dir.manifest = next /\ segments' = next.segment_files
        /\ memtable' = memtable /\ kind \in {"flush", "compact"}
    BY <1>2 DEF InstallManifest, BaseInv, MemoryInv
  <2>2. /\ dir'.manifest = dir.manifest
        /\ \A g \in Live(dir) : dir'.segs[g] = dir.segs[g]
    BY <1>2, FilesInstallManifest
  <2>3. ASSUME NEW k \in Keys PROVE Get(k)' = Get(k)
    <3>1. SegmentGet(next.segment_files, dir'.segs, k) = SegmentGet(next.segment_files, dir.segs, k)
      <4>1. Segs(dir', k) = Segs(dir, k)
        BY <2>2, SameSegments, BaseTypes
      <4> QED
        BY <2>1, <2>2, <4>1 DEF Segs
    <3>2. SegmentGet(next.segment_files, dir.segs, k) =
             IF kind = "flush" THEN Get(k) ELSE SegmentGet(segments, dir.segs, k)
      BY <2>1, NextSegments
    <3> QED
      BY <2>1, <3>1, <3>2 DEF Get
  <2> QED
    BY <2>3 DEF View
<1>3. CASE ResetWal
  <2>1. /\ step = "truncate_sync" /\ memtable' = NoSamples /\ segments' = segments /\ dir' = dir
    BY <1>3 DEF ResetWal
  <2>2. \A k \in Keys : memtable[k] # NoSample => SegmentGet(segments, dir.segs, k) = memtable[k]
    BY <2>1 DEF FilesInv, FlushedFiles
  <2>3. \A k \in Keys : Get(k)' = Get(k)
    BY <2>1, <2>2 DEF Get, NoSamples
  <2> QED
    BY <2>3 DEF View
<1>4. CASE FlushBegin \/ CompactBegin \/ PublishManifest
  <2>1. memtable' = memtable /\ segments' = segments /\ dir'.segs = dir.segs
    BY <1>4, BaseTypes DEF FlushBegin, CompactBegin, WriteTemporary, PublishManifest, Directory
  <2> QED
    BY <2>1 DEF View, Get
<1>5. CASE SyncRecoveredWal \/ (\E k \in Keys : PutBegin(k)) \/ Sync \/ SyncSegment
             \/ TruncateWal \/ WriteBack \/ UNCHANGED vars
  <2>1. memtable' = memtable /\ segments' = segments /\ dir' = dir
    BY <1>5 DEF SyncRecoveredWal, PutBegin, Sync, SyncSegment, TruncateWal, WriteBack,
                WriteBackWal, WriteBackDirectory, vars, disk, engine
  <2> QED
    BY <2>1 DEF View, Get
<1> QED
  BY <1>1, <1>2, <1>3, <1>4, <1>5

\* What recovery and the open engine count.
LEMMA CountMemory ==
    ASSUME BaseInv, FilesInv, CountInv, [Next]_vars
    PROVE  /\ phase' \in {"loaded", "swept", "created"} =>
                 logical_sample_count' = manifest'.logical_sample_count
           /\ phase' \in {"repaired", "ready"} =>
                 logical_sample_count' = Cardinality(KeysOf(View)')
<1>1. CASE LoadManifest \/ SweepDirectory \/ CreateWal
  BY <1>1 DEF LoadManifest, SweepDirectory, CreateWal, CountInv
<1>2. CASE ReplayWal
  <2>1. phase' \in {"ready", "repaired"}
    BY <1>2 DEF ReplayWal
  <2> QED
    BY <1>2, <2>1, CountReplay
<1>3. CASE SyncRecoveredWal /\ phase = "created"
  <2>1. /\ memtable = NoSamples /\ memtable' = memtable /\ segments' = segments /\ dir' = dir
        /\ phase' = "ready" /\ logical_sample_count' = logical_sample_count
        /\ segments = dir.manifest.segment_files /\ manifest = dir.manifest /\ Complete(dir)
    BY <1>3 DEF SyncRecoveredWal, BaseInv, TypeInv, MemoryInv, FilesInv, OpenFiles, Opened
  <2>2. View' = SegmentsView(dir.manifest.segment_files, dir.segs)
    BY <2>1 DEF View, Get, SegmentsView, NoSamples
  <2>3. KeysOf(View)' = KeysOf(SegmentsView(dir.manifest.segment_files, dir.segs))
    BY <2>2 DEF KeysOf
  <2> QED
    BY <1>3, <2>1, <2>3 DEF CountInv, Counted, UniqueKeys
<1>4. CASE PutWrite \/ PutSync
  <2>1. /\ phase = "ready" /\ phase' = "ready" /\ segments' = segments /\ dir' = dir
        /\ logical_sample_count = Cardinality(KeysOf(View))
    BY <1>4 DEF PutWrite, PutSync, CountInv
  <2>2. \/ \E r \in Record : InsertRecord(r)
        \/ UNCHANGED <<memtable, logical_sample_count>>
    <3>1. CASE PutWrite
      <4>1. wal.tail[1] \in Record
        BY <3>1 DEF PutWrite, BaseInv, TypeInv, TypeOK, Log
      <4> QED
        BY <3>1, <4>1 DEF PutWrite
    <3>2. CASE PutSync
      <4>1. LastRecord \in Record
        BY <3>2, StoreTypes DEF PutSync, LastRecord, BaseInv, TypeInv, Log
      <4> QED
        BY <3>2, <4>1 DEF PutSync, LastRecord
    <3> QED
      BY <1>4, <3>1, <3>2
  <2>3. CASE UNCHANGED <<memtable, logical_sample_count>>
    <3>1. View' = View
      BY <2>1, <2>3 DEF View, Get
    <3> QED
      BY <2>1, <2>3, <3>1 DEF KeysOf
  <2> QED
    BY <2>1, <2>2, <2>3, CountInsert
<1>5. CASE \/ SyncRecoveredWal /\ phase = "repaired"
           \/ \E k \in Keys : PutBegin(k)
           \/ Sync
           \/ FlushBegin \/ CompactBegin \/ PublishSegment \/ SyncSegment \/ PublishManifest
           \/ InstallManifest \/ TruncateWal \/ ResetWal
  <2>1. /\ phase \in {"repaired", "ready"} /\ phase' = "ready"
        /\ logical_sample_count' = logical_sample_count
    BY <1>5 DEF SyncRecoveredWal, PutBegin, Sync, FlushBegin, CompactBegin, WriteTemporary,
                PublishSegment, SyncSegment, PublishManifest, InstallManifest, TruncateWal,
                ResetWal, Idle, engine
  <2>2. View' = View
    BY <1>5, <2>1, ViewKept
  <2> QED
    BY <2>1, <2>2 DEF CountInv, KeysOf
<1>6. CASE WriteBack \/ UNCHANGED vars
  <2>1. /\ phase' = phase /\ logical_sample_count' = logical_sample_count /\ manifest' = manifest
    BY <1>6 DEF WriteBack, WriteBackWal, WriteBackDirectory, vars, engine
  <2>2. phase \in {"repaired", "ready"} => View' = View
    BY <1>6, ViewKept
  <2> QED
    BY <2>1, <2>2 DEF CountInv, KeysOf
<1>7. CASE Fail \/ Stop \/ PowerLoss
  <2>1. phase' \in {"failed", "closed"}
    BY <1>7 DEF Fail, Stop, PowerLoss, LoseMemory
  <2> QED
    BY <2>1
<1>8. SyncRecoveredWal => phase \in {"created", "repaired"}
  BY DEF SyncRecoveredWal
<1> QED
  BY <1>1, <1>2, <1>3, <1>4, <1>5, <1>6, <1>7, <1>8 DEF Next, Recover, Mutate

\* The count that the next manifest will carry.
LEMMA CountNext ==
    ASSUME BaseInv, CountInv, [Next]_vars, step' \in Preparing
    PROVE  next'.logical_sample_count = IF kind' = "flush" THEN logical_sample_count'
                                        ELSE manifest'.logical_sample_count
<1>1. CASE FlushBegin
  BY <1>1 DEF FlushBegin, WriteTemporary, FlushManifest
<1>2. CASE CompactBegin
  BY <1>2 DEF CompactBegin, WriteTemporary, CompactManifest
<1>3. CASE PublishSegment \/ SyncSegment \/ PublishManifest \/ WriteBack \/ UNCHANGED vars
  <2>1. /\ next' = next /\ kind' = kind /\ logical_sample_count' = logical_sample_count
        /\ manifest' = manifest /\ step \in Preparing
    BY <1>3 DEF PublishSegment, SyncSegment, PublishManifest, WriteBack, WriteBackWal,
                WriteBackDirectory, vars, engine, Preparing
  <2> QED
    BY <2>1 DEF CountInv
<1>4. CASE Recover
  <2>1. step' = "none"
    BY <1>4 DEF Recover, LoadManifest, SweepDirectory, CreateWal, ReplayWal, SyncRecoveredWal,
                BaseInv, TypeInv
  <2> QED
    BY <2>1 DEF Preparing
<1>5. CASE (\E k \in Keys : PutBegin(k)) \/ PutWrite \/ PutSync \/ Sync
  <2>1. step' \in {"none", "append", "append_sync"}
    BY <1>5 DEF PutBegin, PutWrite, PutSync, Sync, Idle, engine
  <2> QED
    BY <2>1 DEF Preparing
<1>6. CASE InstallManifest \/ TruncateWal \/ ResetWal \/ Fail \/ Stop \/ PowerLoss
  <2>1. step' \in {"none", "truncate", "truncate_sync"}
    BY <1>6 DEF InstallManifest, TruncateWal, ResetWal, Fail, Stop, PowerLoss, LoseMemory,
                EndMutation
  <2> QED
    BY <2>1 DEF Preparing
<1> QED
  BY <1>1, <1>2, <1>3, <1>4, <1>5, <1>6 DEF Next, Mutate

LEMMA CountInvariant == Spec => [](BaseInv /\ FilesInv /\ CountInv)
<1>1. Init => CountInv
  <2> SUFFICES ASSUME Init PROVE CountInv
    OBVIOUS
  <2>1. /\ dir = EmptyDirectory /\ ddir = EmptyDirectory /\ phase = "closed" /\ step = "none"
    BY DEF Init
  <2>2. /\ EmptyDirectory.manifest.segment_files = <<>>
        /\ EmptyDirectory.manifest.logical_sample_count = 0
    BY DEF EmptyDirectory, EmptyManifest
  <2>3. KeysOf(SegmentsView(<<>>, EmptyDirectory.segs)) = {}
    BY SegmentGetEmpty DEF KeysOf, SegmentsView
  <2>4. Counted(EmptyDirectory)
    BY <2>2, <2>3, FS_EmptySet DEF Counted, UniqueKeys
  <2> QED
    BY <2>1, <2>4 DEF CountInv, Preparing
<1>2. BaseInv /\ FilesInv /\ CountInv /\ [Next]_vars => CountInv'
  <2> SUFFICES ASSUME BaseInv, FilesInv, CountInv, [Next]_vars PROVE CountInv'
    OBVIOUS
  <2>1. Counted(ddir')
    BY DurableCounted
  <2>2. Counted(dir')
    <3>1. CASE PublishManifest
      BY <3>1, PublishedCounted
    <3>2. CASE PowerLoss
      BY <3>2 DEF PowerLoss, CountInv
    <3> QED
      BY <3>1, <3>2, SegsKept DEF CountInv
  <2>3. Counted(dir)' /\ Counted(ddir)'
    BY <2>1, <2>2
  <2> QED
    BY <2>3, CountMemory, CountNext DEF CountInv
<1> QED
  BY <1>1, <1>2, FilesInvariant, PTL DEF Spec

\* The counts are exact whatever crashed before and on whatever file system: the
\* count that recovery rebuilds from the manifest and the log, and that every put
\* updates, is the number of unique keys; and the manifest's count is that of its
\* segments, so that compact, which compares the two, never refuses to run.
THEOREM CountsStayExact == Spec => []CountsAreExact
<1>1. BaseInv /\ FilesInv /\ CountInv => CountsAreExact
  <2> SUFFICES ASSUME BaseInv, FilesInv, CountInv, Idle
               PROVE  /\ logical_sample_count = Cardinality(KeysOf(View))
                      /\ manifest.logical_sample_count =
                             Cardinality(KeysOf(SegmentsView(segments, dir.segs)))
    BY DEF CountsAreExact
  <2>1. Complete(dir) /\ manifest = dir.manifest /\ segments = dir.manifest.segment_files
    BY DEF BaseInv, MemoryInv, FilesInv, OpenFiles, Opened, Idle
  <2> QED
    BY <2>1 DEF CountInv, Counted, UniqueKeys, Idle
<1> QED
  BY <1>1, CountInvariant, PTL

-----------------------------------------------------------------------------
(* Age: the value of a put is newer than everything before it.             *)

\* What replay and a lookup return was in a record or a segment.
LEMMA ReplayAge ==
    ASSUME NEW records \in Seq(Record), NEW n \in Nat,
           \A i \in DOMAIN records : records[i].value <= n, NEW k \in Keys
    PROVE  Replay(records)[k] <= n
<1> DEFINE hits == {i \in DOMAIN records : records[i].key = k}
<1>1. Replay(records)[k] = IF hits = {} THEN NoSample ELSE records[Max(hits)].value
  BY DEF Replay
<1>2. CASE hits = {}
  BY <1>1, <1>2 DEF NoSample
<1>3. CASE hits # {}
  <2>1. hits \in SUBSET (1..Len(records)) /\ Len(records) \in Nat
    OBVIOUS
  <2>2. Max(hits) \in hits
    BY <1>3, <2>1, MaxOfIndexes, Zenon
  <2>3. Max(hits) \in DOMAIN records
    BY <2>2
  <2> QED
    BY <1>1, <1>3, <2>3
<1> QED
  BY <1>2, <1>3

LEMMA SegmentAge ==
    ASSUME NEW files \in Seq(Generations), NEW segs, NEW n \in Nat, NEW k \in Keys,
           \A g \in Generations : segs[g][k] <= n
    PROVE  SegmentGet(files, segs, k) <= n
<1> DEFINE hits == {i \in DOMAIN files : segs[files[i]][k] # NoSample}
<1>1. CASE hits = {}
  BY <1>1 DEF SegmentGet, NoSample
<1>2. CASE hits # {}
  <2>1. hits \in SUBSET (1..Len(files)) /\ Len(files) \in Nat
    OBVIOUS
  <2>2. Max(hits) \in hits
    BY <1>2, <2>1, MaxOfIndexes, Zenon
  <2>3. files[Max(hits)] \in Generations
    BY <2>2
  <2> QED
    BY <1>2, <2>3 DEF SegmentGet
<1> QED
  BY <1>1, <1>2

LEMMA NewestType ==
    ASSUME BaseInv, AgeInv
    PROVE  Newest \in Nat /\ nput \in Nat /\ Newest <= nput /\ (step = "append" => Newest < nput)
<1>1. nput \in Nat
  BY StoreTypes
<1>2. step = "append" => nput # 0
  <2> SUFFICES ASSUME step = "append" PROVE nput # 0
    OBVIOUS
  <2>1. wal.tail[1] \in Record /\ wal.tail[1].value = nput
    BY DEF BaseInv, TypeInv, TypeOK, Log, AgeInv
  <2> QED
    BY <2>1, BoundsAreNat DEF Record, Puts
<1> QED
  BY <1>1, <1>2 DEF Newest

\* A step that writes no value, but moves what is there, ages nothing.
LEMMA AgeMoved ==
    ASSUME BaseInv, AgeInv, nput' = nput,
           step' = "append" => step = "append" /\ wal' = wal,
           step = "append" => step' \in {"append", "none"},
           wal'.records \in {wal.records, dwal.records, <<>>},
           dwal'.records \in {wal.records, dwal.records, <<>>},
           \A g \in Generations, k \in Keys :
              /\ dir'.segs[g][k] \in {NoSample, dir.segs[g][k], ddir.segs[g][k], memtable[k],
                                      SegmentGet(segments, dir.segs, k)}
              /\ ddir'.segs[g][k] \in {dir.segs[g][k], ddir.segs[g][k]},
           \A k \in Keys : memtable'[k] \in {NoSample, memtable[k], Replay(wal.records)[k]}
    PROVE  AgeInv'
<1>1. Newest \in Nat /\ nput \in Nat /\ Newest <= nput
  BY NewestType
<1>2. Newest' \in Nat /\ Newest <= Newest'
  BY <1>1 DEF Newest
<1>3. wal.records \in Seq(Record) /\ dwal.records \in Seq(Record)
  BY StoreTypes DEF Log
<1>4. \A k \in Keys : Replay(wal.records)[k] <= Newest /\ Replay(wal.records)[k] \in Nat
  BY <1>1, <1>3, ReplayAge, StoreTypes DEF AgeInv
<1>5. \A k \in Keys : /\ SegmentGet(segments, dir.segs, k) <= Newest
                      /\ SegmentGet(segments, dir.segs, k) \in Nat
  <2> TAKE k \in Keys
  <2>1. SegmentGet(segments, dir.segs, k) \in Puts \cup {NoSample}
    BY BaseTypes, SegmentGetType
  <2>2. SegmentGet(segments, dir.segs, k) <= Newest
    BY <1>1, BaseTypes, SegmentAge DEF AgeInv
  <2> QED
    BY <2>1, <2>2, BoundsAreNat DEF Puts, NoSample
<1>6. \A g \in Generations, k \in Keys : dir.segs[g][k] \in Nat /\ ddir.segs[g][k] \in Nat
  <2> TAKE g \in Generations, k \in Keys
  <2>1. dir.segs[g] \in Samples /\ ddir.segs[g] \in Samples
    BY BaseTypes DEF SegmentMap
  <2>2. dir.segs[g][k] \in Puts \cup {NoSample} /\ ddir.segs[g][k] \in Puts \cup {NoSample}
    BY <2>1 DEF Samples
  <2> QED
    BY <2>2, BoundsAreNat DEF Puts, NoSample
<1>7. \A w \in {wal', dwal'} : \A i \in DOMAIN w.records : w.records[i].value <= Newest'
  <2> SUFFICES ASSUME NEW w \in {wal', dwal'}, NEW i \in DOMAIN w.records
               PROVE  w.records[i].value <= Newest'
    OBVIOUS
  <2>1. w.records \in {wal.records, dwal.records}
    OBVIOUS
  <2>2. w.records[i].value <= Newest
    BY <2>1 DEF AgeInv
  <2>3. w.records[i] \in Record
    BY <1>3, <2>1
  <2>4. w.records[i].value \in Nat
    BY <2>3, BoundsAreNat DEF Record, Puts
  <2> QED
    BY <1>1, <1>2, <2>2, <2>4
<1>8. \A g \in Generations, k \in Keys : dir'.segs[g][k] <= Newest' /\ ddir'.segs[g][k] <= Newest'
  <2> TAKE g \in Generations, k \in Keys
  <2>1. /\ dir.segs[g][k] <= Newest /\ ddir.segs[g][k] <= Newest /\ memtable[k] <= Newest
        /\ memtable[k] \in Nat
    BY StoreTypes DEF AgeInv
  <2>2. dir'.segs[g][k] \in {NoSample, dir.segs[g][k], ddir.segs[g][k], memtable[k],
                             SegmentGet(segments, dir.segs, k)}
    OBVIOUS
  <2>3. \A v \in Nat : v <= Newest => v <= Newest'
    BY <1>1, <1>2
  <2>4. ddir'.segs[g][k] \in {dir.segs[g][k], ddir.segs[g][k]}
    OBVIOUS
  <2>5. dir'.segs[g][k] \in Nat /\ dir'.segs[g][k] <= Newest
    <3>1. NoSample \in Nat /\ NoSample <= Newest
      BY <1>1 DEF NoSample
    <3> QED
      BY <1>5, <1>6, <2>1, <2>2, <3>1, Zenon
  <2>6. ddir'.segs[g][k] \in Nat /\ ddir'.segs[g][k] <= Newest
    BY <1>6, <2>1, <2>4
  <2> QED
    BY <2>3, <2>5, <2>6
<1>9. \A k \in Keys : memtable'[k] <= Newest'
  <2> TAKE k \in Keys
  <2>1. memtable[k] <= Newest /\ memtable[k] \in Nat
    BY StoreTypes DEF AgeInv
  <2> QED
    BY <1>1, <1>2, <1>4, <2>1 DEF NoSample
<1>10. step' = "append" => wal'.tail[1].value = nput'
  BY DEF AgeInv
<1> QED
  BY <1>7, <1>8, <1>9, <1>10 DEF AgeInv

\* The files of a new segment hold what the memtable or the merged segments hold.
LEMMA AgePublishSegment ==
    ASSUME BaseInv, FilesInv, AgeInv, PublishSegment
    PROVE  AgeInv'
<1>1. /\ wal' = wal /\ dwal' = dwal /\ ddir' = ddir /\ nput' = nput /\ memtable' = memtable
      /\ step = "segment" /\ step' = "segment_sync"
  BY DEF PublishSegment
<1>2. next.generation \in Generations
  BY <1>1, UnusedGeneration DEF Preparing
<1>3. \A g \in Generations : dir'.segs[g] = IF g = next.generation THEN NewSegment ELSE dir.segs[g]
  BY <1>2, BaseTypes DEF PublishSegment, Directory, NewSegment
<1>4. \A k \in Keys : NewSegment[k] \in {memtable[k], SegmentGet(segments, dir.segs, k)}
  BY DEF NewSegment, Compacted, SegmentsView
<1> QED
  BY <1>1, <1>3, <1>4, AgeMoved

\* Files that are removed hold nothing any more.
LEMMA AgeRemove ==
    ASSUME BaseInv, AgeInv, SweepDirectory \/ InstallManifest
    PROVE  AgeInv'
<1>1. /\ wal' = wal /\ dwal' = dwal /\ ddir' \in {ddir, dir} /\ nput' = nput
      /\ memtable' = memtable /\ step # "append" /\ step' # "append"
  BY DEF SweepDirectory, InstallManifest, SyncDirectory, EndMutation, BaseInv, TypeInv
<1>2. ASSUME NEW g \in Generations, NEW k \in Keys
      PROVE  dir'.segs[g][k] \in {NoSample, dir.segs[g][k]}
  <2>1. ASSUME NEW gone, NEW d \in Directory, d.segs = RemoveFiles(dir, gone).segs
        PROVE  d.segs[g][k] \in {NoSample, dir.segs[g][k]}
    BY <2>1, BaseTypes DEF RemoveFiles, Directory, NoFile, NoSamples
  <2>2. dir' \in Directory
    BY TypeRecover, TypeMaintain DEF BaseInv, TypeInv, TypeOK, Recover
  <2>3. CASE SweepDirectory
    <3>1. PICK gone \in SUBSET Orphans(dir), temps \in SUBSET dir.temps :
             dir' = [RemoveFiles(dir, gone) EXCEPT !.temps = temps]
      BY <2>3 DEF SweepDirectory
    <3>2. dir'.segs = RemoveFiles(dir, gone).segs
      BY <3>1, RemoveFilesType, BaseTypes DEF Directory
    <3> QED
      BY <2>1, <2>2, <3>2
  <2>4. CASE InstallManifest
    <3>1. CASE dir' = dir
      BY <3>1
    <3>2. CASE dir' # dir
      <4>1. PICK gone \in SUBSET {segments[i] : i \in DOMAIN segments} :
               dir' = RemoveFiles(dir, gone)
        BY <2>4, <3>2 DEF InstallManifest
      <4> QED
        BY <2>1, <2>2, <4>1
    <3> QED
      BY <3>1, <3>2
  <2> QED
    BY <2>3, <2>4
<1> QED
  BY <1>1, <1>2, AgeMoved

\* A put takes the next number, and writes it to the log, then to the memtable.
LEMMA AgePutBegin ==
    ASSUME BaseInv, AgeInv, NEW j \in Keys, PutBegin(j)
    PROVE  AgeInv'
<1>1. /\ dwal' = dwal /\ dir' = dir /\ ddir' = ddir /\ memtable' = memtable
      /\ nput' = nput + 1 /\ nput \in Nat /\ step = "none" /\ step' = "append"
  BY StoreTypes DEF PutBegin, Idle
<1>2. wal'.records = wal.records /\ wal'.tail = <<[key |-> j, value |-> nput + 1]>>
  BY StoreTypes DEF PutBegin, Log
<1>3. Newest' = Newest
  BY <1>1 DEF Newest
<1> QED
  BY <1>1, <1>2, <1>3 DEF AgeInv

LEMMA AgePutWrite ==
    ASSUME BaseInv, AgeInv, PutWrite
    PROVE  AgeInv'
<1> DEFINE r == wal.tail[1]
<1>1. /\ dwal' = dwal /\ dir' = dir /\ ddir' = ddir /\ nput' = nput /\ step = "append"
      /\ step' # "append" /\ wal'.records = Append(wal.records, r)
      /\ (InsertRecord(r) \/ memtable' = memtable)
  BY DEF PutWrite
<1>2. r \in Record /\ r.value = nput /\ wal.records \in Seq(Record) /\ dwal.records \in Seq(Record)
  BY <1>1 DEF BaseInv, TypeInv, TypeOK, Log, AgeInv
<1>3. Newest' = nput /\ Newest \in Nat /\ nput \in Nat /\ Newest < nput
  BY <1>1, NewestType DEF Newest
<1>4. \A v \in Nat : v <= Newest => v <= nput
  BY <1>3
<1>5. \A i \in DOMAIN wal'.records : wal'.records[i].value <= nput
  <2> TAKE i \in DOMAIN wal'.records
  <2>1. i \in 1..(Len(wal.records) + 1)
    BY <1>1, <1>2
  <2>2. CASE i = Len(wal.records) + 1
    <3>1. wal'.records[i] = r
      BY <1>1, <1>2, <2>2
    <3> QED
      BY <1>2, <1>3, <3>1
  <2>3. CASE i \in 1..Len(wal.records)
    <3>1. wal'.records[i] = wal.records[i] /\ wal.records[i] \in Record /\ i \in DOMAIN wal.records
      BY <1>1, <1>2, <2>3
    <3>2. wal.records[i].value <= Newest
      BY <3>1 DEF AgeInv
    <3>3. wal.records[i].value \in Nat
      BY <3>1, BoundsAreNat DEF Record, Puts
    <3> QED
      BY <1>4, <3>1, <3>2, <3>3
  <2>4. i = Len(wal.records) + 1 \/ i \in 1..Len(wal.records)
    BY <1>2, <2>1
  <2> QED
    BY <2>2, <2>3, <2>4, Zenon
<1>6. \A i \in DOMAIN dwal'.records : dwal'.records[i].value <= nput
  <2> TAKE i \in DOMAIN dwal'.records
  <2>1. dwal.records[i].value <= Newest
    BY <1>1 DEF AgeInv
  <2>2. dwal.records[i] \in Record
    BY <1>1, <1>2
  <2>3. dwal.records[i].value \in Nat
    BY <2>2, BoundsAreNat DEF Record, Puts
  <2> QED
    BY <1>1, <1>4, <2>1, <2>3
<1>7. \A d \in {dir, ddir}, g \in Generations, k \in Keys : d.segs[g][k] <= nput
  <2> TAKE d \in {dir, ddir}, g \in Generations, k \in Keys
  <2>1. d.segs[g] \in Samples
    BY BaseTypes DEF SegmentMap
  <2>2. d.segs[g][k] \in Puts \cup {NoSample}
    BY <2>1 DEF Samples
  <2>3. d.segs[g][k] \in Nat /\ d.segs[g][k] <= Newest
    BY <2>2, BoundsAreNat DEF AgeInv, Puts, NoSample
  <2> QED
    BY <1>4, <2>3
<1>8. \A k \in Keys : memtable'[k] <= nput
  <2> TAKE k \in Keys
  <2>1. memtable[k] <= Newest /\ memtable[k] \in Nat
    BY StoreTypes DEF AgeInv
  <2>2. memtable'[k] \in {memtable[k], r.value}
    BY <1>1, <1>2, BaseTypes DEF InsertRecord, Samples
  <2> QED
    BY <1>2, <1>3, <1>4, <2>1, <2>2
<1> QED
  BY <1>1, <1>3, <1>5, <1>6, <1>7, <1>8 DEF AgeInv

LEMMA AgePutSync ==
    ASSUME BaseInv, AgeInv, PutSync
    PROVE  AgeInv'
<1> DEFINE r == LastRecord
<1>1. /\ wal' = wal /\ dwal' = wal /\ dir' = dir /\ ddir' \in {ddir, dir} /\ nput' = nput
      /\ step = "append_sync" /\ step' = "none" /\ InsertRecord(r)
  BY DEF PutSync, SyncWal, LastRecord
<1>2. r \in Record
  BY <1>1, StoreTypes DEF LastRecord, BaseInv, TypeInv, Log
<1>3. Replay(wal.records)[r.key] = r.value /\ r.key \in Keys
  BY <1>1, <1>2, BaseTypes DEF BaseInv, MemoryInv, Samples, Record
<1>4. \A k \in Keys : memtable'[k] \in {memtable[k], Replay(wal.records)[k]}
  BY <1>1, <1>2, <1>3, BaseTypes DEF InsertRecord, Samples
<1> QED
  BY <1>1, <1>4, AgeMoved

LEMMA AgeOther ==
    ASSUME BaseInv, AgeInv,
           \/ LoadManifest \/ CreateWal \/ ReplayWal \/ SyncRecoveredWal \/ Sync
           \/ FlushBegin \/ CompactBegin \/ SyncSegment \/ PublishManifest \/ TruncateWal
           \/ ResetWal \/ Fail \/ Stop \/ PowerLoss \/ WriteBack \/ UNCHANGED vars
    PROVE  AgeInv'
<1>1. CASE LoadManifest \/ CreateWal \/ SyncRecoveredWal \/ Sync \/ FlushBegin \/ CompactBegin
             \/ SyncSegment \/ PublishManifest
  <2>1. /\ wal' = wal /\ dwal' \in {dwal, wal} /\ dir'.segs = dir.segs /\ ddir' \in {ddir, dir}
        /\ nput' = nput /\ memtable' = memtable /\ step # "append" /\ step' # "append"
    BY <1>1, BaseTypes
       DEF LoadManifest, CreateWal, SyncRecoveredWal, Sync, SyncWal, FlushBegin, CompactBegin,
           WriteTemporary, SyncSegment, SyncDirectory, PublishManifest, Directory, Idle, disk,
           engine, BaseInv, TypeInv
  <2> QED
    BY <2>1, AgeMoved
<1>2. CASE ReplayWal
  <2>1. /\ wal'.records = wal.records /\ dwal' = dwal /\ dir' = dir /\ ddir' = ddir
        /\ nput' = nput /\ memtable' = Replay(wal.records) /\ step # "append" /\ step' = step
    BY <1>2, StoreTypes DEF ReplayWal, Log, BaseInv, TypeInv
  <2> QED
    BY <2>1, AgeMoved
<1>3. CASE TruncateWal \/ ResetWal
  <2>1. /\ wal'.records \in {wal.records, <<>>} /\ dwal'.records \in {dwal.records, wal.records}
        /\ dir' = dir /\ ddir' \in {ddir, dir} /\ nput' = nput
        /\ memtable' \in {memtable, NoSamples} /\ step # "append" /\ step' # "append"
    BY <1>3 DEF TruncateWal, ResetWal, SyncWal, EmptyLog, EndMutation
  <2>2. \A k \in Keys : memtable'[k] \in {NoSample, memtable[k]}
    BY <2>1 DEF NoSamples
  <2> QED
    BY <2>1, <2>2, AgeMoved
<1>4. CASE Fail \/ Stop
  <2>1. /\ wal' = wal /\ dwal' = dwal /\ dir' = dir /\ ddir' = ddir /\ nput' = nput
        /\ memtable' \in {memtable, NoSamples} /\ step' = "none"
    BY <1>4 DEF Fail, Stop, LoseMemory, EndMutation, disk
  <2>2. \A k \in Keys : memtable'[k] \in {NoSample, memtable[k]}
    BY <2>1 DEF NoSamples
  <2> QED
    BY <2>1, <2>2, AgeMoved
<1>5. CASE PowerLoss
  <2>1. /\ wal'.records \in {dwal.records, <<>>} /\ dwal' = wal' /\ dir' = ddir /\ ddir' = ddir
        /\ nput' = nput /\ memtable' = NoSamples /\ step' = "none"
    BY <1>5 DEF PowerLoss, LoseMemory, EndMutation, EmptyLog
  <2>2. \A k \in Keys : memtable'[k] = NoSample
    BY <2>1 DEF NoSamples
  <2> QED
    BY <2>1, <2>2, AgeMoved
<1>6. CASE WriteBack
  <2>1. /\ wal' = wal /\ dwal' \in {dwal, wal} /\ dir' = dir /\ nput' = nput
        /\ memtable' = memtable /\ step' = step
    BY <1>6 DEF WriteBack, WriteBackWal, WriteBackDirectory, engine
  <2>2. \A g \in Generations : ddir'.segs[g] \in {ddir.segs[g], dir.segs[g]}
    <3>1. CASE WriteBackDirectory
      BY <3>1, EntryWrittenBack
    <3>2. CASE WriteBackWal
      BY <3>2 DEF WriteBackWal
    <3> QED
      BY <1>6, <3>1, <3>2 DEF WriteBack
  <2> QED
    BY <2>1, <2>2, AgeMoved
<1>7. CASE UNCHANGED vars
  BY <1>7, AgeMoved DEF vars, engine, disk
<1> QED
  BY <1>1, <1>2, <1>3, <1>4, <1>5, <1>6, <1>7

LEMMA AgeInvariant == Spec => [](BaseInv /\ FilesInv /\ AgeInv)
<1>1. Init => AgeInv
  <2> SUFFICES ASSUME Init PROVE AgeInv
    OBVIOUS
  <2>1. /\ step = "none" /\ nput = 0 /\ wal = EmptyLog /\ dwal = EmptyLog
        /\ dir = EmptyDirectory /\ ddir = EmptyDirectory /\ memtable = NoSamples
    BY DEF Init
  <2>2. Newest = 0 /\ EmptyLog.records = <<>>
        /\ \A g \in Generations, k \in Keys : EmptyDirectory.segs[g][k] = 0
    BY <2>1 DEF Newest, EmptyLog, EmptyDirectory, NoFile, NoSamples, NoSample
  <2> QED
    BY <2>1, <2>2 DEF AgeInv, NoSamples, NoSample
<1>2. BaseInv /\ FilesInv /\ AgeInv /\ [Next]_vars => AgeInv'
  BY AgePublishSegment, AgeRemove, AgePutBegin, AgePutWrite, AgePutSync, AgeOther
     DEF Next, Recover, Mutate
<1> QED
  BY <1>1, <1>2, FilesInvariant, PTL DEF Spec

-----------------------------------------------------------------------------
(* What a power loss alone can do.                                         *)

\* The records of the log change when a put completes, when a flush resets the log,
\* and when a power loss takes some of them.
LEMMA RecordsKept ==
    ASSUME BaseInv, [Next]_vars, ~PutWrite, ~TruncateWal, ~PowerLoss
    PROVE  wal'.records = wal.records
<1>1. CASE ReplayWal \/ \E k \in Keys : PutBegin(k)
  BY <1>1, StoreTypes DEF ReplayWal, PutBegin, Log
<1>2. CASE ~(ReplayWal \/ \E k \in Keys : PutBegin(k))
  BY <1>2 DEF Next, Recover, Mutate, LoadManifest, SweepDirectory, CreateWal,
         SyncRecoveredWal, PutSync, Sync, FlushBegin, CompactBegin,
         WriteTemporary, PublishSegment, SyncSegment, PublishManifest, InstallManifest,
         ResetWal, Fail, Stop, WriteBack, WriteBackWal, WriteBackDirectory, disk, vars
<1> QED
  BY <1>1, <1>2

LEMMA RecoveredAge ==
    ASSUME BaseInv, AgeInv, NEW k \in Keys
    PROVE  /\ Replay(wal.records)[k] \in Nat /\ Replay(wal.records)[k] <= Newest
           /\ Segs(dir, k) \in Nat /\ Segs(dir, k) <= Newest
           /\ Recovered(wal, dir)[k] \in Nat /\ Recovered(wal, dir)[k] <= Newest
<1>1. Newest \in Nat
  BY NewestType
<1>2. Replay(wal.records)[k] \in Nat /\ Replay(wal.records)[k] <= Newest
  BY <1>1, ReplayAge, StoreTypes DEF AgeInv, Log
<1>3. Segs(dir, k) \in Nat /\ Segs(dir, k) <= Newest
  BY <1>1, SegmentAge, BaseTypes, StoreTypes DEF AgeInv, Segs
<1> QED
  BY <1>2, <1>3, RecoveredIs

\* The new manifest's segments hold what a restart would have recovered before, or
\* what the old ones held.
LEMMA PublishedSegs ==
    ASSUME BaseInv, FilesInv, PublishManifest, NEW k \in Keys
    PROVE  Segs(dir', k) \in {Segs(dir, k), Recovered(wal, dir)[k]} /\ wal' = wal
<1>1. /\ step = "manifest" /\ phase = "ready" /\ wal' = wal
      /\ segments = dir.manifest.segment_files
  BY UnusedGeneration DEF PublishManifest, Preparing
<1>2. dir'.manifest = next /\ dir'.segs = dir.segs
  BY BaseTypes DEF PublishManifest, Directory
<1>3. memtable = Replay(wal.records)
  BY <1>1 DEF BaseInv, MemoryInv
<1>4. Get(k) = Recovered(wal, dir)[k]
  BY <1>1, <1>3, RecoveredIs DEF Get, Segs
<1>5. SegmentGet(next.segment_files, dir.segs, k) =
         IF kind = "flush" THEN Get(k) ELSE SegmentGet(segments, dir.segs, k)
  BY <1>1, NextSegments
<1> QED
  BY <1>1, <1>2, <1>4, <1>5 DEF Segs

\* The value that a put adds to the log is the newest of all.
LEMMA PutIsNewest ==
    ASSUME BaseInv, FilesInv, AgeInv, PutWrite, NEW k \in Keys
    PROVE  /\ Segs(dir', k) = Segs(dir, k)
           /\ Replay(wal'.records)[k] \in {Replay(wal.records)[k], nput}
           /\ Recovered(wal, dir)[k] < nput /\ Segs(dir, k) < nput /\ nput \in Nat
<1> DEFINE r == wal.tail[1]
<1>1. dir' = dir /\ step = "append" /\ wal'.records = Append(wal.records, r)
  BY DEF PutWrite
<1>2. r \in Record /\ r.value = nput /\ wal.records \in Seq(Record)
  BY <1>1 DEF BaseInv, TypeInv, TypeOK, Log, AgeInv
<1>3. Replay(wal'.records) = [Replay(wal.records) EXCEPT ![r.key] = r.value]
  BY <1>1, <1>2, ReplayAppend
<1>4. Replay(wal'.records)[k] \in {Replay(wal.records)[k], r.value}
  BY <1>3, StoreTypes DEF Samples
<1>5. Newest < nput /\ Newest \in Nat /\ nput \in Nat
  BY <1>1, NewestType
<1>6. Recovered(wal, dir)[k] < nput /\ Segs(dir, k) < nput
  BY <1>5, RecoveredAge
<1> QED
  BY <1>1, <1>2, <1>4, <1>5, <1>6

\* When flush resets the log, its segments hold all that the log held.
LEMMA TruncatedLog ==
    ASSUME BaseInv, FilesInv, TruncateWal, NEW k \in Keys
    PROVE  /\ Replay(wal'.records)[k] = NoSample
           /\ Segs(dir', k) = Recovered(wal, dir)[k]
<1>1. /\ step = "truncate" /\ phase = "ready" /\ wal' = EmptyLog /\ dir' = dir
  BY DEF TruncateWal
<1>2. memtable = Replay(wal.records) /\ segments = dir.manifest.segment_files
  BY <1>1 DEF BaseInv, MemoryInv, Opened
<1>3. Replay(wal'.records)[k] = NoSample
  BY <1>1, ReplayEmpty DEF EmptyLog, NoSamples
<1>4. memtable[k] # NoSample => Segs(dir, k) = memtable[k]
  BY <1>1, <1>2 DEF FilesInv, FlushedFiles, Segs
<1> QED
  BY <1>1, <1>2, <1>3, <1>4, RecoveredIs

LEMMA RecoveredGrows ==
    ASSUME BaseInv, FilesInv, AgeInv, [Next]_vars, ~PowerLoss, NEW k \in Keys
    PROVE  Recovered(wal, dir)[k] <= Recovered(wal', dir')[k]
<1>0. Recovered(wal, dir)[k] \in Nat
  BY RecoveredAge
<1>1. CASE PutWrite
  <2>1. /\ Segs(dir', k) = Segs(dir, k)
        /\ Replay(wal'.records)[k] \in {Replay(wal.records)[k], nput}
        /\ Recovered(wal, dir)[k] < nput /\ nput \in Nat
    BY <1>1, PutIsNewest
  <2>2. CASE Replay(wal'.records)[k] = Replay(wal.records)[k]
    <3>1. Recovered(wal', dir')[k] = Recovered(wal, dir)[k]
      BY <2>1, <2>2, RecoveredIs
    <3> QED
      BY <1>0, <3>1
  <2>3. CASE Replay(wal'.records)[k] = nput
    <3>1. nput # NoSample
      BY <1>0, <2>1 DEF NoSample
    <3>2. Recovered(wal', dir')[k] = nput
      BY <2>3, <3>1, RecoveredIs
    <3> QED
      BY <1>0, <2>1, <3>2
  <2> QED
    BY <2>1, <2>2, <2>3
<1>2. CASE TruncateWal
  BY <1>0, <1>2, TruncatedLog, RecoveredIs
<1>3. CASE PublishManifest
  BY <1>0, <1>3, PublishedSegs, RecoveredIs
<1>4. CASE ~PutWrite /\ ~TruncateWal /\ ~PublishManifest
  BY <1>0, <1>4, RecordsKept, SegsKept, RecoveredIs
<1> QED
  BY <1>1, <1>2, <1>3, <1>4

\* Without a power loss nothing is taken back, promised or not: no failure, process
\* crash, restart, flush or compaction makes a later start recover less, on any file
\* system.
THEOREM OnlyPowerLossTakesBack == Spec => OnlyPowerLossLoses
<1>1. BaseInv /\ FilesInv /\ AgeInv /\ [Next]_vars
        => [PowerLoss \/ \A k \in Keys : Recovered(wal, dir)[k] <= Recovered(wal, dir)'[k]]_vars
  BY RecoveredGrows
<1> QED
  BY <1>1, AgeInvariant, PTL DEF Spec, OnlyPowerLossLoses

LEMMA LogStaysNewest ==
    ASSUME BaseInv, FilesInv, AgeInv, [Next]_vars, ~PowerLoss, LogIsNewest
    PROVE  LogIsNewest'
<1> SUFFICES ASSUME NEW k \in Keys, Replay(wal'.records)[k] # NoSample
             PROVE  Replay(wal'.records)[k] >= Segs(dir', k)
  BY DEF LogIsNewest, Segs
<1>0. /\ Replay(wal.records)[k] # NoSample => Replay(wal.records)[k] >= Segs(dir, k)
      /\ Replay(wal.records)[k] \in Nat /\ Segs(dir, k) \in Nat
  BY RecoveredAge DEF LogIsNewest, Segs
<1>1. CASE PutWrite
  BY <1>0, <1>1, PutIsNewest
<1>2. CASE TruncateWal
  BY <1>2, TruncatedLog
<1>3. CASE PublishManifest
  BY <1>0, <1>3, PublishedSegs, RecoveredIs
<1>4. CASE ~PutWrite /\ ~TruncateWal /\ ~PublishManifest
  BY <1>0, <1>4, RecordsKept, SegsKept
<1> QED
  BY <1>1, <1>2, <1>3, <1>4

\* While the log holds nothing older than the segments, no put, flush, compaction,
\* process crash or restart, in whatever order, makes it: what a crash between the
\* manifest and the reset of the log leaves to be replayed again is not stale.
THEOREM OnlyPowerLossMakesStale == Spec => OnlyPowerLossHides
<1>1. BaseInv /\ FilesInv /\ AgeInv /\ [Next]_vars
        => [LogIsNewest => PowerLoss \/ LogIsNewest']_vars
  BY LogStaysNewest
<1> QED
  BY <1>1, AgeInvariant, PTL DEF Spec, OnlyPowerLossHides

-----------------------------------------------------------------------------
(* No start is refused.                                                    *)

\* There are at least as many samples in the segments as unique keys.
LEMMA UniqueAtMostPhysical ==
    ASSUME NEW d, d.manifest.segment_files \in Seq(Generations)
    PROVE  /\ UniqueKeys(d) \in Nat /\ PhysicalSamples(d) \in Nat
           /\ UniqueKeys(d) <= PhysicalSamples(d)
<1> DEFINE files == d.manifest.segment_files
           I == DOMAIN files
           hits(k) == {i \in I : d.segs[files[i]][k] # NoSample}
           unique == KeysOf(SegmentsView(files, d.segs))
           pairs == {p \in I \X Keys : d.segs[files[p[1]]][p[2]] # NoSample}
           f == [k \in unique |-> <<Max(hits(k)), k>>]
<1>0. Len(files) \in Nat /\ I = 1..Len(files)
  OBVIOUS
<1>1. IsFiniteSet(unique) /\ Cardinality(unique) \in Nat /\ unique \subseteq Keys
  BY CardinalityOfKeys DEF KeysOf
<1>2. ASSUME NEW k \in unique PROVE k \in Keys /\ hits(k) # {}
  BY DEF KeysOf, SegmentsView, SegmentGet
<1>3. UniqueKeys(d) = Cardinality(unique) /\ PhysicalSamples(d) = Cardinality(pairs)
  BY DEF UniqueKeys, PhysicalSamples
<1> HIDE DEF I, unique, files
<1>4. IsFiniteSet(pairs)
  <2>1. IsFiniteSet(I)
    BY <1>0, FS_Interval
  <2>2. IsFiniteSet(I \X Keys)
    BY <2>1, KeysFinite, FS_Product
  <2>3. pairs \in SUBSET (I \X Keys)
    OBVIOUS
  <2> QED
    BY <2>2, <2>3, FS_Subset
<1>5. ASSUME NEW k \in unique PROVE <<Max(hits(k)), k>> \in pairs
  <2>1. k \in Keys /\ hits(k) # {}
    BY <1>2
  <2>2. hits(k) \in SUBSET (1..Len(files))
    BY <1>0
  <2>3. Max(hits(k)) \in hits(k)
    <3> HIDE DEF hits
    <3> QED
      BY <1>0, <2>1, <2>2, MaxOfIndexes
  <2> QED
    BY <2>1, <2>3
<1>6. f \in Injection(unique, pairs)
  <2>1. f \in [unique -> pairs]
    BY <1>5
  <2>2. \A a, b \in unique : f[a] = f[b] => a = b
    OBVIOUS
  <2> HIDE DEF f, pairs
  <2> QED
    BY <2>1, <2>2 DEF Injection, IsInjective
<1>7. Cardinality(unique) <= Cardinality(pairs) /\ Cardinality(pairs) \in Nat
  <2> HIDE DEF f, pairs
  <2> QED
    BY <1>4, <1>6, FS_Injection, FS_CardinalityType
<1> QED
  BY <1>1, <1>3, <1>7

LEMMA NotRefused ==
    ASSUME BaseInv, DirectoryInv, FilesInv, CountInv, NeverRefused, [Next]_vars
    PROVE  NeverRefused'
<1>1. CASE LoadManifest
  BY <1>1 DEF LoadManifest, DirectoryInv, LiveOK, NeverRefused
<1>2. CASE SweepDirectory
  <2>1. phase = "loaded" /\ manifest = dir.manifest /\ Complete(dir)
    BY <1>2 DEF SweepDirectory, BaseInv, TypeInv, MemoryInv, FilesInv, OpenFiles, Opened
  <2>2. manifest.logical_sample_count = UniqueKeys(dir)
    BY <2>1 DEF CountInv, Counted
  <2>3. ~(manifest.logical_sample_count > PhysicalSamples(dir))
    BY <2>2, UniqueAtMostPhysical, BaseTypes
  <2>4. phase' = "swept"
    BY <1>2, <2>3 DEF SweepDirectory
  <2> QED
    BY <2>4 DEF NeverRefused
<1>3. CASE CreateWal \/ ReplayWal \/ SyncRecoveredWal
  BY <1>3 DEF CreateWal, ReplayWal, SyncRecoveredWal, NeverRefused
<1>4. CASE (\E k \in Keys : PutBegin(k)) \/ PutWrite \/ PutSync \/ Sync \/ FlushBegin \/ CompactBegin
             \/ PublishSegment \/ SyncSegment \/ PublishManifest \/ InstallManifest \/ TruncateWal
             \/ ResetWal
  BY <1>4 DEF PutBegin, PutWrite, PutSync, Sync, FlushBegin, CompactBegin, WriteTemporary,
              PublishSegment, SyncSegment, PublishManifest, InstallManifest, TruncateWal,
              ResetWal, engine, NeverRefused
<1>5. CASE Fail \/ Stop \/ PowerLoss \/ WriteBack \/ UNCHANGED vars
  BY <1>5 DEF Fail, Stop, PowerLoss, LoseMemory, WriteBack, WriteBackWal, WriteBackDirectory,
              vars, engine, NeverRefused
<1> QED
  BY <1>1, <1>2, <1>3, <1>4, <1>5 DEF Next, Recover, Mutate

\* When directory operations become durable in order, no crash leaves files that the
\* next start refuses: every segment the manifest names is there, and the manifest
\* never counts more samples than its segments hold.
THEOREM NoStartIsRefused ==
    ASSUME JournaledDirectory
    PROVE  Spec => []NeverRefused
<1>1. Init => NeverRefused
  BY DEF Init, NeverRefused
<1>2. BaseInv /\ DirectoryInv /\ FilesInv /\ CountInv /\ NeverRefused /\ [Next]_vars
        => NeverRefused'
  BY NotRefused
<1> QED
  BY <1>1, <1>2, DirectoryInvariant, CountInvariant, PTL DEF Spec

=============================================================================
