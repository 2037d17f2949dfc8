----------------------- MODULE StorageEngineInvariants -----------------------
(***************************************************************************)
(* The inductive invariants that the proofs about StorageEngine rest on.   *)
(* TypeInv, MemoryInv, GenerationInv, FilesInv, CountInv and AgeInv hold   *)
(* on every file system, DirectoryInv and StoreInv when directory          *)
(* operations become durable in order.                                     *)
(***************************************************************************)
EXTENDS StorageEngine

\* The phases in which the object holds the manifest and the segment readers.
Opened == {"loaded", "swept", "created", "repaired", "ready"}

\* The steps at which flush or compact holds the manifest it will publish.
Preparing == {"segment", "segment_sync", "manifest", "manifest_sync"}

\* The record that put has just written.
LastRecord == wal.records[Len(wal.records)]

\* TypeOK is not inductive by itself: a put in progress reads the record it
\* wrote back from the log, and only an open engine has a put in progress.
TypeInv ==
    /\ TypeOK
    /\ phase # "ready" => step = "none"
    /\ step = "append" => wal.tail # <<>>
    /\ step = "append_sync" => Len(wal.records) > 0

\* The memory mirrors the files, up to the step a mutation is at.
MemoryInv ==
    /\ phase \in Opened => segments = manifest.segment_files
    /\ phase \in Opened /\ step # "manifest_sync" => manifest = dir.manifest
    /\ step = "manifest_sync" => dir.manifest = next
    /\ phase \in {"created", "repaired", "ready"} => dir.wal
    /\ ~dir.wal => wal = EmptyLog
    /\ phase \in {"closed", "loaded", "swept", "created"} => memtable = NoSamples
    /\ phase = "created" \/ step = "truncate_sync" => wal = EmptyLog
    /\ phase = "repaired" \/ (phase = "ready" /\ step \notin {"append_sync", "truncate_sync"})
          => memtable = Replay(wal.records)
    /\ step = "append_sync"
          => Replay(wal.records) = [memtable EXCEPT ![LastRecord.key] = LastRecord.value]

\* The manifest about to be published is newer than the published one, which
\* is at least as new as the durable one.
GenerationInv ==
    /\ dir.manifest.generation >= ddir.manifest.generation
    /\ step \in Preparing => next.generation = manifest.generation + 1

\* Every segment that a manifest names exists and is not newer than it.
LiveOK(d) == \A g \in Live(d) : g <= d.manifest.generation /\ d.segs[g] # NoFile

\* The segment that flush or compact writes.
NewSegment == IF kind = "flush" THEN memtable ELSE Compacted

\* Both directories are sound, and so is the step from one manifest to the next.
DirectoryInv ==
    /\ LiveOK(dir)
    /\ LiveOK(ddir)
    /\ \A g \in Live(dir) \cap Live(ddir) : dir.segs[g] = ddir.segs[g]
    /\ phase \in Opened => \A i \in DOMAIN segments : segments[i] <= manifest.generation
    /\ step \in Preparing =>
          /\ kind \in {"flush", "compact"}
          /\ next.generation \in Generations
          /\ next.segment_files = IF kind = "flush"
                                  THEN Append(manifest.segment_files, next.generation)
                                  ELSE <<next.generation>>
          /\ NewSegment # NoFile
    /\ step \in Preparing \ {"segment"} => dir.segs[next.generation] = NewSegment
    /\ step \in {"truncate", "truncate_sync"} =>
          /\ ddir = dir
          /\ \A k \in Keys : memtable[k] # NoSample
                => SegmentGet(segments, dir.segs, k) = memtable[k]

\* Whichever of the two logs and of the two directories a crash combines, it
\* recovers what was promised and nothing newer than what the process would
\* recover; and a put in progress carries a value newer than all of that.
StoreInv ==
    /\ ddir.wal => dir.wal
    /\ ~dir.wal => dir.manifest.segment_files = <<>>
    /\ ~ddir.wal => ddir.manifest.segment_files = <<>> /\ floor = NoSamples
    /\ step = "append" =>
          /\ wal.tail[1].value = nput
          /\ \A k \in Keys : Recovered(wal, dir)[k] < nput
    /\ \A k \in Keys : Recovered(wal, dir)[k] <= nput
    /\ \A w \in {wal, dwal}, d \in {dir, ddir}, k \in Keys :
          /\ floor[k] <= Recovered(w, d)[k]
          /\ Recovered(w, d)[k] <= Recovered(wal, dir)[k]

-----------------------------------------------------------------------------
(* What is left of DirectoryInv and StoreInv on every file system.  There  *)
(* a durable manifest may name a segment that is missing, but never one    *)
(* with other contents than the manifest was written for.                  *)

\* Every segment that d's manifest names exists.
Complete(d) == \A g \in Live(d) : d.segs[g] # NoFile

\* The segments of the process's manifest are durable; those of the durable manifest
\* are as the process sees them, unless it has removed them.
LiveFiles ==
    /\ \A g \in Live(dir) : g <= dir.manifest.generation /\ dir.segs[g] = ddir.segs[g]
    /\ \A g \in Live(ddir) : /\ g <= ddir.manifest.generation
                             /\ dir.segs[g] \in {ddir.segs[g], NoFile}

\* An open engine has found every segment, and none is newer than the manifest.
OpenFiles ==
    phase \in Opened => /\ Complete(dir)
                        /\ \A i \in DOMAIN segments : segments[i] <= manifest.generation

\* The new segment is durable before the manifest that names it is published.
NextFiles ==
    /\ step \in Preparing =>
          /\ kind \in {"flush", "compact"}
          /\ next.generation \in Generations
          /\ next.segment_files = IF kind = "flush"
                                  THEN Append(manifest.segment_files, next.generation)
                                  ELSE <<next.generation>>
          /\ NewSegment # NoFile
    /\ step \in Preparing \ {"segment"} => dir.segs[next.generation] = NewSegment
    /\ step = "manifest" => ddir.segs[next.generation] = NewSegment

\* The log is reset when the segments hold everything that it held.
FlushedFiles ==
    step \in {"truncate", "truncate_sync"} =>
        \A k \in Keys : memtable[k] # NoSample
            => SegmentGet(segments, dir.segs, k) = memtable[k]

FilesInv == LiveFiles /\ OpenFiles /\ NextFiles /\ FlushedFiles

\* The number of unique keys in the segments that d's manifest names.
UniqueKeys(d) == Cardinality(KeysOf(SegmentsView(d.manifest.segment_files, d.segs)))

\* A manifest whose segments exist counts their unique keys.
Counted(d) == Complete(d) => d.manifest.logical_sample_count = UniqueKeys(d)

\* Whichever manifest a crash leaves counts its keys; recovery and every operation
\* start from that count.
CountInv ==
    /\ Counted(dir)
    /\ Counted(ddir)
    /\ phase \in {"loaded", "swept", "created"} =>
          logical_sample_count = manifest.logical_sample_count
    /\ phase \in {"repaired", "ready"} => logical_sample_count = Cardinality(KeysOf(View))
    /\ step \in Preparing =>
          next.logical_sample_count = IF kind = "flush" THEN logical_sample_count
                                      ELSE manifest.logical_sample_count

\* The newest value that a put has completed in the log.
Newest == IF step = "append" THEN nput - 1 ELSE nput

\* No file and no memory holds a value newer than the last put, and the record that
\* a put is writing is newer than all of them.
AgeInv ==
    /\ step = "append" => wal.tail[1].value = nput
    /\ \A w \in {wal, dwal} : \A i \in DOMAIN w.records : w.records[i].value <= Newest
    /\ \A d \in {dir, ddir}, g \in Generations, k \in Keys : d.segs[g][k] <= Newest
    /\ \A k \in Keys : memtable[k] <= Newest

=============================================================================
