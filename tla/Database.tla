------------------------------- MODULE Database -------------------------------
(***************************************************************************)
(* The Database facade (src/src/database.cpp) as its callers use it: several *)
(* threads call one open Database.  Every engine call holds the engine's    *)
(* shared_mutex, mutations exclusively and reads shared, but a Database::put *)
(* is three engine calls: put, memtable_sample_count and perhaps flush.     *)
(*                                                                         *)
(* The module adds the threads to StorageEngine: a step of a thread that    *)
(* holds the lock exclusively is a step of the engine.  Who holds the lock  *)
(* follows from where the threads are.  A thread that waits for a lock      *)
(* between two calls of its own is modelled as not having called yet.       *)
(***************************************************************************)
EXTENDS StorageEngine

CONSTANTS
    Threads,        \* the threads that share the Database
    FlushThreshold, \* DatabaseOptions::memtable_flush_threshold_samples, 0: never
    StopPossible    \* may the process stop, or close the Database, and start again?

ASSUME KeysExist == Keys # {}
ASSUME ThresholdIsNat == FlushThreshold \in Nat
ASSUME StopIsBoolean == StopPossible \in BOOLEAN

VARIABLES
    thread,  \* thread[t]: where t is in a call, and the call's locals
    told     \* told[k]: newest value of k that a call has told a caller

dbvars == <<vars, thread, told>>

\* The locals of a call: the key and remaining readers of a get, what had been
\* told when it began, and what it found.
Resting == [pc |-> "idle", key |-> CHOOSE k \in Keys : TRUE,
            left |-> <<>>, low |-> NoSample, value |-> NoSample]

Exclusive == {"put", "flush", "compact"}
Shared    == {"get_memory", "get_segments", "got", "get_failed"}
Between   == {"count", "autoflush"}

At(stages) == {t \in Threads : thread[t].pc \in stages}

\* std::unique_lock and std::shared_lock on mutex_.
CanLock       == At(Exclusive \cup Shared) = {}
CanLockShared == At(Exclusive) = {}

GoTo(t, stage) == thread' = [thread EXCEPT ![t].pc = stage]
Return(t)      == thread' = [thread EXCEPT ![t] = Resting]

DbInit ==
    /\ Init
    /\ thread = [t \in Threads |-> Resting]
    /\ told = NoSamples

-----------------------------------------------------------------------------
(* put.                                                                    *)

\* StorageEngine::put takes the lock.
CallPut(t, k) ==
    /\ thread[t].pc = "idle"
    /\ CanLock
    /\ PutBegin(k)
    /\ thread' = [thread EXCEPT ![t] = [Resting EXCEPT !.pc = "put", !.key = k]]
    /\ UNCHANGED told

\* The lock is held until the engine's mutation ends; a put goes on to look at
\* the memtable's size when there is a threshold.
EngineStep(t) ==
    /\ thread[t].pc \in Exclusive
    /\ Mutate
    /\ IF step' # "none"
       THEN UNCHANGED <<thread, told>>
       ELSE IF thread[t].pc = "put"
       THEN /\ told' = [told EXCEPT ![thread[t].key] = memtable'[thread[t].key]]
            /\ IF FlushThreshold # 0 THEN GoTo(t, "count") ELSE Return(t)
       ELSE /\ Return(t)
            /\ UNCHANGED told

\* Mutant of ReadSize: one sample more than the threshold is needed.
ReadSizeAbove(t) ==
    /\ thread[t].pc = "count"
    /\ CanLockShared
    /\ IF phase = "ready" /\ Cardinality(KeysOf(memtable)) > FlushThreshold
       THEN GoTo(t, "autoflush") ELSE Return(t)
    /\ UNCHANGED <<vars, told>>

\* memtable_sample_count, which throws when the engine has failed meanwhile.
ReadSize(t) ==
    /\ thread[t].pc = "count"
    /\ CanLockShared
    /\ IF phase = "ready" /\ Cardinality(KeysOf(memtable)) >= FlushThreshold
       THEN GoTo(t, "autoflush") ELSE Return(t)
    /\ UNCHANGED <<vars, told>>

\* StorageEngine::flush: of a memtable that another thread has emptied it only
\* synchronizes the log; without a generation left it throws.
FlushFrom(t, stage) ==
    /\ thread[t].pc = stage
    /\ CanLock
    /\ \/ FlushBegin /\ GoTo(t, "flush")
       \/ memtable = NoSamples /\ Sync /\ Return(t)
       \/ memtable # NoSamples /\ manifest.generation = MaxGeneration /\ Fail /\ Return(t)
    /\ UNCHANGED told

\* Mutant of AutoFlush: the memtable is expected to be as full as it was.
AutoFlushStale(t) ==
    /\ thread[t].pc = "autoflush"
    /\ CanLock
    /\ \/ memtable # NoSamples /\ FlushFrom(t, "autoflush")
       \/ phase = "failed" /\ Return(t) /\ UNCHANGED <<vars, told>>

\* The flush of a put; ensure_usable throws after another thread's failure.
AutoFlush(t) ==
    \/ FlushFrom(t, "autoflush")
    \/ /\ thread[t].pc = "autoflush"
       /\ CanLock
       /\ phase = "failed"
       /\ Return(t)
       /\ UNCHANGED <<vars, told>>

-----------------------------------------------------------------------------
(* sync, flush and compact.                                                *)

CallSync(t) ==
    /\ thread[t].pc = "idle"
    /\ CanLock
    /\ Sync
    /\ UNCHANGED <<thread, told>>

CallFlush(t) == FlushFrom(t, "idle")

CallCompact(t) ==
    /\ thread[t].pc = "idle"
    /\ CanLock
    /\ CompactBegin
    /\ GoTo(t, "compact")
    /\ UNCHANGED told

\* Mutant of EngineFails: the catch block does not set failed_.
EngineFailsUnnoticed(t) ==
    /\ thread[t].pc \in Exclusive
    /\ EndMutation
    /\ Return(t)
    /\ UNCHANGED <<phase, memtable, segments, manifest, logical_sample_count, durability, disk,
                   nput, floor, told>>

\* A mutation throws: failed_ is set, the lock released, the call returns.
EngineFails(t) ==
    /\ \/ thread[t].pc \in Exclusive
       \/ thread[t].pc \in {"idle", "autoflush"} /\ CanLock
    /\ Fail
    /\ Return(t)
    /\ UNCHANGED told

-----------------------------------------------------------------------------
(* get.                                                                    *)

\* Mutant of CallGet: no lock is taken.
CallGetUnlocked(t, k) ==
    /\ thread[t].pc = "idle"
    /\ phase = "ready"
    /\ thread' = [thread EXCEPT ![t] = [Resting EXCEPT !.pc = "get_memory", !.key = k,
                                                       !.left = segments, !.low = told[k]]]
    /\ UNCHANGED <<vars, told>>

CallGet(t, k) ==
    /\ thread[t].pc = "idle"
    /\ CanLockShared
    /\ phase = "ready"
    /\ thread' = [thread EXCEPT ![t] = [Resting EXCEPT !.pc = "get_memory", !.key = k,
                                                       !.left = segments, !.low = told[k]]]
    /\ UNCHANGED <<vars, told>>

GetFromMemory(t) ==
    /\ thread[t].pc = "get_memory"
    /\ LET v == memtable[thread[t].key]
       IN  thread' = [thread EXCEPT ![t].pc = IF v # NoSample THEN "got" ELSE "get_segments",
                                    ![t].value = v]
    /\ UNCHANGED <<vars, told>>

\* The segments, newest first; SegmentReader opens the file by name each time.
GetFromSegment(t) ==
    /\ thread[t].pc = "get_segments"
    /\ LET left == thread[t].left
           file == dir.segs[left[Len(left)]]
       IN  \/ left = <<>> /\ GoTo(t, "got")
           \/ left # <<>> /\ file = NoFile /\ GoTo(t, "get_failed")
           \/ /\ left # <<>>
              /\ file # NoFile
              /\ thread' = [thread EXCEPT
                    ![t].pc    = IF file[thread[t].key] # NoSample THEN "got" ELSE @,
                    ![t].value = file[thread[t].key],
                    ![t].left  = SubSeq(left, 1, Len(left) - 1)]
    /\ UNCHANGED <<vars, told>>

ReturnGet(t) ==
    /\ thread[t].pc \in {"got", "get_failed"}
    /\ told' = IF thread[t].value > told[thread[t].key]
               THEN [told EXCEPT ![thread[t].key] = thread[t].value] ELSE told
    /\ Return(t)
    /\ UNCHANGED vars

-----------------------------------------------------------------------------
(* The process ends, the machine stops, the database is opened again.      *)

DbStop ==
    /\ StopPossible
    /\ Stop
    /\ thread' = [t \in Threads |-> Resting]
    /\ UNCHANGED told

\* A power loss takes back what no durability point covered.
DbPowerLoss ==
    /\ PowerLoss
    /\ thread' = [t \in Threads |-> Resting]
    /\ told' = floor

DbRecover == Recover /\ UNCHANGED <<thread, told>>

DbWriteBack == WriteBack /\ UNCHANGED <<thread, told>>

\* What a thread in a call does next.
Continue(t) ==
    \/ EngineStep(t) \/ ReadSize(t) \/ AutoFlush(t)
    \/ GetFromMemory(t) \/ GetFromSegment(t) \/ ReturnGet(t)

DbNext ==
    \/ \E t \in Threads :
          \/ \E k \in Keys : CallPut(t, k) \/ CallGet(t, k)
          \/ CallSync(t) \/ CallFlush(t) \/ CallCompact(t)
          \/ Continue(t)
          \/ EngineFails(t)
    \/ DbRecover \/ DbStop \/ DbPowerLoss \/ DbWriteBack

DbSpec == DbInit /\ [][DbNext]_dbvars

\* The scheduler runs every thread that can run.  A std::shared_mutex promises
\* no more: a writer may wait as long as readers keep coming.
DbFairSpec ==
    /\ DbSpec
    /\ WF_dbvars(DbRecover)
    /\ \A t \in Threads : WF_dbvars(Continue(t))

-----------------------------------------------------------------------------
(* Properties.                                                             *)

\* The threads add no behaviour to the engine, so whatever is proved of the
\* engine holds for concurrent callers.
DrivesEngine == Spec

\* Every thread is at a place in a call, with the locals of that call.
DbTypeOK ==
    /\ thread \in [Threads -> [pc : {"idle"} \cup Exclusive \cup Shared \cup Between,
                               key : Keys, left : Seq(Generations),
                               low : Puts \cup {NoSample}, value : Puts \cup {NoSample}]]
    /\ told \in Samples

\* get is linearizable with put and with other gets: it returns the newest
\* value any call had told any caller before it began, or a newer one, although
\* flush and compact move the value from the memtable to one file and another.
ReadsAreCurrent ==
    \A t \in Threads : thread[t].pc = "got" => thread[t].value >= thread[t].low

\* compact removes files by name and get opens them by name: no get ever meets
\* a removed file.
ReadsNeverFail == At({"get_failed"}) = {}

\* The automatic flush is not lost between the critical sections of put:
\* whenever no put is under way the memtable is below the threshold.
\* (As long as the engine has not been restarted: recovery does not flush.)
BelowThresholdAtRest ==
    (Idle /\ FlushThreshold # 0 /\ At({"put"} \cup Between) = {})
        => Cardinality(KeysOf(memtable)) < FlushThreshold

\* From some point on no get begins.
ReadsEnd == <>[][\A t \in Threads : thread[t].pc = "idle" => thread'[t].pc \notin Shared]_dbvars

\* No thread waits for ever between its engine calls, and no call stops half way:
\* every call returns, unless gets keep arriving.
EveryCallReturns ==
    ReadsEnd => \A t \in Threads : (thread[t].pc # "idle" ~> thread[t].pc = "idle")

=============================================================================
