---------------------------- MODULE DatabaseProofs ----------------------------
(***************************************************************************)
(* Proofs about Database, for any number of threads: concurrent callers    *)
(* drive the engine through no behaviour it does not have by itself, and    *)
(* their reads are linearizable and never meet a removed file, and the      *)
(* memtable is below the threshold whenever no put is under way.            *)
(***************************************************************************)
EXTENDS Database, FilesProofs

\* Every step of a caller is a step of the engine, or none.
LEMMA DbStepIsEngineStep == [DbNext]_dbvars => [Next]_vars
<1> SUFFICES ASSUME [DbNext]_dbvars PROVE [Next]_vars
  OBVIOUS
<1>1. ASSUME NEW t \in Threads, NEW k \in Keys, CallPut(t, k) \/ CallGet(t, k)
      PROVE  [Next]_vars
  BY <1>1 DEF CallPut, CallGet, Next
<1>2. ASSUME NEW t \in Threads, NEW stage, FlushFrom(t, stage) PROVE Next
  BY <1>2 DEF FlushFrom, Next
<1>3. ASSUME NEW t \in Threads, CallSync(t) \/ CallCompact(t) \/ EngineFails(t) PROVE Next
  BY <1>3 DEF CallSync, CallCompact, EngineFails, Next
<1>4. ASSUME NEW t \in Threads, Continue(t) PROVE [Next]_vars
  <2>1. CASE EngineStep(t)
    BY <2>1 DEF EngineStep, Next
  <2>2. CASE AutoFlush(t)
    BY <2>2, <1>2 DEF AutoFlush
  <2>3. CASE ReadSize(t) \/ GetFromMemory(t) \/ GetFromSegment(t) \/ ReturnGet(t)
    BY <2>3 DEF ReadSize, GetFromMemory, GetFromSegment, ReturnGet
  <2> QED
    BY <1>4, <2>1, <2>2, <2>3 DEF Continue
<1>5. ASSUME DbRecover \/ DbStop \/ DbPowerLoss \/ DbWriteBack PROVE Next
  BY <1>5 DEF DbRecover, DbStop, DbPowerLoss, DbWriteBack, Next
<1>6. ASSUME UNCHANGED dbvars PROVE UNCHANGED vars
  BY <1>6 DEF dbvars
<1> QED
  BY <1>1, <1>2, <1>3, <1>4, <1>5, <1>6 DEF DbNext, CallFlush

\* Concurrent callers add no behaviour to the engine: every theorem about
\* StorageEngine holds of a Database that any number of threads use.
THEOREM CallersDriveEngine == DbSpec => DrivesEngine
<1>1. DbInit => Init
  BY DEF DbInit
<1> QED
  BY <1>1, DbStepIsEngineStep, PTL DEF DbSpec, DrivesEngine, Spec

-----------------------------------------------------------------------------
(* Reads.                                                                  *)

\* What the engine's own proofs show of it, whoever calls.
EngineInv == BaseInv /\ FilesInv /\ AgeInv /\ (JournaledDirectory => StoreInv)

LEMMA EngineInvariant == Spec => []EngineInv
<1>1. CASE JournaledDirectory
  BY <1>1, AgeInvariant, StoreInvariant, PTL DEF EngineInv
<1>2. CASE ~JournaledDirectory
  BY <1>2, AgeInvariant, PTL DEF EngineInv
<1> QED
  BY <1>1, <1>2

\* A power loss keeps what was promised, or there is none.
PromisesHold == JournaledDirectory \/ ~PowerLossPossible

\* An operation of the engine is in progress exactly while a thread holds the
\* lock exclusively, and then it is the only holder; readers have an open engine.
HoldersInv ==
    /\ DbTypeOK
    /\ step # "none" <=> At(Exclusive) # {}
    /\ \A t \in At(Exclusive), u \in At(Exclusive \cup Shared) : t = u
    /\ \A t \in At(Shared) : phase = "ready"

\* What callers were told can be recovered.
ToldRecovered == PromisesHold => \A k \in Keys : told[k] <= Recovered(wal, dir)[k]

\* And a get began with no more.
ToldInv ==
    /\ ToldRecovered
    /\ \A t \in At(Shared) : thread[t].low <= told[thread[t].key]

\* A get has looked at the memtable and at the segments that are not left, and
\* what is left decides its result.
ReadOK(t) ==
    /\ thread[t].pc = "get_memory" => thread[t].left = segments
    /\ thread[t].pc = "get_segments" =>
          /\ memtable[thread[t].key] = NoSample
          /\ thread[t].value = NoSample
          /\ \A i \in DOMAIN thread[t].left : thread[t].left[i] \in Live(dir)
          /\ SegmentGet(thread[t].left, dir.segs, thread[t].key)
                = SegmentGet(segments, dir.segs, thread[t].key)
    /\ thread[t].pc = "got" => thread[t].value = Get(thread[t].key)
    /\ thread[t].pc # "get_failed"

ReadInv == \A t \in Threads : ReadOK(t)

CallerInv == HoldersInv /\ ToldInv /\ ReadInv

Call == [pc : {"idle"} \cup Exclusive \cup Shared \cup Between, key : Keys,
         left : Seq(Generations), low : Puts \cup {NoSample}, value : Puts \cup {NoSample}]

LEMMA RestingType == Resting \in Call /\ Resting.pc = "idle"
BY KeysExist DEF Resting, Call

\* A step of one thread changes that thread alone.
LEMMA ThreadMoves ==
    ASSUME thread \in [Threads -> Call], NEW t \in Threads, NEW c \in Call,
           thread' = [thread EXCEPT ![t] = c]
    PROVE  /\ thread' \in [Threads -> Call]
           /\ thread'[t] = c
           /\ \A u \in Threads : u # t => thread'[u] = thread[u]
OBVIOUS

LEMMA ThreadGoes ==
    ASSUME thread \in [Threads -> Call], NEW t \in Threads, NEW stage,
           stage \in {"idle"} \cup Exclusive \cup Shared \cup Between,
           GoTo(t, stage)
    PROVE  /\ thread' \in [Threads -> Call]
           /\ thread'[t] = [thread[t] EXCEPT !.pc = stage]
           /\ thread'[t].pc = stage
           /\ thread'[t].key = thread[t].key
           /\ thread'[t].low = thread[t].low
           /\ thread'[t].left = thread[t].left
           /\ thread'[t].value = thread[t].value
           /\ \A u \in Threads : u # t => thread'[u] = thread[u]
BY DEF GoTo, Call

\* The ways in which a thread takes the lock exclusively, keeps it, and gives it
\* back, and what the engine's operation in progress has to do with it.
LEMMA HoldersStep ==
    ASSUME HoldersInv, DbTypeOK', NEW t \in Threads,
           \A u \in Threads : u # t => thread'[u] = thread[u],
           \/ /\ CanLock
              /\ thread'[t].pc \in Exclusive
              /\ step' # "none"
           \/ /\ thread[t].pc \in Exclusive
              /\ step' = "none"
              /\ thread'[t].pc \notin Exclusive \cup Shared
           \/ /\ thread[t].pc \notin Exclusive
              /\ thread'[t].pc \notin Exclusive \cup Shared
              /\ step' = step
              /\ phase' = phase \/ CanLock
           \/ /\ CanLockShared
              /\ thread'[t].pc \in Shared
              /\ step' = step /\ phase' = phase /\ phase = "ready"
    PROVE  HoldersInv'
BY DEF HoldersInv, At, CanLock, CanLockShared, Exclusive, Shared

\* Without a reader there is nothing to show about reads.
LEMMA NoReaders ==
    ASSUME \A u \in Threads : thread'[u].pc \notin Shared
    PROVE  ReadInv' /\ (\A t \in At(Shared) : thread[t].low <= told[thread[t].key])'
BY DEF ReadInv, ReadOK, Shared, At

\* A step that leaves memory and files alone leaves the other readers alone.
LEMMA OtherReaders ==
    ASSUME memtable' = memtable, segments' = segments, dir' = dir,
           NEW u \in Threads, thread'[u] = thread[u], ReadOK(u)
    PROVE  ReadOK(u)'
BY DEF ReadOK, Get

\* What an idle engine answers can be recovered, before and after a step.
AnswersRecovered == \A k \in Keys : Get(k) = Recovered(wal, dir)[k]

LEMMA ViewIsRecovered == BaseInv /\ Idle => AnswersRecovered
BY ViewIs DEF View, AnswersRecovered

LEMMA RecoveredNat == BaseInv => \A j \in Keys : Recovered(wal, dir)[j] \in Nat
BY StoreTypes

LEMMA ToldKept ==
    ASSUME EngineInv, EngineInv', [Next]_vars, ~PowerLoss, DbTypeOK, ToldInv, told' = told
    PROVE  ToldRecovered'
<1> SUFFICES ASSUME PromisesHold, NEW k \in Keys PROVE told[k] <= Recovered(wal', dir')[k]
  BY DEF ToldRecovered, PromisesHold
<1>1. Recovered(wal, dir)[k] <= Recovered(wal', dir')[k] /\ told[k] <= Recovered(wal, dir)[k]
  BY RecoveredGrows DEF ToldInv, ToldRecovered, EngineInv
<1>2. Recovered(wal, dir)[k] \in Nat
  BY StoreTypes DEF EngineInv
<1>3. (BaseInv => \A j \in Keys : Recovered(wal, dir)[j] \in Nat)'
  BY RecoveredNat, PTL
<1>4. told[k] \in Nat
  BY BoundsAreNat DEF DbTypeOK, Samples, Puts, NoSample
<1> QED
  BY <1>1, <1>2, <1>3, <1>4 DEF EngineInv

Premises == EngineInv /\ EngineInv' /\ CallerInv /\ [Next]_vars

\* A thread takes the lock exclusively for a mutation that goes on.
LEMMA CallerLocks ==
    ASSUME Premises, NEW t \in Threads, CanLock, step' # "none", phase' # "closed", told' = told,
           NEW c \in Call, thread' = [thread EXCEPT ![t] = c], c.pc \in Exclusive
    PROVE  CallerInv'
<1> USE DEF Premises, CallerInv
<1>1. thread \in [Threads -> Call] /\ told \in Samples
  BY DEF HoldersInv, DbTypeOK, Call
<1>2. /\ thread' \in [Threads -> Call] /\ thread'[t] = c
      /\ \A u \in Threads : u # t => thread'[u] = thread[u]
  BY <1>1, ThreadMoves
<1>3. DbTypeOK'
  BY <1>1, <1>2 DEF DbTypeOK, Call
<1>4. HoldersInv'
  BY <1>2, <1>3, HoldersStep
<1>5. \A u \in Threads : thread'[u].pc \notin Shared
  BY <1>2 DEF CanLock, At, Exclusive, Shared
<1>6. ~PowerLoss
  BY DEF PowerLoss, LoseMemory
<1> QED
  BY <1>4, <1>5, <1>6, NoReaders, ToldKept DEF ToldInv, HoldersInv

\* A thread that holds no lock, or gives back the exclusive one, does not hold
\* one afterwards, and no operation is in progress.
LEMMA CallerRests ==
    ASSUME Premises, NEW t \in Threads, CanLock \/ thread[t].pc \in Exclusive,
           step' = "none", told' \in Samples, ToldRecovered',
           NEW c \in Call, thread' = [thread EXCEPT ![t] = c], c.pc \notin Exclusive \cup Shared
    PROVE  CallerInv'
<1> USE DEF Premises, CallerInv
<1>1. thread \in [Threads -> Call] /\ told \in Samples
  BY DEF HoldersInv, DbTypeOK, Call
<1>2. /\ thread' \in [Threads -> Call] /\ thread'[t] = c
      /\ \A u \in Threads : u # t => thread'[u] = thread[u]
  BY <1>1, ThreadMoves
<1>3. DbTypeOK'
  BY <1>1, <1>2 DEF DbTypeOK, Call
<1>4. HoldersInv'
  <2>1. CASE thread[t].pc \in Exclusive
    BY <1>2, <1>3, <2>1, HoldersStep
  <2>2. CASE CanLock
    <3>1. step = "none" /\ thread[t].pc \notin Exclusive
      BY <2>2 DEF HoldersInv, CanLock, At
    <3> QED
      BY <1>2, <1>3, <2>2, <3>1, HoldersStep
  <2> QED
    BY <2>1, <2>2
<1>5. \A u \in Threads : thread'[u].pc \notin Shared
  BY <1>2 DEF CanLock, At, Exclusive, Shared, HoldersInv
<1> QED
  BY <1>4, <1>5, NoReaders DEF ToldInv

LEMMA GoingIsMoving ==
    ASSUME thread \in [Threads -> Call], NEW t \in Threads, NEW stage,
           stage \in {"idle"} \cup Exclusive \cup Shared \cup Between, GoTo(t, stage)
    PROVE  \E c \in Call : thread' = [thread EXCEPT ![t] = c] /\ c.pc = stage
<1> DEFINE c == [thread[t] EXCEPT !.pc = stage]
<1>1. c \in Call /\ c.pc = stage
  BY DEF Call
<1>2. thread' = [thread EXCEPT ![t] = c]
  BY DEF GoTo
<1> QED
  BY <1>1, <1>2

\* Nothing that a mutation does, short of closing the engine, takes back what was told.
LEMMA ToldSurvives ==
    ASSUME Premises, phase' # "closed", told' = told
    PROVE  told' \in Samples /\ ToldRecovered'
<1>1. ~PowerLoss
  BY DEF PowerLoss, LoseMemory
<1>2. told \in Samples
  BY DEF Premises, CallerInv, HoldersInv, DbTypeOK
<1> QED
  BY <1>1, <1>2, ToldKept DEF Premises, CallerInv, HoldersInv

LEMMA CallerCalls ==
    ASSUME Premises, NEW t \in Threads,
           \/ \E k \in Keys : CallPut(t, k)
           \/ CallCompact(t)
    PROVE  CallerInv'
<1>0. thread \in [Threads -> Call]
  BY DEF Premises, CallerInv, HoldersInv, DbTypeOK, Call
<1>1. CASE CallCompact(t)
  <2>1. CanLock /\ step' # "none" /\ phase' # "closed" /\ told' = told /\ GoTo(t, "compact")
    BY <1>1 DEF CallCompact, CompactBegin, WriteTemporary, Idle
  <2>2. PICK c \in Call : thread' = [thread EXCEPT ![t] = c] /\ c.pc = "compact"
    BY <1>0, <2>1, GoingIsMoving DEF Exclusive
  <2> QED
    BY <2>1, <2>2, CallerLocks DEF Exclusive
<1>2. ASSUME NEW k \in Keys, CallPut(t, k) PROVE CallerInv'
  <2> DEFINE c == [Resting EXCEPT !.pc = "put", !.key = k]
  <2>1. CanLock /\ step' # "none" /\ phase' # "closed" /\ told' = told
    BY <1>2 DEF CallPut, PutBegin, Idle
  <2>2. c \in Call /\ c.pc = "put" /\ thread' = [thread EXCEPT ![t] = c]
    BY <1>2, RestingType DEF CallPut, Call, Exclusive
  <2> HIDE DEF c
  <2> QED
    BY <2>1, <2>2, CallerLocks DEF Exclusive
<1> QED
  BY <1>1, <1>2

LEMMA CallerFlushes ==
    ASSUME Premises, NEW t \in Threads, NEW stage \in {"idle", "autoflush"}, FlushFrom(t, stage)
    PROVE  CallerInv'
<1>0. thread \in [Threads -> Call]
  BY DEF Premises, CallerInv, HoldersInv, DbTypeOK, Call
<1>1. CanLock /\ told' = told
  BY DEF FlushFrom
<1>2. CASE FlushBegin /\ GoTo(t, "flush")
  <2>1. step' # "none" /\ phase' # "closed"
    BY <1>2 DEF FlushBegin, WriteTemporary, Idle
  <2>2. PICK c \in Call : thread' = [thread EXCEPT ![t] = c] /\ c.pc = "flush"
    BY <1>0, <1>2, GoingIsMoving DEF Exclusive
  <2> QED
    BY <1>1, <2>1, <2>2, CallerLocks DEF Exclusive
<1>3. CASE (Sync \/ Fail) /\ Return(t)
  <2>1. step' = "none" /\ phase' # "closed"
    BY <1>3 DEF Sync, Fail, Idle, EndMutation, engine
  <2>2. thread' = [thread EXCEPT ![t] = Resting]
    BY <1>3 DEF Return
  <2> QED
    BY <1>1, <2>1, <2>2, RestingType, ToldSurvives, CallerRests DEF Exclusive, Shared
<1> QED
  BY <1>2, <1>3 DEF FlushFrom

\* The engine's operation goes on under the same lock.
LEMMA CallerKeepsLock ==
    ASSUME Premises, NEW t \in Threads, thread[t].pc \in Exclusive, thread' = thread,
           step' # "none", phase' # "closed", told' = told
    PROVE  CallerInv'
<1> USE DEF Premises, CallerInv
<1>1. DbTypeOK'
  BY DEF HoldersInv, DbTypeOK
<1>2. HoldersInv'
  BY <1>1 DEF HoldersInv, At, Exclusive, Shared
<1>3. \A u \in Threads : thread'[u].pc \notin Shared
  BY DEF HoldersInv, At, Exclusive, Shared
<1> QED
  BY <1>2, <1>3, NoReaders, ToldSurvives DEF ToldInv

LEMMA CallerMutates ==
    ASSUME Premises, NEW t \in Threads, EngineStep(t)
    PROVE  CallerInv'
<1>0. thread \in [Threads -> Call] /\ thread[t].key \in Keys /\ told \in Samples
  BY DEF Premises, CallerInv, HoldersInv, DbTypeOK, Call
<1>1. thread[t].pc \in Exclusive
  BY DEF EngineStep
<1>2. phase = "ready" /\ phase' = "ready"
  BY DEF EngineStep, Mutate, PutWrite, PutSync, PublishSegment, SyncSegment, PublishManifest,
         InstallManifest, TruncateWal, ResetWal
<1>3. CASE step' # "none"
  BY <1>1, <1>2, <1>3, CallerKeepsLock DEF EngineStep
<1>4. CASE step' = "none" /\ thread[t].pc # "put"
  BY <1>1, <1>2, <1>4, RestingType, ToldSurvives, CallerRests
     DEF EngineStep, Return, Exclusive, Shared
<1>5. CASE step' = "none" /\ thread[t].pc = "put"
  <2> DEFINE k == thread[t].key
  <2>1. told' = [told EXCEPT ![k] = memtable'[k]]
    BY <1>5 DEF EngineStep
  <2>2. memtable' \in Samples
    BY DEF Premises, EngineInv, BaseInv, TypeInv, TypeOK
  <2>3. told' \in Samples
    BY <1>0, <2>1, <2>2 DEF Samples
  <2>4. \A j \in Keys : Get(j)' = Recovered(wal, dir)'[j]
    <3>1. BaseInv' /\ Idle'
      BY <1>2, <1>5 DEF Premises, EngineInv, Idle
    <3>2. BaseInv' /\ Idle' => AnswersRecovered'
      BY ViewIsRecovered, PTL
    <3> QED
      BY <3>1, <3>2 DEF AnswersRecovered
  <2>5. (BaseInv => \A j \in Keys : Recovered(wal, dir)[j] \in Nat)'
    BY RecoveredNat, PTL
  <2>6. ToldRecovered'
    <3> SUFFICES ASSUME PromisesHold, NEW j \in Keys PROVE told'[j] <= Recovered(wal', dir')[j]
      BY DEF ToldRecovered, PromisesHold
    <3>1. Recovered(wal', dir')[j] \in Nat
      BY <2>5 DEF Premises, EngineInv
    <3>2. CASE j = k
      <4>1. memtable'[k] # NoSample => memtable'[k] = Recovered(wal', dir')[k]
        BY <1>0, <2>4 DEF Get
      <4>2. told'[k] = memtable'[k]
        BY <1>0, <2>1 DEF Samples
      <4> QED
        BY <3>1, <3>2, <4>1, <4>2 DEF NoSample
    <3>3. CASE j # k
      <4>1. ~PowerLoss
        BY <1>2 DEF PowerLoss, LoseMemory
      <4>2. Recovered(wal, dir)[j] <= Recovered(wal', dir')[j]
        BY <4>1, RecoveredGrows DEF Premises, EngineInv
      <4>3. told'[j] = told[j] /\ told[j] \in Nat
        BY <1>0, <2>1, <3>3, BoundsAreNat DEF Samples, Puts, NoSample
      <4>4. told[j] <= Recovered(wal, dir)[j] /\ Recovered(wal, dir)[j] \in Nat
        BY RecoveredNat DEF Premises, CallerInv, ToldInv, ToldRecovered, EngineInv
      <4> QED
        BY <3>1, <4>2, <4>3, <4>4
    <3> QED
      BY <3>2, <3>3
  <2>7. PICK c \in Call : thread' = [thread EXCEPT ![t] = c] /\ c.pc \in {"idle", "count"}
    <3>1. CASE GoTo(t, "count")
      BY <1>0, <3>1, GoingIsMoving DEF Between
    <3>2. CASE Return(t)
      BY <3>2, RestingType DEF Return
    <3> QED
      BY <1>5, <3>1, <3>2 DEF EngineStep
  <2> QED
    BY <1>1, <1>5, <2>3, <2>6, <2>7, CallerRests DEF Exclusive, Shared
<1> QED
  BY <1>3, <1>4, <1>5

LEMMA CallerEnds ==
    ASSUME Premises, NEW t \in Threads, EngineFails(t) \/ AutoFlush(t)
    PROVE  CallerInv'
<1>1. CASE EngineFails(t)
  <2>1. CanLock \/ thread[t].pc \in Exclusive
    BY <1>1 DEF EngineFails
  <2>2. step' = "none" /\ phase' # "closed" /\ told' = told
    BY <1>1 DEF EngineFails, Fail, EndMutation
  <2> QED
    BY <1>1, <2>1, <2>2, RestingType, ToldSurvives, CallerRests
       DEF EngineFails, Return, Exclusive, Shared
<1>2. CASE FlushFrom(t, "autoflush")
  BY <1>2, CallerFlushes
<1>3. CASE CanLock /\ phase = "failed" /\ Return(t) /\ UNCHANGED <<vars, told>>
  <2>1. step' = "none" /\ phase' # "closed"
    BY <1>3 DEF vars, engine, Premises, EngineInv, BaseInv, TypeInv
  <2> QED
    BY <1>3, <2>1, RestingType, ToldSurvives, CallerRests DEF Return, Exclusive, Shared
<1> QED
  BY <1>1, <1>2, <1>3 DEF AutoFlush

LEMMA ToldStays == ToldRecovered /\ UNCHANGED <<vars, told>> => ToldRecovered'
BY DEF ToldRecovered, vars, disk

\* A step of a reader, or of a put that reads the memtable's size: the engine and
\* its files stay as they are.
LEMMA CallerReads ==
    ASSUME Premises, NEW t \in Threads, UNCHANGED vars, HoldersInv',
           \A u \in Threads : u # t => thread'[u] = thread[u],
           told' \in Samples,
           \A k \in Keys : told[k] <= told'[k], ToldRecovered',
           thread'[t].pc \in Shared => thread'[t].low <= told[thread'[t].key],
           ReadOK(t)'
    PROVE  CallerInv'
<1> USE DEF Premises, CallerInv
<1>1. /\ memtable' = memtable /\ segments' = segments /\ dir' = dir /\ wal' = wal
  BY DEF vars, engine, disk
<1>2. ReadInv'
  BY <1>1, OtherReaders DEF ReadInv
<1>3. (\A u \in At(Shared) : thread[u].low <= told[thread[u].key])'
  <2> SUFFICES ASSUME NEW u \in Threads, thread'[u].pc \in Shared
               PROVE  thread'[u].low <= told'[thread'[u].key]
    BY DEF At
  <2>1. thread'[u].low <= told[thread'[u].key]
    <3>1. CASE u = t
      BY <3>1
    <3>2. CASE u # t
      BY <3>2 DEF ToldInv, At
    <3> QED
      BY <3>1, <3>2
  <2>2. thread'[u].key \in Keys /\ thread'[u].low \in Nat
    BY BoundsAreNat DEF HoldersInv, DbTypeOK, Puts, NoSample
  <2>3. told[thread'[u].key] \in Nat /\ told'[thread'[u].key] \in Nat
    BY <2>2, BoundsAreNat DEF HoldersInv, DbTypeOK, Samples, Puts, NoSample
  <2> QED
    BY <2>1, <2>2, <2>3
<1> QED
  BY <1>2, <1>3 DEF ToldInv

LEMMA CallerGets ==
    ASSUME Premises, NEW t \in Threads, NEW k \in Keys, CallGet(t, k)
    PROVE  CallerInv'
<1> USE DEF Premises, CallerInv
<1> DEFINE c == [Resting EXCEPT !.pc = "get_memory", !.key = k, !.left = segments,
                                !.low = told[k]]
<1>1. thread \in [Threads -> Call] /\ told \in Samples
  BY DEF HoldersInv, DbTypeOK, Call
<1>2. segments \in Seq(Generations)
  BY DEF EngineInv, BaseInv, TypeInv, TypeOK
<1>3. /\ c \in Call /\ c.pc = "get_memory" /\ c.key = k /\ c.left = segments /\ c.low = told[k]
      /\ thread' = [thread EXCEPT ![t] = c]
  BY <1>1, <1>2, RestingType DEF CallGet, Call, Shared, Samples
<1> HIDE DEF c
<1>4. /\ thread' \in [Threads -> Call] /\ thread'[t] = c
      /\ \A u \in Threads : u # t => thread'[u] = thread[u]
  BY <1>1, <1>3, ThreadMoves
<1>5. UNCHANGED vars /\ told' = told /\ phase' = phase /\ phase = "ready" /\ step' = step
      /\ CanLockShared /\ segments' = segments
  BY DEF CallGet, vars, engine
<1>6. DbTypeOK'
  BY <1>1, <1>4, <1>5 DEF DbTypeOK, Call
<1>7. HoldersInv'
  BY <1>3, <1>4, <1>5, <1>6, HoldersStep DEF Shared
<1>8. ReadOK(t)'
  BY <1>3, <1>4, <1>5 DEF ReadOK
<1>9. (\A j \in Keys : told[j] <= told'[j]) /\ ToldRecovered'
  BY <1>1, <1>5, BoundsAreNat, ToldStays DEF ToldInv, Samples, Puts, NoSample
<1>10. thread'[t].low <= told[thread'[t].key]
  BY <1>1, <1>3, <1>4, BoundsAreNat DEF Samples, Puts, NoSample
<1> QED
  BY <1>1, <1>4, <1>5, <1>7, <1>8, <1>9, <1>10, CallerReads

\* A reader moves on with its lock: what it holds stays correct if it was.
LEMMA ReaderMoves ==
    ASSUME Premises, NEW t \in Threads, UNCHANGED <<vars, told>>, thread[t].pc \in Shared,
           NEW c \in Call, thread' = [thread EXCEPT ![t] = c], c.pc \in Shared,
           c.key = thread[t].key, c.low = thread[t].low,
           thread'[t] = c => ReadOK(t)'
    PROVE  CallerInv'
<1> USE DEF Premises, CallerInv
<1>1. thread \in [Threads -> Call] /\ told \in Samples
  BY DEF HoldersInv, DbTypeOK, Call
<1>2. /\ thread' \in [Threads -> Call] /\ thread'[t] = c
      /\ \A u \in Threads : u # t => thread'[u] = thread[u]
  BY <1>1, ThreadMoves
<1>3. phase' = phase /\ phase = "ready" /\ step' = step /\ CanLockShared
  BY DEF vars, engine, HoldersInv, At, CanLockShared, Exclusive, Shared
<1>4. DbTypeOK'
  BY <1>1, <1>2 DEF DbTypeOK, Call
<1>5. HoldersInv'
  BY <1>2, <1>3, <1>4, HoldersStep
<1>6. (\A j \in Keys : told[j] <= told'[j]) /\ ToldRecovered'
  BY <1>1, BoundsAreNat, ToldStays DEF ToldInv, Samples, Puts, NoSample
<1>7. thread'[t].low <= told[thread'[t].key]
  BY <1>2 DEF ToldInv, At
<1> QED
  BY <1>1, <1>2, <1>5, <1>6, <1>7, CallerReads

LEMMA CallerGetsFromMemory ==
    ASSUME Premises, NEW t \in Threads, GetFromMemory(t)
    PROVE  CallerInv'
<1> USE DEF Premises, CallerInv
<1>1. /\ thread \in [Threads -> Call] /\ thread[t] \in Call /\ thread[t].key \in Keys
      /\ memtable \in Samples /\ segments \in Seq(Generations)
  BY DEF HoldersInv, DbTypeOK, Call, EngineInv, BaseInv, TypeInv, TypeOK
<1> DEFINE v == memtable[thread[t].key]
           c == [thread[t] EXCEPT !.pc = IF v # NoSample THEN "got" ELSE "get_segments",
                                  !.value = v]
<1>2. v \in Puts \cup {NoSample}
  BY <1>1 DEF Samples
<1>3. /\ c \in Call /\ c.pc = (IF v # NoSample THEN "got" ELSE "get_segments") /\ c.value = v
      /\ c.key = thread[t].key /\ c.low = thread[t].low /\ c.left = thread[t].left
  BY <1>1, <1>2 DEF Call, Shared
<1>4. thread' = [thread EXCEPT ![t] = c] /\ UNCHANGED <<vars, told>> /\ thread[t].pc = "get_memory"
  BY DEF GetFromMemory
<1>5. memtable' = memtable /\ segments' = segments /\ dir' = dir
  BY <1>4 DEF vars, engine, disk
<1>6. thread[t].left = segments
  BY <1>4 DEF ReadInv, ReadOK
<1>7. segments = dir.manifest.segment_files
  BY <1>4 DEF HoldersInv, EngineInv, BaseInv, MemoryInv, Opened, At, Shared, Exclusive
<1>8. \A i \in DOMAIN segments : segments[i] \in Live(dir)
  BY <1>7 DEF Live
<1> HIDE DEF c
<1>9. thread'[t] = c => ReadOK(t)'
  BY <1>3, <1>5, <1>6, <1>8 DEF ReadOK, Get
<1> QED
  BY <1>3, <1>4, <1>9, ReaderMoves DEF Shared

LEMMA CallerGetsFromSegment ==
    ASSUME Premises, NEW t \in Threads, GetFromSegment(t)
    PROVE  CallerInv'
<1> USE DEF Premises, CallerInv
<1> DEFINE left == thread[t].left
           n    == Len(left)
           rest == SubSeq(left, 1, n - 1)
           file == dir.segs[left[n]]
           k    == thread[t].key
<1>1. /\ thread \in [Threads -> Call] /\ thread[t] \in Call /\ k \in Keys
      /\ left \in Seq(Generations) /\ dir.segs \in SegmentMap
  BY BaseTypes DEF HoldersInv, DbTypeOK, Call, EngineInv
<1>2. /\ UNCHANGED <<vars, told>> /\ thread[t].pc = "get_segments"
      /\ memtable' = memtable /\ segments' = segments /\ dir' = dir
  BY DEF GetFromSegment, vars, engine, disk
<1>3. /\ memtable[k] = NoSample
      /\ \A i \in DOMAIN left : left[i] \in Live(dir)
      /\ SegmentGet(left, dir.segs, k) = SegmentGet(segments, dir.segs, k)
  BY <1>2 DEF ReadInv, ReadOK
<1>4. CASE left = <<>> /\ GoTo(t, "got")
  <2> DEFINE c == [thread[t] EXCEPT !.pc = "got"]
  <2>1. /\ c \in Call /\ c.pc = "got" /\ c.key = k /\ c.low = thread[t].low
        /\ c.value = thread[t].value /\ thread' = [thread EXCEPT ![t] = c]
    BY <1>1, <1>4 DEF Call, Shared, GoTo
  <2>2. Get(k) = NoSample
    BY <1>3, <1>4, SegmentGetEmpty DEF Get
  <2>3. thread[t].value = NoSample
    BY <1>2 DEF ReadInv, ReadOK
  <2> HIDE DEF c
  <2>4. thread'[t] = c => ReadOK(t)'
    BY <1>2, <2>1, <2>2, <2>3 DEF ReadOK, Get
  <2> QED
    BY <1>2, <2>1, <2>4, ReaderMoves DEF Shared
<1>5. ASSUME left # <<>>
      PROVE  /\ n \in Nat \ {0} /\ rest \in Seq(Generations) /\ left = Append(rest, left[n])
             /\ left[n] \in Generations /\ left[n] \in Live(dir)
             /\ \A i \in DOMAIN rest : rest[i] \in Live(dir)
             /\ file # NoFile
             /\ SegmentGet(segments, dir.segs, k) =
                    IF file[k] # NoSample THEN file[k] ELSE SegmentGet(rest, dir.segs, k)
  <2>1. n \in Nat \ {0} /\ rest \in Seq(Generations) /\ left[n] \in Generations
    BY <1>1, <1>5
  <2>2. /\ Len(rest) = n - 1 /\ \A i \in 1..(n - 1) : rest[i] = left[i]
    BY <1>1, <2>1
  <2>3. left = Append(rest, left[n])
    BY <1>1, <2>1, <2>2
  <2>4. left[n] \in Live(dir) /\ \A i \in DOMAIN rest : rest[i] \in Live(dir)
    BY <1>1, <1>3, <2>1, <2>2
  <2>5. file # NoFile
    BY <1>2, <2>4 DEF EngineInv, FilesInv, OpenFiles, Complete, Opened, HoldersInv, At, Shared
  <2>6. SegmentGet(Append(rest, left[n]), dir.segs, k) =
           IF file[k] # NoSample THEN file[k] ELSE SegmentGet(rest, dir.segs, k)
    BY <1>1, <2>1, SegmentGetAppend
  <2> QED
    BY <1>3, <2>1, <2>3, <2>4, <2>5, <2>6
<1>6. CASE /\ left # <<>>
           /\ thread' = [thread EXCEPT
                    ![t].pc    = IF file[k] # NoSample THEN "got" ELSE @,
                    ![t].value = file[k],
                    ![t].left  = rest]
  <2> DEFINE c == [thread[t] EXCEPT !.pc = IF file[k] # NoSample THEN "got" ELSE "get_segments",
                                    !.value = file[k], !.left = rest]
  <2>1. file[k] \in Puts \cup {NoSample}
    BY <1>1, <1>5, <1>6 DEF SegmentMap, Samples
  <2>2. /\ c \in Call /\ c.pc = (IF file[k] # NoSample THEN "got" ELSE "get_segments")
        /\ c.key = k /\ c.low = thread[t].low /\ c.value = file[k] /\ c.left = rest
    BY <1>1, <1>5, <1>6, <2>1 DEF Call, Shared
  <2>3. thread' = [thread EXCEPT ![t] = c]
    BY <1>1, <1>2, <1>6 DEF Call
  <2>4. Get(k) = IF file[k] # NoSample THEN file[k] ELSE SegmentGet(rest, dir.segs, k)
    BY <1>3, <1>5, <1>6 DEF Get
  <2> HIDE DEF c
  <2>5. thread'[t] = c => ReadOK(t)'
    <3>1. c.pc = "got" => c.value = Get(k)
      BY <2>2, <2>4
    <3>2. c.pc = "get_segments" => /\ c.value = NoSample
                                   /\ SegmentGet(c.left, dir.segs, k) = SegmentGet(segments, dir.segs, k)
                                   /\ \A i \in DOMAIN c.left : c.left[i] \in Live(dir)
      BY <1>5, <1>6, <2>2
    <3> QED
      BY <1>2, <1>3, <2>2, <3>1, <3>2 DEF ReadOK, Get
  <2> QED
    BY <1>2, <2>2, <2>3, <2>5, ReaderMoves DEF Shared
<1> QED
  BY <1>4, <1>5, <1>6 DEF GetFromSegment

\* A thread that ends up without a lock, while others may still read.
LEMMA CallerLeaves ==
    ASSUME Premises, NEW t \in Threads, UNCHANGED vars, thread[t].pc \notin Exclusive,
           NEW c \in Call, thread' = [thread EXCEPT ![t] = c], c.pc \notin Exclusive \cup Shared,
           told' \in Samples, \A k \in Keys : told[k] <= told'[k], ToldRecovered'
    PROVE  CallerInv'
<1> USE DEF Premises, CallerInv
<1>1. thread \in [Threads -> Call] /\ told \in Samples
  BY DEF HoldersInv, DbTypeOK, Call
<1>2. /\ thread' \in [Threads -> Call] /\ thread'[t] = c
      /\ \A u \in Threads : u # t => thread'[u] = thread[u]
  BY <1>1, ThreadMoves
<1>3. DbTypeOK'
  BY <1>2 DEF DbTypeOK, Call
<1>4. HoldersInv'
  BY <1>2, <1>3, HoldersStep DEF vars, engine
<1>5. ReadOK(t)'
  BY <1>2 DEF ReadOK, Shared
<1> QED
  BY <1>2, <1>4, <1>5, CallerReads

LEMMA CallerReturns ==
    ASSUME Premises, NEW t \in Threads, ReturnGet(t) \/ ReadSize(t)
    PROVE  CallerInv'
<1> USE DEF Premises, CallerInv
<1>1. /\ thread \in [Threads -> Call] /\ thread[t].key \in Keys /\ told \in Samples
      /\ (\A k \in Keys : told[k] \in Nat) /\ ToldRecovered
  BY BoundsAreNat DEF HoldersInv, DbTypeOK, Call, ToldInv, Samples, Puts, NoSample
<1>2. CASE ReturnGet(t)
  <2> DEFINE k == thread[t].key
             v == thread[t].value
  <2>1. thread[t].pc = "got"
    BY <1>2 DEF ReturnGet, ReadInv, ReadOK
  <2>2. Idle
    BY <2>1 DEF HoldersInv, At, Exclusive, Shared, Idle
  <2>3. v = Recovered(wal, dir)[k]
    BY <1>1, <2>1, <2>2, ViewIsRecovered DEF ReadInv, ReadOK, EngineInv, AnswersRecovered
  <2>4. v \in Puts \cup {NoSample} /\ v \in Nat
    BY BoundsAreNat DEF HoldersInv, DbTypeOK, Puts, NoSample
  <2>5. told' = IF v > told[k] THEN [told EXCEPT ![k] = v] ELSE told
    BY <1>2 DEF ReturnGet
  <2>6. told' \in Samples
    BY <1>1, <2>4, <2>5 DEF Samples
  <2>7. \A j \in Keys : told[j] <= told'[j] /\ told'[j] \in {told[j], Recovered(wal, dir)[j]}
    BY <1>1, <2>3, <2>4, <2>5 DEF Samples
  <2>8. UNCHANGED vars /\ thread' = [thread EXCEPT ![t] = Resting]
    BY <1>2 DEF ReturnGet, Return
  <2>9. ToldRecovered'
    <3> SUFFICES ASSUME PromisesHold, NEW j \in Keys PROVE told'[j] <= Recovered(wal, dir)[j]
      BY <2>8 DEF ToldRecovered, PromisesHold, vars, disk
    <3>1. told[j] <= Recovered(wal, dir)[j] /\ Recovered(wal, dir)[j] \in Nat
      BY <1>1, RecoveredNat DEF ToldRecovered, EngineInv
    <3> QED
      BY <2>7, <3>1
  <2> QED
    BY <2>1, <2>6, <2>7, <2>8, <2>9, RestingType, CallerLeaves DEF Exclusive, Shared
<1>3. CASE ReadSize(t)
  <2>1. PICK c \in Call : thread' = [thread EXCEPT ![t] = c] /\ c.pc \in {"idle", "autoflush"}
    <3>1. CASE GoTo(t, "autoflush")
      BY <1>1, <3>1, GoingIsMoving DEF Between
    <3>2. CASE Return(t)
      BY <3>2, RestingType DEF Return
    <3> QED
      BY <1>3, <3>1, <3>2 DEF ReadSize
  <2>2. UNCHANGED <<vars, told>> /\ thread[t].pc = "count"
    BY <1>3 DEF ReadSize
  <2>3. told' \in Samples /\ (\A j \in Keys : told[j] <= told'[j]) /\ ToldRecovered'
    BY <1>1, <2>2, ToldStays
  <2>4. thread[t].pc \notin Exclusive /\ c.pc \notin Exclusive \cup Shared
    BY <2>1, <2>2 DEF Exclusive, Shared
  <2> QED
    BY <2>1, <2>2, <2>3, <2>4, CallerLeaves
<1> QED
  BY <1>2, <1>3

\* sync, and the operating system's write back, move nothing a reader looks at.
LEMMA CallerUndisturbed ==
    ASSUME Premises, thread' = thread, told' = told, memtable' = memtable, segments' = segments,
           dir' = dir, wal' = wal, phase' = phase, step' = step
    PROVE  CallerInv'
<1> USE DEF Premises, CallerInv
<1>1. HoldersInv'
  BY DEF HoldersInv, DbTypeOK, At
<1>2. ReadInv'
  BY OtherReaders DEF ReadInv
<1>3. ToldInv'
  BY DEF ToldInv, ToldRecovered, At
<1> QED
  BY <1>1, <1>2, <1>3

\* After the process or the machine stopped no thread holds anything.
LEMMA CallersGone ==
    ASSUME Premises, DbStop \/ DbPowerLoss
    PROVE  CallerInv'
<1> USE DEF Premises, CallerInv
<1>1. thread' = [t \in Threads |-> Resting] /\ step' = "none"
  BY DEF DbStop, DbPowerLoss, Stop, PowerLoss, LoseMemory, EndMutation
<1>2. told' \in Samples /\ ToldRecovered'
  <2>1. CASE DbStop
    <3>1. Recovered(wal', dir') = Recovered(wal, dir) /\ told' = told
      BY <2>1 DEF DbStop, Stop, disk
    <3> QED
      BY <3>1 DEF ToldInv, ToldRecovered, HoldersInv, DbTypeOK
  <2>2. CASE DbPowerLoss
    <3>1. PowerLoss /\ told' = floor /\ floor \in Samples
      BY <2>2 DEF DbPowerLoss, EngineInv, BaseInv, TypeInv, TypeOK
    <3>2. PowerLossPossible
      BY <3>1 DEF PowerLoss
    <3>3. JournaledDirectory => \A k \in Keys : floor[k] <= Recovered(wal', dir')[k]
      BY <3>1, StorePowerLoss DEF EngineInv
    <3> QED
      BY <3>1, <3>2, <3>3 DEF ToldRecovered, PromisesHold
  <2> QED
    BY <2>1, <2>2
<1>3. HoldersInv'
  BY <1>1, <1>2, RestingType DEF HoldersInv, DbTypeOK, Call, At, Exclusive, Shared
<1>4. \A u \in Threads : thread'[u].pc \notin Shared
  BY <1>1, RestingType DEF Shared
<1> QED
  BY <1>2, <1>3, <1>4, NoReaders DEF ToldInv

\* Recovery runs before any thread can call.
LEMMA CallersWait ==
    ASSUME Premises, DbRecover
    PROVE  CallerInv'
<1> USE DEF Premises, CallerInv
<1>1. /\ phase # "ready" /\ phase' # "closed" /\ step' = step
      /\ thread' = thread /\ told' = told
  BY DEF DbRecover, Recover, LoadManifest, SweepDirectory, CreateWal, ReplayWal, SyncRecoveredWal
<1>2. At(Exclusive \cup Shared) = {}
  BY <1>1 DEF HoldersInv, At, Exclusive, Shared, EngineInv, BaseInv, TypeInv
<1>3. HoldersInv'
  BY <1>1, <1>2 DEF HoldersInv, DbTypeOK, At, Exclusive, Shared
<1>4. \A u \in Threads : thread'[u].pc \notin Shared
  BY <1>1, <1>2 DEF At
<1> QED
  BY <1>1, <1>3, <1>4, NoReaders, ToldSurvives DEF ToldInv

LEMMA CallerStep ==
    ASSUME EngineInv, EngineInv', CallerInv, [DbNext]_dbvars
    PROVE  CallerInv'
<1>1. Premises
  BY DbStepIsEngineStep DEF Premises
<1>2. ASSUME NEW t \in Threads, NEW k \in Keys, CallPut(t, k) \/ CallGet(t, k) PROVE CallerInv'
  BY <1>1, <1>2, CallerCalls, CallerGets
<1>3. ASSUME NEW t \in Threads, CallFlush(t) \/ CallCompact(t) \/ EngineFails(t) PROVE CallerInv'
  BY <1>1, <1>3, CallerFlushes, CallerCalls, CallerEnds DEF CallFlush
<1>4. ASSUME NEW t \in Threads, Continue(t) PROVE CallerInv'
  BY <1>1, <1>4, CallerMutates, CallerEnds, CallerReturns, CallerGetsFromMemory,
     CallerGetsFromSegment DEF Continue
<1>5. CASE (\E t \in Threads : CallSync(t)) \/ DbWriteBack \/ UNCHANGED dbvars
  <2>1. /\ thread' = thread /\ told' = told /\ memtable' = memtable /\ segments' = segments
        /\ dir' = dir /\ wal' = wal /\ phase' = phase /\ step' = step
    BY <1>5 DEF CallSync, Sync, DbWriteBack, WriteBack, WriteBackWal, WriteBackDirectory, dbvars,
                vars, engine, disk
  <2> QED
    BY <1>1, <2>1, CallerUndisturbed
<1>6. CASE DbStop \/ DbPowerLoss
  BY <1>1, <1>6, CallersGone
<1>7. CASE DbRecover
  BY <1>1, <1>7, CallersWait
<1> QED
  BY <1>2, <1>3, <1>4, <1>5, <1>6, <1>7 DEF DbNext

LEMMA CallerInit == DbInit => CallerInv
<1> SUFFICES ASSUME DbInit PROVE CallerInv
  OBVIOUS
<1>1. thread = [t \in Threads |-> Resting] /\ told = NoSamples /\ step = "none" /\ Init
  BY DEF DbInit, Init
<1>2. HoldersInv
  BY <1>1, RestingType DEF HoldersInv, DbTypeOK, Call, At, Exclusive, Shared, NoSamples, Samples
<1>3. ReadInv
  BY <1>1, RestingType DEF ReadInv, ReadOK
<1>4. ToldInv
  <2>1. Store!Init
    BY <1>1, StoreInit
  <2> QED
    BY <1>1, <2>1, RestingType
       DEF ToldInv, ToldRecovered, At, Shared, Store!Init, NoSamples, NoSample
<1> QED
  BY <1>2, <1>3, <1>4 DEF CallerInv

LEMMA CallerInvariant == DbSpec => [](EngineInv /\ CallerInv)
<1>1. EngineInv /\ EngineInv' /\ CallerInv /\ [DbNext]_dbvars => CallerInv'
  BY CallerStep
<1>2. DbSpec => Spec
  BY CallersDriveEngine DEF DrivesEngine
<1> QED
  BY <1>1, <1>2, EngineInvariant, CallerInit, PTL DEF DbSpec

\* Linearizability of get for any number of threads: whatever puts, flushes and
\* compactions go on, and wherever the process or the machine stopped before, a
\* get returns the newest value that any caller had been told of, or a newer one.
\* On a file system that may lose a directory entry, as long as no power fails.
THEOREM ReadsAreLinearizable ==
    ASSUME JournaledDirectory \/ ~PowerLossPossible
    PROVE  DbSpec => []ReadsAreCurrent
<1>1. EngineInv /\ CallerInv => ReadsAreCurrent
  <2> SUFFICES ASSUME EngineInv, CallerInv, NEW t \in Threads, thread[t].pc = "got"
               PROVE  thread[t].value >= thread[t].low
    BY DEF ReadsAreCurrent
  <2>1. thread[t].key \in Keys /\ thread[t].low \in Nat /\ told[thread[t].key] \in Nat
    BY BoundsAreNat DEF CallerInv, HoldersInv, DbTypeOK, Samples, Puts, NoSample
  <2>2. Idle
    BY DEF CallerInv, HoldersInv, At, Exclusive, Shared, Idle
  <2>3. thread[t].value = Recovered(wal, dir)[thread[t].key]
    BY <2>1, <2>2, ViewIsRecovered DEF CallerInv, ReadInv, ReadOK, EngineInv, AnswersRecovered
  <2>4. /\ thread[t].low <= told[thread[t].key]
        /\ told[thread[t].key] <= Recovered(wal, dir)[thread[t].key]
    BY <2>1 DEF CallerInv, ToldInv, ToldRecovered, PromisesHold, At, Shared
  <2>5. Recovered(wal, dir)[thread[t].key] \in Nat
    BY <2>1, RecoveredNat DEF EngineInv
  <2> QED
    BY <2>1, <2>3, <2>4, <2>5
<1> QED
  BY <1>1, CallerInvariant, PTL

\* No get meets a segment file that compaction or recovery has removed, on any
\* file system and wherever the machine stopped before.
THEOREM NoReadFails == DbSpec => []ReadsNeverFail
<1>1. EngineInv /\ CallerInv => ReadsNeverFail
  BY DEF CallerInv, ReadInv, ReadOK, ReadsNeverFail, At
<1> QED
  BY <1>1, CallerInvariant, PTL

-----------------------------------------------------------------------------
(* The automatic flush.                                                    *)

\* The engine's operation in progress is the one that its caller asked for.
StageInv ==
    \A t \in Threads :
        /\ thread[t].pc = "put" => step \in {"append", "append_sync"}
        /\ thread[t].pc = "flush" =>
              /\ kind = "flush"
              /\ step \in Preparing \cup {"truncate", "truncate_sync"}
        /\ thread[t].pc = "compact" => kind = "compact" /\ step \in Preparing

\* The stages at which the memtable may be full.
Filling == {"put", "flush"} \cup Between

\* The first start finds no log, and the memtable is full only during a put or
\* the flush that empties it.
ThresholdInv ==
    /\ StageInv
    /\ phase \in {"closed", "loaded", "swept"} => ~dir.wal
    /\ phase # "repaired"
    /\ FlushThreshold # 0 /\ phase = "ready" /\ At(Filling) = {}
          => Cardinality(KeysOf(memtable)) < FlushThreshold

LEMMA EmptyIsBelow ==
    FlushThreshold # 0 => Cardinality(KeysOf(NoSamples)) < FlushThreshold
<1>1. KeysOf(NoSamples) = {}
  BY DEF KeysOf, NoSamples
<1> QED
  BY <1>1, FS_EmptySet, ThresholdIsNat

\* A step that leaves the operation in progress alone, or finds none in progress
\* and starts none.
LEMMA StageKept ==
    ASSUME HoldersInv, StageInv,
           \A u \in Threads : thread'[u].pc \in Exclusive
               => thread[u].pc = thread'[u].pc /\ step' = step /\ kind' = kind
    PROVE  StageInv'
BY DEF StageInv, Exclusive

LEMMA CallerStage ==
    ASSUME EngineInv, CallerInv, StageInv, NEW t \in Threads,
           \/ \E k \in Keys : CallPut(t, k)
           \/ CallCompact(t) \/ EngineStep(t) \/ EngineFails(t)
           \/ FlushFrom(t, "idle") \/ AutoFlush(t)
    PROVE  StageInv'
<1>0. /\ thread \in [Threads -> Call]
      /\ \A u \in At(Exclusive), v \in At(Exclusive) : u = v
  BY DEF CallerInv, HoldersInv, DbTypeOK, Call, At
<1>1. ASSUME NEW k \in Keys, CallPut(t, k) PROVE StageInv'
  <2>1. /\ \A u \in Threads : thread[u].pc \notin Exclusive
        /\ step' = "append"
        /\ thread' = [thread EXCEPT ![t] = [Resting EXCEPT !.pc = "put", !.key = k]]
    BY <1>1 DEF CallPut, PutBegin, CanLock, At
  <2>2. thread'[t].pc = "put" /\ \A u \in Threads : u # t => thread'[u] = thread[u]
    BY <1>0, <2>1 DEF Resting
  <2> QED
    BY <2>1, <2>2 DEF StageInv, Exclusive
<1>2. ASSUME NEW op \in {"flush", "compact"}, CanLock, GoTo(t, op), kind' = op, step' = "segment"
      PROVE  StageInv'
  <2>1. \A u \in Threads : thread[u].pc \notin Exclusive
    BY <1>2 DEF CanLock, At
  <2>2. thread'[t].pc = op /\ \A u \in Threads : u # t => thread'[u] = thread[u]
    BY <1>0, <1>2, ThreadGoes DEF Exclusive
  <2> QED
    BY <1>2, <2>1, <2>2 DEF StageInv, Exclusive, Preparing
<1>3. ASSUME CanLock \/ thread[t].pc \in Exclusive, Return(t) PROVE StageInv'
  <2>1. thread'[t].pc = "idle" /\ \A u \in Threads : u # t => thread'[u] = thread[u]
    BY <1>0, <1>3 DEF Return, Resting
  <2>2. \A u \in Threads : thread'[u].pc \notin Exclusive
    BY <1>0, <1>3, <2>1 DEF CanLock, At, Exclusive
  <2> QED
    BY <2>2 DEF StageInv, Exclusive
<1>4. CASE CallCompact(t)
  BY <1>2, <1>4 DEF CallCompact, CompactBegin, WriteTemporary
<1>5. ASSUME NEW stage, FlushFrom(t, stage) PROVE StageInv'
  BY <1>2, <1>3, <1>5 DEF FlushFrom, FlushBegin, WriteTemporary
<1>6. CASE EngineFails(t)
  BY <1>3, <1>6 DEF EngineFails
<1>7. CASE AutoFlush(t)
  BY <1>3, <1>5, <1>7 DEF AutoFlush
<1>8. CASE EngineStep(t)
  <2>1. thread[t].pc \in Exclusive /\ Mutate
    BY <1>8 DEF EngineStep
  <2>2. CASE step' # "none"
    <3>1. thread' = thread
      BY <1>8, <2>2 DEF EngineStep
    <3>2. \A u \in Threads : thread'[u].pc \in Exclusive => u = t
      BY <1>0, <2>1, <3>1 DEF At
    <3>3. /\ step \in {"append", "append_sync"} => step' = "append_sync"
          /\ step \in Preparing \cup {"truncate", "truncate_sync"} =>
                /\ kind' = kind
                /\ step' \in Preparing \cup {"truncate", "truncate_sync"}
          /\ step \in Preparing /\ kind = "compact" => step' \in Preparing
      BY <2>1, <2>2 DEF Mutate, PutWrite, PutSync, PublishSegment, SyncSegment, PublishManifest,
                        InstallManifest, TruncateWal, ResetWal, EndMutation, Preparing
    <3> QED
      BY <3>1, <3>2, <3>3 DEF StageInv, Exclusive
  <2>3. CASE step' = "none"
    <3>1. Return(t) \/ GoTo(t, "count")
      BY <1>8, <2>3 DEF EngineStep
    <3>2. thread'[t].pc \notin Exclusive /\ \A u \in Threads : u # t => thread'[u] = thread[u]
      <4>1. CASE GoTo(t, "count")
        <5>1. thread'[t].pc = "count" /\ \A u \in Threads : u # t => thread'[u] = thread[u]
          BY <1>0, <4>1, ThreadGoes DEF Between
        <5> QED
          BY <5>1 DEF Exclusive
      <4>2. CASE Return(t)
        BY <1>0, <4>2, RestingType DEF Return, Exclusive
      <4> QED
        BY <3>1, <4>1, <4>2
    <3>3. \A u \in Threads : thread'[u].pc \notin Exclusive
      BY <1>0, <2>1, <3>2 DEF At
    <3> QED
      BY <3>3 DEF StageInv, Exclusive
  <2> QED
    BY <2>2, <2>3
<1> QED
  BY <1>1, <1>4, <1>5, <1>6, <1>7, <1>8

\* What is left of ThresholdInv when an operation's step is looked at.
Below == FlushThreshold # 0 /\ phase = "ready" /\ At(Filling) = {}
            => Cardinality(KeysOf(memtable)) < FlushThreshold

LEMMA BelowKept ==
    ASSUME Below, memtable' = memtable, phase' = phase,
           \A u \in Threads : thread[u].pc \in Filling => thread'[u].pc \in Filling
    PROVE  Below'
BY DEF Below, At, KeysOf

LEMMA BelowFilling ==
    ASSUME NEW t \in Threads, thread'[t].pc \in Filling
    PROVE  Below'
BY DEF Below, At

LEMMA CallerBelow ==
    ASSUME EngineInv, CallerInv, StageInv, Below, NEW t \in Threads, EngineStep(t)
    PROVE  Below'
<1>0. thread \in [Threads -> Call] /\ thread[t].pc \in Exclusive /\ Mutate
  BY DEF CallerInv, HoldersInv, DbTypeOK, Call, EngineStep
<1>1. phase' = phase
  BY <1>0 DEF Mutate, PutWrite, PutSync, PublishSegment, SyncSegment, PublishManifest,
              InstallManifest, TruncateWal, ResetWal
<1>2. CASE step' # "none"
  <2>1. memtable' = memtable
    BY <1>0, <1>2 DEF Mutate, PutWrite, PutSync, PublishSegment, SyncSegment, PublishManifest,
                      InstallManifest, TruncateWal, ResetWal, EndMutation
  <2> QED
    BY <1>1, <1>2, <2>1, BelowKept DEF EngineStep
<1>3. CASE step' = "none" /\ thread[t].pc = "put"
  <2>1. CASE FlushThreshold # 0
    <3>1. GoTo(t, "count")
      BY <1>3, <2>1 DEF EngineStep
    <3>2. thread'[t].pc \in Filling
      BY <1>0, <3>1, ThreadGoes DEF Filling, Between
    <3> QED
      BY <3>2, BelowFilling
  <2> QED
    BY <2>1 DEF Below
<1>4. CASE step' = "none" /\ thread[t].pc = "flush"
  <2>1. memtable' = NoSamples
    BY <1>0, <1>4 DEF StageInv, Preparing, Mutate, PutWrite, PutSync, PublishSegment,
                      SyncSegment, PublishManifest, InstallManifest, TruncateWal, ResetWal
  <2> QED
    BY <2>1, EmptyIsBelow DEF Below
<1>5. CASE step' = "none" /\ thread[t].pc = "compact"
  <2>1. memtable' = memtable
    BY <1>0, <1>5 DEF StageInv, Preparing, Mutate, PutWrite, PutSync, PublishSegment,
                      SyncSegment, PublishManifest, InstallManifest, TruncateWal, ResetWal
  <2>2. \A u \in Threads : u # t => thread'[u] = thread[u]
    BY <1>0, <1>5 DEF EngineStep, Return
  <2>3. \A u \in Threads : thread[u].pc \in Filling => thread'[u].pc \in Filling
    BY <1>5, <2>2 DEF Filling, Between
  <2> QED
    BY <1>1, <2>1, <2>3, BelowKept
<1> QED
  BY <1>0, <1>2, <1>3, <1>4, <1>5 DEF Exclusive

\* A step of a caller that leaves what it found in the memtable alone.
LEMMA CallerBelowElse ==
    ASSUME EngineInv, CallerInv, Below, NEW t \in Threads,
           \/ \E k \in Keys : CallPut(t, k)
           \/ CallCompact(t) \/ EngineFails(t) \/ CallFlush(t) \/ AutoFlush(t) \/ ReadSize(t)
    PROVE  Below'
<1>0. thread \in [Threads -> Call]
  BY DEF CallerInv, HoldersInv, DbTypeOK, Call
<1>1. ASSUME NEW k \in Keys, CallPut(t, k) PROVE Below'
  <2>1. thread'[t].pc = "put"
    BY <1>0, <1>1 DEF CallPut, Resting
  <2> QED
    BY <2>1, BelowFilling DEF Filling
<1>2. CASE CallCompact(t)
  <2>1. memtable' = memtable /\ phase' = phase /\ GoTo(t, "compact") /\ thread[t].pc = "idle"
    BY <1>2 DEF CallCompact, CompactBegin, WriteTemporary
  <2>2. \A u \in Threads : u # t => thread'[u] = thread[u]
    BY <1>0, <2>1 DEF GoTo
  <2>3. \A u \in Threads : thread[u].pc \in Filling => thread'[u].pc \in Filling
    BY <2>1, <2>2 DEF Filling, Between
  <2> QED
    BY <2>1, <2>3, BelowKept
<1>3. ASSUME phase' = "failed" PROVE Below'
  BY <1>3 DEF Below
<1>4. ASSUME NEW stage, FlushFrom(t, stage) PROVE Below'
  <2>1. CASE FlushBegin /\ GoTo(t, "flush")
    <3>1. thread'[t].pc = "flush"
      BY <1>0, <2>1, ThreadGoes DEF Exclusive
    <3> QED
      BY <3>1, BelowFilling DEF Filling
  <2>2. CASE memtable = NoSamples /\ Sync
    <3>1. memtable' = NoSamples
      BY <2>2 DEF Sync, engine
    <3> QED
      BY <3>1, EmptyIsBelow DEF Below
  <2>3. CASE Fail
    BY <1>3, <2>3 DEF Fail
  <2> QED
    BY <1>4, <2>1, <2>2, <2>3 DEF FlushFrom
<1>5. CASE EngineFails(t)
  BY <1>3, <1>5 DEF EngineFails, Fail
<1>6. CASE AutoFlush(t)
  BY <1>3, <1>4, <1>6 DEF AutoFlush, vars, engine
<1>7. CASE ReadSize(t)
  <2>1. memtable' = memtable /\ phase' = phase
    BY <1>7 DEF ReadSize, vars, engine
  <2>2. CASE phase = "ready" /\ Cardinality(KeysOf(memtable)) >= FlushThreshold
    <3>1. GoTo(t, "autoflush")
      BY <1>7, <2>2 DEF ReadSize
    <3>2. thread'[t].pc = "autoflush"
      BY <1>0, <3>1, ThreadGoes DEF Between
    <3> QED
      BY <3>2, BelowFilling DEF Filling, Between
  <2>3. CASE phase = "ready" /\ ~(Cardinality(KeysOf(memtable)) >= FlushThreshold)
    <3>1. Cardinality(KeysOf(memtable)) \in Nat
      BY CardinalityOfKeys DEF KeysOf
    <3>2. Cardinality(KeysOf(memtable)) < FlushThreshold
      BY <2>3, <3>1, ThresholdIsNat
    <3> QED
      BY <2>1, <3>2 DEF Below
  <2>4. CASE phase # "ready"
    BY <2>1, <2>4 DEF Below
  <2> QED
    BY <2>2, <2>3, <2>4
<1> QED
  BY <1>1, <1>2, <1>4, <1>5, <1>6, <1>7 DEF CallFlush

\* Recovery of an engine that has no log leaves the memtable empty.
LEMMA FirstStart ==
    ASSUME EngineInv, CallerInv, ThresholdInv, DbRecover
    PROVE  ThresholdInv'
<1>1. /\ Recover /\ thread' = thread /\ step' = step /\ kind' = kind
  BY DEF DbRecover, Recover, LoadManifest, SweepDirectory, CreateWal, ReplayWal,
         SyncRecoveredWal
<1>2. StageInv'
  BY <1>1 DEF ThresholdInv, StageInv
<1>3. ~ReplayWal
  BY DEF ThresholdInv, ReplayWal
<1>4. CASE LoadManifest \/ SweepDirectory \/ CreateWal
  <2>1. /\ phase' \in {"loaded", "swept", "created", "refused"}
        /\ phase' \in {"loaded", "swept"} => dir'.wal = dir.wal /\ phase \in {"closed", "loaded"}
    <3>1. CASE LoadManifest
      BY <3>1 DEF LoadManifest, disk
    <3>2. CASE SweepDirectory
      <4>1. dir \in Directory
        BY DEF EngineInv, BaseInv, TypeInv, TypeOK
      <4>2. PICK gone \in SUBSET Orphans(dir), temps \in SUBSET dir.temps :
                dir' = [RemoveFiles(dir, gone) EXCEPT !.temps = temps]
        BY <3>2 DEF SweepDirectory
      <4>3. dir'.wal = dir.wal
        BY <4>1, <4>2 DEF RemoveFiles, Directory
      <4> QED
        BY <3>2, <4>3 DEF SweepDirectory
    <3>3. CASE CreateWal
      BY <3>3 DEF CreateWal
    <3> QED
      BY <1>4, <3>1, <3>2, <3>3
  <2> QED
    BY <1>2, <2>1 DEF ThresholdInv
<1>5. CASE SyncRecoveredWal
  <2>1. phase' = "ready" /\ memtable' = NoSamples
    BY <1>5 DEF SyncRecoveredWal, ThresholdInv, EngineInv, BaseInv, MemoryInv
  <2> QED
    BY <1>2, <2>1, EmptyIsBelow DEF ThresholdInv
<1> QED
  BY <1>1, <1>3, <1>4, <1>5 DEF Recover

\* A step that closes nothing leaves the start alone.
LEMMA StartKept ==
    ASSUME phase \in Phases, phase' \in {"ready", "failed"} \/ (phase' = phase /\ dir' = dir),
           phase \in {"closed", "loaded", "swept"} => ~dir.wal, phase # "repaired"
    PROVE  /\ phase' \in {"closed", "loaded", "swept"} => ~dir'.wal
           /\ phase' # "repaired"
OBVIOUS

LEMMA ThresholdStep ==
    ASSUME ~StopPossible, ~PowerLossPossible, EngineInv, CallerInv, ThresholdInv, [DbNext]_dbvars
    PROVE  ThresholdInv'
<1>0. /\ StageInv /\ Below /\ phase \in Phases
      /\ phase \in {"closed", "loaded", "swept"} => ~dir.wal
      /\ phase # "repaired"
      /\ thread \in [Threads -> Call]
  BY DEF ThresholdInv, Below, EngineInv, BaseInv, TypeInv, TypeOK, CallerInv, HoldersInv,
         DbTypeOK, Call
<1>1. ASSUME StageInv', Below', phase' \in {"ready", "failed"} \/ (phase' = phase /\ dir' = dir)
      PROVE  ThresholdInv'
  BY <1>0, <1>1, StartKept DEF ThresholdInv, Below
<1>2. ASSUME NEW t \in Threads,
             \/ \E k \in Keys : CallPut(t, k)
             \/ CallFlush(t) \/ CallCompact(t) \/ EngineFails(t) \/ EngineStep(t) \/ AutoFlush(t)
      PROVE  ThresholdInv'
  <2>1. StageInv'
    BY <1>0, <1>2, CallerStage DEF CallFlush
  <2>2. Below'
    BY <1>0, <1>2, CallerBelow, CallerBelowElse
  <2>3. phase' \in {"ready", "failed"}
    <3>1. CASE EngineStep(t)
      BY <3>1 DEF EngineStep, Mutate, PutWrite, PutSync, PublishSegment, SyncSegment,
                  PublishManifest, InstallManifest, TruncateWal, ResetWal
    <3>2. ASSUME NEW stage, FlushFrom(t, stage) PROVE phase' \in {"ready", "failed"}
      BY <3>2 DEF FlushFrom, FlushBegin, WriteTemporary, Sync, Fail, Idle, engine
    <3>3. CASE AutoFlush(t)
      BY <3>2, <3>3 DEF AutoFlush, vars, engine
    <3> QED
      BY <1>2, <3>1, <3>2, <3>3 DEF CallPut, PutBegin, CallFlush, CallCompact, CompactBegin,
                                    WriteTemporary, EngineFails, Fail, Idle
  <2> QED
    BY <1>1, <2>1, <2>2, <2>3
<1>3. ASSUME phase' = phase, dir' = dir, memtable' = memtable, step' = step, kind' = kind,
             \A u \in Threads : thread'[u].pc \in Exclusive => thread'[u].pc = thread[u].pc,
             Below'
      PROVE  ThresholdInv'
  BY <1>0, <1>1, <1>3, StageKept DEF CallerInv
<1>4. ASSUME phase' = phase, dir' = dir, memtable' = memtable, step' = step, kind' = kind,
             \A u \in Threads : thread'[u] = thread[u]
      PROVE  ThresholdInv'
  <2>1. Below'
    BY <1>0, <1>4, BelowKept
  <2> QED
    BY <1>3, <1>4, <2>1
<1>5. ASSUME NEW t \in Threads,
             \/ \E k \in Keys : CallGet(t, k)
             \/ GetFromMemory(t) \/ GetFromSegment(t) \/ ReturnGet(t)
      PROVE  ThresholdInv'
  <2>1. phase' = phase /\ dir' = dir /\ memtable' = memtable /\ step' = step /\ kind' = kind
    BY <1>5 DEF CallGet, GetFromMemory, GetFromSegment, ReturnGet, vars, engine, disk
  <2>2. /\ thread[t].pc \notin Filling
        /\ thread'[t].pc \notin Exclusive
        /\ \A u \in Threads : u # t => thread'[u] = thread[u]
    <3>0. thread[t] \in Call
      BY <1>0
    <3>1. ASSUME NEW k \in Keys, CallGet(t, k)
          PROVE  thread[t].pc = "idle" /\ thread'[t].pc = "get_memory"
      BY <1>0, <3>1 DEF CallGet, Resting
    <3>2. ASSUME GetFromMemory(t)
          PROVE  thread[t].pc = "get_memory" /\ thread'[t].pc \in {"got", "get_segments"}
      BY <1>0, <3>0, <3>2 DEF GetFromMemory, Call
    <3>3. ASSUME GetFromSegment(t)
          PROVE  thread[t].pc = "get_segments"
                 /\ thread'[t].pc \in {"get_segments", "got", "get_failed"}
      <4>1. thread[t].pc = "get_segments"
        BY <3>3 DEF GetFromSegment
      <4>2. CASE GoTo(t, "got")
        BY <1>0, <4>1, <4>2, ThreadGoes DEF Shared
      <4>3. CASE GoTo(t, "get_failed")
        BY <1>0, <4>1, <4>3, ThreadGoes DEF Shared
      <4>4. ASSUME NEW hit, NEW v, NEW rest,
                   thread' = [thread EXCEPT ![t].pc = IF hit THEN "got" ELSE @,
                                            ![t].value = v, ![t].left = rest]
            PROVE  thread'[t].pc \in {"got", "get_segments"}
        BY <1>0, <3>0, <4>1, <4>4 DEF Call
      <4> DEFINE left == thread[t].left
                 file == dir.segs[left[Len(left)]]
      <4>5. \/ GoTo(t, "got")
            \/ GoTo(t, "get_failed")
            \/ thread' = [thread EXCEPT
                    ![t].pc    = IF file[thread[t].key] # NoSample THEN "got" ELSE @,
                    ![t].value = file[thread[t].key],
                    ![t].left  = SubSeq(left, 1, Len(left) - 1)]
        BY <3>3, Zenon DEF GetFromSegment
      <4> HIDE DEF left, file
      <4> QED
        BY <4>1, <4>2, <4>3, <4>4, <4>5
    <3>4. ASSUME ReturnGet(t)
          PROVE  thread[t].pc \in {"got", "get_failed"} /\ thread'[t].pc = "idle"
      BY <1>0, <3>4, RestingType DEF ReturnGet, Return
    <3>5. \A u \in Threads : u # t => thread'[u] = thread[u]
      BY <1>0, <1>5 DEF CallGet, GetFromMemory, GetFromSegment, ReturnGet, Return, GoTo
    <3> QED
      BY <1>5, <3>1, <3>2, <3>3, <3>4, <3>5 DEF Filling, Between, Exclusive
  <2>3. Below'
    BY <1>0, <2>1, <2>2, BelowKept
  <2> QED
    BY <1>3, <2>1, <2>2, <2>3
<1>6. ASSUME NEW t \in Threads, ReadSize(t) PROVE ThresholdInv'
  <2>1. phase' = phase /\ dir' = dir /\ memtable' = memtable /\ step' = step /\ kind' = kind
    BY <1>6 DEF ReadSize, vars, engine, disk
  <2>2. Below'
    BY <1>0, <1>6, CallerBelowElse
  <2>3. /\ thread'[t].pc \in {"idle", "autoflush"}
        /\ \A u \in Threads : u # t => thread'[u] = thread[u]
    <3>1. CASE Return(t)
      BY <1>0, <3>1, RestingType DEF Return
    <3>2. CASE GoTo(t, "autoflush")
      BY <1>0, <3>2, ThreadGoes DEF Between
    <3> QED
      BY <1>6, <3>1, <3>2 DEF ReadSize
  <2> QED
    BY <1>3, <2>1, <2>2, <2>3 DEF Exclusive
<1>7. CASE (\E t \in Threads : CallSync(t)) \/ UNCHANGED dbvars
  BY <1>4, <1>7 DEF CallSync, Sync, dbvars, vars, engine, disk
<1>8. CASE DbRecover
  BY <1>8, FirstStart
<1>9. ~DbStop /\ ~DbPowerLoss /\ ~DbWriteBack
  BY DEF DbStop, DbPowerLoss, PowerLoss, DbWriteBack, WriteBack, WriteBackWal, WriteBackDirectory
<1> QED
  BY <1>2, <1>5, <1>6, <1>7, <1>8, <1>9 DEF DbNext, Continue

\* The automatic flush is not lost, for any number of threads and any threshold:
\* whenever no put is under way, the memtable holds fewer samples than the
\* threshold, although a put looks at the size and flushes in two further
\* critical sections, between which others put, flush and compact.  An engine that
\* is opened again may start above the threshold: recovery does not flush.
THEOREM AutomaticFlushIsNotLost ==
    ASSUME ~StopPossible, ~PowerLossPossible
    PROVE  DbSpec => []BelowThresholdAtRest
<1>1. DbInit => ThresholdInv
  <2> SUFFICES ASSUME DbInit PROVE ThresholdInv
    OBVIOUS
  <2>1. /\ phase = "closed" /\ dir = EmptyDirectory
        /\ \A t \in Threads : thread[t].pc = "idle"
    BY RestingType DEF DbInit, Init
  <2> QED
    BY <2>1 DEF ThresholdInv, StageInv, EmptyDirectory
<1>2. EngineInv /\ CallerInv /\ ThresholdInv /\ [DbNext]_dbvars => ThresholdInv'
  BY ThresholdStep
<1>3. CallerInv /\ ThresholdInv => BelowThresholdAtRest
  <2> SUFFICES ASSUME CallerInv, ThresholdInv, Idle, FlushThreshold # 0,
                      At({"put"} \cup Between) = {}
               PROVE  Cardinality(KeysOf(memtable)) < FlushThreshold
    BY DEF BelowThresholdAtRest
  <2>1. At(Exclusive) = {}
    BY DEF CallerInv, HoldersInv, Idle
  <2>2. At(Filling) = {}
    BY <2>1 DEF At, Exclusive, Filling
  <2> QED
    BY <2>2 DEF ThresholdInv, Idle
<1> QED
  BY <1>1, <1>2, <1>3, CallerInvariant, PTL DEF DbSpec

=============================================================================
