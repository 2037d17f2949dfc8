--------------------------- MODULE OwnershipProofs ---------------------------
(***************************************************************************)
(* Proofs about DatabaseOwnership, for any number of processes, Database    *)
(* variables and Impls, and about ChronoView, for any series and texts: the *)
(* programs that share a directory keep to that module, and the lock is why *)
(* the panel of ChronoView stays current.                                   *)
(***************************************************************************)
EXTENDS ChronoView, ListLemmas

\* The lock has at most one holder, and an Impl holds it as long as it has an
\* engine or is releasing it.
LockInv ==
    /\ TypeOK
    /\ \A i, j \in flock : i = j
    /\ \A i \in Impls : stage[i] \in HasEngine \cup {"unlocking"} => i \in flock

\* Each variable owns nothing or one Impl that is up, in its own process.
OwnerInv ==
    /\ \A h \in Handles : \A i \in impl[h] : maker[i] = process[h]
    /\ \A h \in Handles : \A i \in impl[h] : impl[h] = {i} /\ stage[i] = "ready"
    /\ \A i \in Impls : stage[i] = "ready" => \E h \in Handles : i \in impl[h]
    /\ \A h, g \in Handles : \A i \in impl[h] : i \in impl[g] => h = g

Inv == LockInv /\ OwnerInv

\* Every step of construction, destruction, moving and dying keeps the lock with
\* the one Impl that has an engine, and that Impl with one variable.
LEMMA Inductive == Inv /\ [Next]_vars => Inv'
<1> SUFFICES ASSUME Inv, [Next]_vars PROVE Inv'
  OBVIOUS
<1> USE HandlesHaveProcesses DEF Inv, LockInv, OwnerInv, TypeOK, Stages, HasEngine
<1>1. ASSUME NEW p \in Processes, NEW i \in Impls, OpenLockFile(p, i) PROVE Inv'
  BY <1>1 DEF OpenLockFile
<1>2. ASSUME NEW i \in Impls, LockDirectory(i) PROVE Inv'
  BY <1>2 DEF LockDirectory
<1>3. ASSUME NEW h \in Handles, NEW i \in Impls, FinishOpening(h, i) PROVE Inv'
  <2>1. LockInv'
    BY <1>3 DEF FinishOpening
  <2>2. \A g \in Handles : i \notin impl[g]
    BY <1>3 DEF FinishOpening
  <2>3. OwnerInv'
    BY <1>3, <2>2 DEF FinishOpening
  <2> QED
    BY <2>1, <2>3
<1>4. ASSUME NEW i \in Impls, FailOpening(i) PROVE Inv'
  BY <1>4 DEF FailOpening
<1>5. ASSUME NEW h \in Handles, Destroy(h) PROVE Inv'
  BY <1>5 DEF Destroy, Closing
<1>6. ASSUME NEW h \in Handles, NEW g \in Handles, MoveTo(h, g) PROVE Inv'
  <2>1. LockInv'
    BY <1>6 DEF MoveTo, Closing
  <2>2. OwnerInv'
    BY <1>6 DEF MoveTo, Closing
  <2> QED
    BY <2>1, <2>2
<1>7. ASSUME NEW i \in Impls, CloseEngine(i) PROVE Inv'
  BY <1>7 DEF CloseEngine
<1>8. ASSUME NEW i \in Impls, Unlock(i) PROVE Inv'
  BY <1>8 DEF Unlock
<1>9. ASSUME NEW p \in Processes, Exit(p) PROVE Inv'
  BY <1>9 DEF Exit
<1>10. CASE UNCHANGED vars
  BY <1>10 DEF vars
<1> QED
  BY <1>1, <1>2, <1>3, <1>4, <1>5, <1>6, <1>7, <1>8, <1>9, <1>10 DEF Next, Advance

\* The invariant holds of every behaviour.
LEMMA InvHolds == Spec => []Inv
<1>1. Init => Inv
  BY DEF Init, Inv, LockInv, OwnerInv, TypeOK, Stages, HasEngine
<1> QED
  BY <1>1, Inductive, PTL DEF Spec

\* Two engines never exist on one directory, recovery and destruction included.
THEOREM OnlyOneEngine == Spec => []OneEngine
<1>1. Inv => OneEngine
  BY DEF Inv, LockInv, OneEngine, HasEngine
<1> QED
  BY <1>1, InvHolds, PTL

\* Every Impl that is up is owned by exactly one Database variable.
THEOREM EveryImplOwnedOnce == Spec => []OwnedOnce
<1>1. Inv => OwnedOnce
  <2> SUFFICES ASSUME Inv PROVE OwnedOnce
    OBVIOUS
  <2> USE DEF Inv, LockInv, OwnerInv, TypeOK
  <2>1. \A i \in Impls : stage[i] = "ready" <=> \E h \in Handles : impl[h] = {i}
    OBVIOUS
  <2>2. \A h, g \in Handles : impl[h] # {} /\ impl[h] = impl[g] => h = g
    OBVIOUS
  <2> QED
    BY <2>1, <2>2 DEF OwnedOnce
<1> QED
  BY <1>1, InvHolds, PTL

-----------------------------------------------------------------------------
(* The programs that use a directory.                                      *)

\* The steps of ChronoView that build and destroy its own Database.
GuiLifetime(i) ==
    \/ OpenLockFile(Gui, i)
    \/ LockDirectory(i)
    \/ FailOpening(i)
    \/ FinishOpening(database_, i)
    \/ Destroy(database_)
    \/ Exit(Gui)
    \/ CloseEngine(i)
    \/ Unlock(i)

LEMMA GuiLifetimeIsNext == \A i \in Impls : GuiLifetime(i) => Next
BY GuiHasOneHandle DEF GuiLifetime, Next, Advance

\* Every step of every program is a step of the Database objects, or none.
LEMMA ViewStepIsOwnershipStep == [ViewNext]_viewvars => [Next]_vars
<1> SUFFICES ASSUME [ViewNext]_viewvars PROVE [Next]_vars
  OBVIOUS
<1> USE GuiHasOneHandle
<1>1. ASSUME NEW i \in Impls, Open(i) \/ OpenLocks(i) \/ OpenThrows(i) \/ OpenFinishes(i) \/ Destroys(i)
      PROVE  Next
  BY <1>1, GuiLifetimeIsNext DEF Open, OpenLocks, OpenThrows, OpenFinishes, Destroys, Lifetime,
                                 GuiLifetime
<1>2. ASSUME NEW i \in Impls, OtherAdvances(i) PROVE Next
  BY <1>2 DEF OtherAdvances, Lifetime, Next, Advance, Others
<1>3. CASE OtherLifetime
  BY <1>3 DEF OtherLifetime, Lifetime, Next, Others
<1>4. ASSUME Ends PROVE [Next]_vars
  BY <1>4 DEF Ends, Lifetime, Next
<1>5. CASE Close \/ Quit \/ Killed \/ Start
  BY <1>4, <1>5 DEF Close, Quit, Killed, Start, Lifetime, Next
<1>6. ASSUME NEW n \in DOMAIN known_series, Select(n) \/ SelectThrows(n) PROVE [Next]_vars
  BY <1>4, <1>6 DEF Select, SelectThrows
<1>7. CASE EditText \/ refresh_metadata \/ put_sample \/ query \/ generate_demo \/ maintain
  BY <1>7 DEF EditText, refresh_metadata, put_sample, query, generate_demo, maintain, Operating
<1>8. CASE \/ \E h \in Others : run_maintenance(h) \/ \E s \in DOMAIN Series : run_put(h, s)
           \/ DamageBlock
  BY <1>8 DEF run_maintenance, run_put, DamageBlock
<1>9. CASE UNCHANGED viewvars
  BY <1>9 DEF viewvars
<1> QED
  BY <1>1, <1>2, <1>3, <1>5, <1>6, <1>7, <1>8, <1>9 DEF ViewNext, ViewAdvance

\* ChronoView and the other programs use Database objects only as
\* DatabaseOwnership says, so its theorems hold of them.
THEOREM ProgramsKeepToOwnership == ViewSpec => Spec
<1>1. ViewInit => Init
  BY DEF ViewInit
<1> QED
  BY <1>1, ViewStepIsOwnershipStep, PTL DEF ViewSpec, Spec

-----------------------------------------------------------------------------
(* What a call of the engine may do to the stored keys.                    *)

\* A damaged block is a block of a segment.
Sound(d) ==
    /\ d = [flushed |-> d.flushed, unflushed |-> d.unflushed, bad |-> d.bad]
    /\ d.bad \subseteq d.flushed

\* The series that a set of keys belongs to.
Held(d) == {key[1] : key \in Stored(d)}

LEMMA FlushOutcome ==
    ASSUME NEW d, Sound(d), NEW o \in Flush(d)
    PROVE  /\ Sound(o.db) /\ o.db.bad = d.bad /\ Stored(o.db) = Stored(d)
           /\ o.ok \/ o.fails
<1> DEFINE done == [flushed |-> Stored(d), unflushed |-> {}, bad |-> d.bad]
<1>1. o \in {Returns(done), Fails(d), Fails(done)}
  BY DEF Flush
<1>2. Sound(done) /\ done.bad = d.bad /\ Stored(done) = Stored(d)
  BY DEF Sound, Stored
<1> HIDE DEF done
<1>3. o.db \in {d, done} /\ (o.ok \/ o.fails)
  BY <1>1 DEF Returns, Fails
<1> QED
  BY <1>2, <1>3

LEMMA MaintainOutcome ==
    ASSUME NEW d, Sound(d), NEW o \in Maintain(d)
    PROVE  /\ Sound(o.db) /\ o.db.bad = d.bad /\ Stored(o.db) = Stored(d)
           /\ o.ok \/ o.fails
<1>1. CASE o \in Flush(d)
  BY <1>1, FlushOutcome
<1>2. CASE o \in {Returns(d), Fails(d)}
  BY <1>2 DEF Returns, Fails
<1> QED
  BY <1>1, <1>2 DEF Maintain

\* A put that throws without failing the engine has met a damaged block of its own
\* key and written nothing.
LEMMA PutOutcome ==
    ASSUME NEW d, Sound(d), NEW key, NEW o \in Put(d, key)
    PROVE  /\ Sound(o.db) /\ o.db.bad = d.bad
           /\ Stored(d) \subseteq Stored(o.db) /\ Stored(o.db) \subseteq Stored(d) \cup {key}
           /\ \/ o.ok \/ o.fails
              \/ o.db = d /\ key \in d.bad
<1> DEFINE done == [d EXCEPT !.unflushed = @ \cup {key}]
<1>1. done = [flushed |-> d.flushed, unflushed |-> d.unflushed \cup {key}, bad |-> d.bad]
  BY DEF Sound
<1>2. Sound(done) /\ done.bad = d.bad /\ Stored(done) = Stored(d) \cup {key}
  BY <1>1 DEF Sound, Stored
<1>3. \/ key \in d.bad /\ o = Throws(d)
      \/ o \in {Fails(d), Fails(done)} \cup Flush(done)
      \/ o = Returns(done)
  BY DEF Put
<1> HIDE DEF done
<1>4. CASE o \in Flush(done)
  BY <1>2, <1>4, FlushOutcome
<1>5. CASE key \in d.bad /\ o = Throws(d)
  BY <1>5 DEF Throws
<1>6. CASE o \in {Fails(d), Fails(done), Returns(done)}
  BY <1>2, <1>6 DEF Fails, Returns
<1> QED
  BY <1>3, <1>4, <1>5, <1>6

\* The two rounds of the loop of generate_demo, one after the other.
LEMMA DemoRounds ==
    DemoPuts = Then(DemoPut(DemoPut({Returns(db)}, 1), 2), Flush)
<1> DEFINE first  == {Returns(db)}
           second == DemoPut(first, 1)
           third  == DemoPut(second, 2)
           puts[n \in 0..demo_sample_count] ==
               IF n = 0 THEN {Returns(db)} ELSE DemoPut(puts[n - 1], n)
           rounds == [n \in 0..2 |-> IF n = 0 THEN first ELSE IF n = 1 THEN second ELSE third]
<1>1. rounds = [n \in 0..2 |-> IF n = 0 THEN {Returns(db)} ELSE DemoPut(rounds[n - 1], n)]
  <2> SUFFICES ASSUME NEW n \in 0..2
               PROVE  rounds[n] = IF n = 0 THEN {Returns(db)} ELSE DemoPut(rounds[n - 1], n)
    BY Zenon
  <2>1. n = 0 \/ n = 1 \/ n = 2
    OBVIOUS
  <2>2. rounds[0] = first /\ rounds[1] = second /\ rounds[2] = third
    OBVIOUS
  <2>3. 1 - 1 = 0 /\ 2 - 1 = 1 /\ 1 # 0 /\ 2 # 0
    OBVIOUS
  <2> HIDE DEF rounds
  <2> QED
    BY <2>1, <2>2, <2>3, Zenon
<1>2. puts = [n \in 0..2 |-> IF n = 0 THEN {Returns(db)} ELSE DemoPut(puts[n - 1], n)]
  BY <1>1 DEF demo_sample_count
<1>3. puts[0] = first /\ puts[1] = DemoPut(puts[0], 1) /\ puts[2] = DemoPut(puts[1], 2)
  <2> HIDE DEF puts
  <2>1. \A n \in 0..2 : puts[n] = IF n = 0 THEN {Returns(db)} ELSE DemoPut(puts[n - 1], n)
    BY <1>2, Zenon
  <2> QED
    BY <2>1
<1>4. puts[demo_sample_count] = third
  BY <1>3 DEF demo_sample_count
<1> QED
  BY <1>4 DEF DemoPuts

\* What the demo has stored after some of its puts: nothing of another series; and
\* if it was cut short by a damaged block, nothing of a new series.
DemoSound(o) ==
    /\ Sound(o.db) /\ o.db.bad = db.bad
    /\ Stored(db) \subseteq Stored(o.db)
    /\ \A key \in Stored(o.db) : key \in Stored(db) \/ key[1] = Demo
    /\ \/ o.ok \/ o.fails
       \/ Held(o.db) = Held(db)

LEMMA DemoPutOutcome ==
    ASSUME Sound(db), NEW outcomes, \A o \in outcomes : DemoSound(o), NEW n,
           NEW o \in DemoPut(outcomes, n)
    PROVE  DemoSound(o)
<1>1. PICK q \in outcomes : o \in (IF q.ok THEN Put(q.db, <<Demo, n>>) ELSE {q})
  BY DEF DemoPut, Then
<1>2. CASE ~q.ok
  BY <1>1, <1>2
<1>3. CASE q.ok
  <2> DEFINE key == <<Demo, n>>
  <2>0. key[1] = Demo
    OBVIOUS
  <2> HIDE DEF key
  <2>1. o \in Put(q.db, key) /\ DemoSound(q)
    BY <1>1, <1>3 DEF key
  <2>2. /\ Sound(o.db) /\ o.db.bad = q.db.bad
        /\ Stored(q.db) \subseteq Stored(o.db) /\ Stored(o.db) \subseteq Stored(q.db) \cup {key}
        /\ \/ o.ok \/ o.fails
           \/ o.db = q.db /\ key \in q.db.bad
    BY <2>1, PutOutcome DEF DemoSound
  <2>3. /\ o.db.bad = db.bad /\ Stored(db) \subseteq Stored(o.db)
        /\ \A other \in Stored(o.db) : other \in Stored(db) \/ other[1] = Demo
    BY <2>0, <2>1, <2>2 DEF DemoSound
  <2>4. ASSUME key \in q.db.bad PROVE Held(o.db) = Held(db)
    <3>1. key \in Stored(db)
      BY <2>1, <2>4 DEF DemoSound, Sound, Stored
    <3> QED
      BY <2>0, <2>3, <3>1 DEF Held
  <2> QED
    BY <2>2, <2>3, <2>4 DEF DemoSound
<1> QED
  BY <1>2, <1>3

LEMMA DemoOutcome ==
    ASSUME Sound(db), NEW o \in DemoPuts
    PROVE  DemoSound(o)
<1> DEFINE first == {Returns(db)}
           second == DemoPut(first, 1)
           third == DemoPut(second, 2)
<1>1. \A q \in first : DemoSound(q)
  BY DEF DemoSound, Returns
<1> HIDE DEF first
<1>2. \A q \in second : DemoSound(q)
  BY <1>1, DemoPutOutcome
<1> HIDE DEF second
<1>3. \A q \in third : DemoSound(q)
  BY <1>2, DemoPutOutcome
<1>4. o \in Then(third, Flush)
  BY DemoRounds DEF first, second
<1> HIDE DEF third
<1>5. PICK q \in third : o \in (IF q.ok THEN Flush(q.db) ELSE {q})
  BY <1>4 DEF Then
<1>6. CASE q.ok
  BY <1>3, <1>5, <1>6, FlushOutcome DEF DemoSound
<1>7. CASE ~q.ok
  BY <1>3, <1>5, <1>7
<1> QED
  BY <1>6, <1>7

-----------------------------------------------------------------------------
(* The panel of ChronoView.                                                *)

\* The list of series is current even after an operation that threw, unless it
\* failed the engine: that is why refreshing it does not move the selection.
SeriesAreCurrent ==
    Connected /\ impl[database_] \cap failed = {} => known_series = series_of(db)

ViewInv ==
    /\ Sound(db)
    /\ cut_short \in BOOLEAN
    /\ ~Connected => known_series = <<>> /\ selected_series = 0
    /\ SeriesAreCurrent
    /\ MetadataIsCurrent
    /\ SelectionIsStable

shown == <<known_series, selected_series, stats, chosen, cut_short>>

LEMMA SameSeries ==
    ASSUME NEW d, NEW e, Held(d) = Held(e)
    PROVE  series_of(d) = series_of(e)
BY DEF series_of, Held

LEMMA EngineIs ==
    ASSUME Inv, Connected
    PROVE  impl[database_] = {Engine}
<1>1. PICK i \in impl[database_] : impl[database_] = {i} /\ i \in Impls
  BY GuiHasOneHandle DEF Connected, Inv, LockInv, OwnerInv, TypeOK
<1> QED
  BY <1>1 DEF Engine

\* Steps of the life of Database objects that leave ChronoView's own alone.
LEMMA ViewLifetime ==
    ASSUME Inv', ViewInv, UNCHANGED <<db, shown>>, impl'[database_] = impl[database_],
           failed' = {i \in failed : stage'[i] \in HasEngine}
    PROVE  ViewInv'
<1>1. impl'[database_] \cap failed' = {} => impl[database_] \cap failed = {}
  BY GuiHasOneHandle DEF Inv, OwnerInv, HasEngine
<1> QED
  BY <1>1 DEF ViewInv, shown, SeriesAreCurrent, Connected, MetadataIsCurrent, SelectionIsStable,
              series_of, stats_of, Stored, Sound

\* Steps of ChronoView and the medium that leave the objects alone.
LEMMA ViewUnchanged ==
    ASSUME ViewInv, UNCHANGED <<vars, db, failed, shown>>
    PROVE  ViewInv'
BY DEF ViewInv, vars, shown, SeriesAreCurrent, Connected, MetadataIsCurrent, SelectionIsStable,
       series_of, stats_of, Stored, Sound

LEMMA ViewDisconnects ==
    ASSUME ViewInv, db' = db, impl'[database_] = {}, NoMetadata
    PROVE  ViewInv'
BY DEF ViewInv, NoMetadata, SeriesAreCurrent, Connected, MetadataIsCurrent, SelectionIsStable,
       Stored, Sound

\* While ChronoView has the database open, no other program's Database is.
LEMMA OthersHaveNone ==
    ASSUME Inv, Connected, NEW h \in Others
    PROVE  impl[h] = {}
<1> SUFFICES ASSUME NEW i \in impl[h] PROVE FALSE
  OBVIOUS
<1>1. PICK j \in impl[database_] : TRUE
  BY DEF Connected
<1>2. i \in Impls /\ j \in Impls /\ stage[i] = "ready" /\ stage[j] = "ready"
  BY <1>1, GuiHasOneHandle DEF Inv, LockInv, OwnerInv, TypeOK, Others
<1>3. i = j
  BY <1>2 DEF Inv, LockInv, HasEngine
<1> QED
  BY <1>1, <1>3, GuiHasOneHandle DEF Inv, OwnerInv, Others

\* Steps of another program on its open database, which is never ChronoView's.
LEMMA ViewOthers ==
    ASSUME Inv, ViewInv, NEW h \in Others, impl[h] # {}, Sound(db'), UNCHANGED <<vars, gui>>
    PROVE  ViewInv'
<1>1. ~Connected /\ ~Connected'
  BY OthersHaveNone DEF Connected, vars
<1> QED
  BY <1>1 DEF ViewInv, SeriesAreCurrent, MetadataIsCurrent, SelectionIsStable, gui, metadata,
              editor, Sound, Stored

\* A refresh reads the series that were shown before, so the index stays right.
LEMMA ViewRefreshes ==
    ASSUME Inv, ViewInv, Connected, UNCHANGED vars, Engine \notin failed,
           Sound(db'), Held(db') = Held(db),
           RefreshFrom(db'), selected_series' = KeptIndex, chosen' = chosen
    PROVE  ViewInv'
<1>1. Connected' /\ known_series = series_of(db)
  BY EngineIs DEF ViewInv, SeriesAreCurrent, Connected, vars
<1>2. known_series' = series_of(db') /\ stats' = stats_of(db')
  BY DEF RefreshFrom
<1>3. series_of(db') = series_of(db)
  BY SameSeries
<1>4. (known_series = series_of(db) /\ stats = stats_of(db))'
  BY <1>2 DEF series_of, stats_of, Stored
<1>5. SelectionIsStable'
  BY <1>1, <1>2, <1>3 DEF ViewInv, SelectionIsStable, KeptIndex
<1> QED
  BY <1>1, <1>4, <1>5 DEF ViewInv, SeriesAreCurrent, MetadataIsCurrent, Sound, RefreshFrom

\* The index that select_known_series finds is that of the series.
LEMMA SelectedIndex ==
    ASSUME NEW s, select_known_series(s), selected_series' # 0
    PROVE  known_series'[selected_series'] = s
<1> DEFINE hits == {i \in 1..Len(known_series') : known_series'[i] = s}
<1>1. selected_series' = IF hits # {} THEN Min(hits) ELSE 0
  BY DEF select_known_series, SelectInSeq
<1>2. hits # {}
  BY <1>1
<1>3. hits \in SUBSET Nat
  OBVIOUS
<1> HIDE DEF hits
<1>4. Min(hits) \in hits
  BY <1>2, <1>3, LeastIsMin
<1>5. known_series'[Min(hits)] = s
  BY <1>4 DEF hits
<1> QED
  BY <1>1, <1>2, <1>5

\* A put selects the series it wrote, wherever that is among the others.
LEMMA ViewSelects ==
    ASSUME Inv, ViewInv, Connected, UNCHANGED vars, Sound(db'), NEW s,
           RefreshFrom(db'), select_known_series(s)
    PROVE  ViewInv'
<1>1. Connected'
  BY DEF Connected, vars
<1>2. (known_series = series_of(db) /\ stats = stats_of(db))'
  BY DEF RefreshFrom, series_of, stats_of, Stored
<1>3. selected_series' # 0 => known_series'[selected_series'] = s
  BY SelectedIndex
<1>4. SelectionIsStable'
  BY <1>3 DEF SelectionIsStable, select_known_series
<1> QED
  BY <1>1, <1>2, <1>4 DEF ViewInv, SeriesAreCurrent, MetadataIsCurrent, Sound, RefreshFrom

\* A call that throws leaves the panel alone; unless it failed the engine, it has
\* written no new series.
LEMMA ViewThrows ==
    ASSUME Inv, ViewInv, Connected, UNCHANGED vars, Sound(db'),
           UNCHANGED <<known_series, stats, selected_series, chosen>>, failed \subseteq failed',
           cut_short' = TRUE \/ UNCHANGED <<db, cut_short>>,
           Engine \in failed' \/ Held(db') = Held(db)
    PROVE  ViewInv'
<1>1. Connected' /\ impl'[database_] = {Engine} /\ impl[database_] = {Engine}
  BY EngineIs DEF Connected, vars
<1>2. SeriesAreCurrent'
  <2>1. series_of(db)' = series_of(db')
    BY DEF series_of, Stored
  <2>2. CASE Engine \in failed'
    BY <1>1, <2>2 DEF SeriesAreCurrent
  <2>3. CASE Engine \notin failed' /\ Held(db') = Held(db)
    <3>1. known_series = series_of(db)
      BY <1>1, <2>3 DEF ViewInv, SeriesAreCurrent
    <3>2. series_of(db') = series_of(db)
      BY <2>3, SameSeries
    <3> QED
      BY <2>1, <3>1, <3>2 DEF SeriesAreCurrent
  <2> QED
    BY <2>2, <2>3
<1>3. MetadataIsCurrent'
  BY DEF ViewInv, MetadataIsCurrent, Connected, vars, series_of, stats_of, Stored
<1>4. SelectionIsStable'
  BY DEF ViewInv, SelectionIsStable
<1> QED
  BY <1>1, <1>2, <1>3, <1>4 DEF ViewInv, Sound

\* The operations that perform runs on an open database.
LEMMA ViewOperates ==
    ASSUME Inv, ViewInv,
           refresh_metadata \/ put_sample \/ query \/ generate_demo \/ maintain
    PROVE  ViewInv'
<1>0. Connected /\ UNCHANGED vars /\ Sound(db)
  BY DEF refresh_metadata, put_sample, query, generate_demo, maintain, Operating, ViewInv
<1>1. ASSUME Throw(FALSE), UNCHANGED <<db, failed>> PROVE ViewInv'
  <2>1. cut_short' = cut_short
    BY <1>1 DEF Throw, ViewInv
  <2> QED
    BY <1>0, <1>1, <2>1, ViewUnchanged DEF Throw, shown, editor
<1>2. ASSUME NEW outcomes, NEW o \in Calls(Engine, outcomes), ~o.ok, Becomes(Engine, o),
             UNCHANGED <<known_series, stats, selected_series, chosen>>, cut_short' = TRUE,
             \A q \in outcomes : Sound(q.db) /\ (q.ok \/ q.fails \/ Held(q.db) = Held(db))
      PROVE  ViewInv'
  <2>1. /\ Sound(o.db)
        /\ o.fails \/ Held(o.db) = Held(db)
    <3>1. CASE Engine \in failed
      BY <1>0, <1>2, <3>1 DEF Calls, Throws
    <3>2. CASE Engine \notin failed
      BY <1>2, <3>2 DEF Calls
    <3> QED
      BY <3>1, <3>2
  <2>2. db' = o.db /\ failed \subseteq failed' /\ (o.fails => Engine \in failed')
    BY <1>2 DEF Becomes
  <2> QED
    BY <1>0, <1>2, <2>1, <2>2, ViewThrows
<1>3. ASSUME NEW outcomes, NEW o \in Calls(Engine, outcomes), o.ok
      PROVE  Engine \notin failed /\ o \in outcomes
  BY <1>3 DEF Calls, Throws
<1>4. CASE refresh_metadata
  <2>1. CASE Throw(FALSE)
    BY <1>1, <1>4, <2>1 DEF refresh_metadata
  <2>2. CASE ~Throw(FALSE)
    <3>1. /\ Engine \notin failed /\ RefreshFrom(db) /\ selected_series' = KeptIndex
          /\ chosen' = chosen /\ db' = db
      BY <1>4, <2>2 DEF refresh_metadata
    <3> QED
      BY <1>0, <3>1, ViewRefreshes
  <2> QED
    BY <2>1, <2>2
<1>5. CASE query
  <2>1. CASE Throw(FALSE)
    BY <1>1, <1>5, <2>1 DEF query
  <2>2. CASE UNCHANGED <<metadata, editor>>
    BY <1>0, <1>5, <2>2, ViewUnchanged DEF query, metadata, editor, shown
  <2> QED
    BY <1>5, <2>1, <2>2 DEF query
<1>6. CASE maintain
  <2>1. PICK o \in Calls(Engine, Maintain(db)) :
            /\ Becomes(Engine, o)
            /\ \/ /\ o.ok
                  /\ RefreshFrom(o.db)
                  /\ selected_series' = KeptIndex
                  /\ status_is_error' = FALSE
                  /\ UNCHANGED <<text, chosen, text_from>>
               \/ ~o.ok /\ Throw(TRUE)
    BY <1>6 DEF maintain
  <2>2. \A q \in Maintain(db) : Sound(q.db) /\ Held(q.db) = Held(db)
    BY <1>0, MaintainOutcome DEF Held
  <2>3. CASE o.ok
    <3>1. Engine \notin failed /\ o \in Maintain(db)
      BY <1>3, <2>3
    <3>2. Sound(o.db) /\ Held(o.db) = Held(db) /\ db' = o.db
      BY <2>1, <2>2, <3>1 DEF Becomes
    <3> QED
      BY <1>0, <2>1, <2>3, <3>1, <3>2, ViewRefreshes
  <2>4. CASE ~o.ok
    <3>1. UNCHANGED <<known_series, stats, selected_series, chosen>> /\ cut_short' = TRUE
      BY <2>1, <2>4 DEF Throw, editor
    <3> QED
      BY <1>2, <2>1, <2>2, <2>4, <3>1
  <2> QED
    BY <2>3, <2>4
<1>7. CASE put_sample
  <2> DEFINE s   == current_series[text]
             key == <<s, 1>>
  <2>1. CASE Throw(FALSE) /\ UNCHANGED <<db, failed>>
    BY <1>1, <2>1
  <2>2. ASSUME NEW o \in Calls(Engine, Put(db, key)), Becomes(Engine, o),
               o.ok => RefreshFrom(o.db) /\ select_known_series(s),
               ~o.ok => Throw(TRUE)
        PROVE  ViewInv'
    <3>1. \A q \in Put(db, key) : /\ Sound(q.db)
                                  /\ q.ok \/ q.fails \/ Held(q.db) = Held(db)
      BY <1>0, PutOutcome DEF Held
    <3> HIDE DEF key, s
    <3>2. CASE o.ok
      <4>1. Sound(o.db) /\ db' = o.db
        BY <1>3, <2>2, <3>1, <3>2 DEF Becomes
      <4> QED
        BY <1>0, <2>2, <3>2, <4>1, ViewSelects
    <3>3. CASE ~o.ok
      <4>1. UNCHANGED <<known_series, stats, selected_series, chosen>> /\ cut_short' = TRUE
        BY <2>2, <3>3 DEF Throw, editor
      <4> QED
        BY <1>2, <2>2, <3>1, <3>3, <4>1
    <3> QED
      BY <3>2, <3>3
  <2> QED
    BY <1>7, <2>1, <2>2 DEF put_sample
<1>8. CASE generate_demo
  <2>1. PICK o \in Calls(Engine, DemoPuts) :
            /\ Becomes(Engine, o)
            /\ \/ /\ o.ok
                  /\ RefreshFrom(o.db)
                  /\ select_known_series(Demo)
               \/ /\ ~o.ok
                  /\ cut_short' = TRUE
                  /\ UNCHANGED <<known_series, stats, selected_series, chosen>>
    BY <1>8 DEF generate_demo
  <2>2. \A q \in DemoPuts : Sound(q.db) /\ (q.ok \/ q.fails \/ Held(q.db) = Held(db))
    BY <1>0, DemoOutcome DEF DemoSound
  <2>3. CASE o.ok
    <3>1. Sound(o.db) /\ db' = o.db
      BY <1>3, <2>1, <2>2, <2>3 DEF Becomes
    <3> QED
      BY <1>0, <2>1, <2>3, <3>1, ViewSelects
  <2>4. CASE ~o.ok
    BY <1>2, <2>1, <2>2, <2>4
  <2> QED
    BY <2>3, <2>4
<1> QED
  BY <1>4, <1>5, <1>6, <1>7, <1>8

\* Opening, closing, and the ends of programs.
LEMMA ViewLives ==
    ASSUME Inv, Inv', ViewInv,
           \/ \E i \in Impls : Open(i) \/ ViewAdvance(i)
           \/ Close \/ Quit \/ Killed \/ OtherLifetime
           \/ \E n \in DOMAIN known_series : SelectThrows(n)
    PROVE  ViewInv'
<1> USE GuiHasOneHandle
<1>0. impl \in [Handles -> SUBSET Impls] /\ database_ \in Handles
  BY DEF Inv, LockInv, TypeOK
<1>1. ASSUME NEW i \in Impls, Open(i) \/ OpenLocks(i) \/ OpenThrows(i) \/ Destroys(i)
      PROVE  ViewInv'
  <2>1. impl' = impl /\ db' = db /\ failed' = {j \in failed : stage'[j] \in HasEngine}
    BY <1>1 DEF Open, OpenLocks, OpenThrows, Destroys, Lifetime, OpenLockFile, LockDirectory,
                FailOpening, CloseEngine, Unlock
  <2>2. UNCHANGED <<known_series, selected_series, stats, chosen>> /\ cut_short' = cut_short
    <3>1. CASE OpenThrows(i)
      <4>1. cut_short' = cut_short
        BY <3>1 DEF OpenThrows, Throw, ViewInv
      <4> QED
        BY <3>1, <4>1 DEF OpenThrows, Throw, editor
    <3>2. CASE UNCHANGED gui
      BY <3>2 DEF gui, metadata, editor
    <3> QED
      BY <1>1, <3>1, <3>2 DEF Open, OpenLocks, Destroys
  <2> QED
    BY <2>1, <2>2, ViewLifetime DEF shown
<1>2. ASSUME NEW i \in Impls, OtherAdvances(i) PROVE ViewInv'
  <2>1. /\ impl'[database_] = impl[database_]
        /\ db' = db /\ failed' = {j \in failed : stage'[j] \in HasEngine} /\ UNCHANGED gui
    BY <1>0, <1>2 DEF OtherAdvances, Lifetime, LockDirectory, FinishOpening, FailOpening, Others
  <2> QED
    BY <2>1, ViewLifetime DEF shown, gui, metadata, editor
<1>3. CASE OtherLifetime
  <2>1. /\ db' = db /\ failed' = {j \in failed : stage'[j] \in HasEngine} /\ UNCHANGED gui
    BY <1>3 DEF OtherLifetime, Lifetime
  <2>2. impl'[database_] = impl[database_]
    <3>1. ASSUME NEW p \in Processes \ {Gui}, Exit(p) PROVE impl'[database_] = impl[database_]
      BY <1>0, <3>1 DEF Exit, Inv, OwnerInv
    <3> QED
      BY <1>0, <1>3, <3>1 DEF OtherLifetime, Lifetime, OpenLockFile, Destroy, MoveTo, Others
  <2> QED
    BY <2>1, <2>2, ViewLifetime DEF shown, gui, metadata, editor
<1>4. ASSUME NEW i \in Impls, OpenFinishes(i) PROVE ViewInv'
  <2>1. /\ ~Connected /\ Connected' /\ db' = db /\ selected_series = 0 /\ Sound(db')
        /\ RefreshFrom(db)
    BY <1>0, <1>4 DEF OpenFinishes, Lifetime, FinishOpening, Connected, ViewInv, Sound
  <2>2. (known_series = series_of(db) /\ stats = stats_of(db))'
    BY <2>1 DEF RefreshFrom, series_of, stats_of, Stored
  <2>3. SelectionIsStable'
    BY <1>4, <2>1 DEF OpenFinishes, SelectionIsStable, editor
  <2> QED
    BY <2>1, <2>2, <2>3 DEF ViewInv, SeriesAreCurrent, MetadataIsCurrent, Sound, RefreshFrom
<1>5. ASSUME Destroy(database_) \/ Exit(Gui) PROVE impl'[database_] = {}
  <2>1. CASE Destroy(database_)
    BY <1>0, <2>1 DEF Destroy
  <2>2. CASE Exit(Gui)
    BY <1>0, <2>2 DEF Exit, Inv, OwnerInv
  <2> QED
    BY <1>5, <2>1, <2>2
<1>6. ASSUME Ends PROVE ViewInv'
  <2>1. impl'[database_] = {}
    BY <1>5, <1>6 DEF Ends, Lifetime, Connected, vars
  <2> QED
    BY <1>6, <2>1, ViewDisconnects DEF Ends, Lifetime
<1>7. CASE Close \/ Killed
  BY <1>5, <1>7, ViewDisconnects DEF Close, Killed, Lifetime
<1> QED
  BY <1>1, <1>2, <1>3, <1>4, <1>6, <1>7 DEF ViewAdvance, Quit, SelectThrows

\* The steps of the user, of the other programs and of the medium.
LEMMA ViewElse ==
    ASSUME Inv, ViewInv,
           \/ Start \/ EditText \/ UNCHANGED viewvars
           \/ \E n \in DOMAIN known_series : Select(n)
           \/ \E h \in Others : run_maintenance(h) \/ \E s \in DOMAIN Series : run_put(h, s)
           \/ DamageBlock
    PROVE  ViewInv'
<1>0. Sound(db)
  BY DEF ViewInv
<1>1. CASE Start \/ EditText \/ UNCHANGED viewvars
  BY <1>1, ViewUnchanged DEF Start, EditText, viewvars, gui, metadata, editor, shown
<1>2. ASSUME NEW n \in DOMAIN known_series, Select(n) PROVE ViewInv'
  <2>1. /\ UNCHANGED <<vars, db, failed, metadata>> /\ selected_series' = n
        /\ chosen' = known_series[n] /\ known_series' = known_series
    BY <1>2 DEF Select, metadata
  <2>2. SelectionIsStable'
    BY <2>1 DEF SelectionIsStable
  <2>3. Connected /\ Connected'
    <3>1. known_series # <<>>
      BY <1>2
    <3> QED
      BY <2>1, <3>1 DEF ViewInv, Connected, vars
  <2> QED
    BY <2>1, <2>2, <2>3 DEF ViewInv, SeriesAreCurrent, Connected, MetadataIsCurrent, metadata, vars,
                            series_of, stats_of, Stored, Sound
<1>3. ASSUME NEW h \in Others, run_maintenance(h) \/ \E s \in DOMAIN Series : run_put(h, s)
      PROVE  ViewInv'
  <2>1. impl[h] # {} /\ UNCHANGED <<vars, gui>>
    BY <1>3 DEF run_maintenance, run_put
  <2>2. Sound(db')
    <3>1. CASE run_maintenance(h)
      BY <1>0, <3>1, MaintainOutcome DEF run_maintenance, Becomes
    <3>2. ASSUME NEW s \in DOMAIN Series, run_put(h, s) PROVE Sound(db')
      <4>1. PICK o \in Put(db, <<s, 1>>) : db' = o.db
        BY <3>2 DEF run_put, Becomes
      <4> QED
        BY <1>0, <4>1, PutOutcome
    <3> QED
      BY <1>3, <3>1, <3>2
  <2> QED
    BY <2>1, <2>2, ViewOthers
<1>4. CASE DamageBlock
  <2>1. PICK key \in db.flushed : db' = [db EXCEPT !.bad = @ \cup {key}]
    BY <1>4 DEF DamageBlock
  <2>2. db' = [flushed |-> db.flushed, unflushed |-> db.unflushed, bad |-> db.bad \cup {key}]
    BY <1>0, <2>1 DEF Sound
  <2>3. Sound(db') /\ Stored(db') = Stored(db) /\ db'.unflushed = db.unflushed
    BY <1>0, <2>2 DEF Sound, Stored
  <2>4. series_of(db') = series_of(db) /\ stats_of(db') = stats_of(db)
    BY <2>3 DEF series_of, stats_of
  <2>5. UNCHANGED <<vars, failed, known_series, stats, selected_series, chosen, cut_short>>
    BY <1>4 DEF DamageBlock, gui, metadata, editor
  <2>6. series_of(db)' = series_of(db') /\ stats_of(db)' = stats_of(db')
    BY DEF series_of, stats_of, Stored
  <2> QED
    BY <2>3, <2>4, <2>5, <2>6 DEF ViewInv, SeriesAreCurrent, Connected, MetadataIsCurrent,
                                  SelectionIsStable, vars, Sound
<1> QED
  BY <1>1, <1>2, <1>3, <1>4

LEMMA ViewInvariant == ViewSpec => [](Inv /\ ViewInv)
<1>1. ViewInit => ViewInv
  <2> SUFFICES ASSUME ViewInit PROVE ViewInv
    OBVIOUS
  <2>1. ~Connected
    BY GuiHasOneHandle DEF ViewInit, Init, Connected
  <2>2. Sound(db)
    BY DEF ViewInit, Sound
  <2> QED
    BY <2>1, <2>2 DEF ViewInit, ViewInv, SeriesAreCurrent, MetadataIsCurrent, SelectionIsStable
<1>2. Inv /\ Inv' /\ ViewInv /\ [ViewNext]_viewvars => ViewInv'
  BY ViewOperates, ViewLives, ViewElse DEF ViewNext
<1> QED
  BY <1>1, <1>2, ProgramsKeepToOwnership, InvHolds, PTL DEF ViewSpec

\* The panel shows the database as it is, for any series, texts and number of other
\* programs: what was read when the database was opened, or after the last operation
\* that returned, stays true, because the lock keeps every other engine away.
THEOREM PanelIsCurrent == ViewSpec => []MetadataIsCurrent
<1>1. ViewInv => MetadataIsCurrent
  BY DEF ViewInv
<1> QED
  BY <1>1, ViewInvariant, PTL

\* The highlighted entry is the series that was selected last: puts that insert a
\* series move the index with it, and a demo that a damaged block cuts short leaves
\* no series that a later refresh would insert before it.
THEOREM SelectionStays == ViewSpec => []SelectionIsStable
<1>1. ViewInv => SelectionIsStable
  BY DEF ViewInv
<1> QED
  BY <1>1, ViewInvariant, PTL

-----------------------------------------------------------------------------
(* What the editor holds.                                                  *)

LEMMA CharactersDiffer == Space # Comma /\ Space # EqualsSign /\ Comma # EqualsSign
BY Zenon DEF Space, Comma, EqualsSign

LEMMA SeriesFacts ==
    /\ Space \in Characters /\ Comma \in Characters /\ EqualsSign \in Characters
    /\ Typed \subseteq [measurement : Seq(Characters), tags : Seq(Characters)]
    /\ Len(Series) \in Nat /\ DOMAIN Series = 1..Len(Series)
    /\ \A s \in DOMAIN Series : Series[s].tags \in Seq(Tag)
<1>1. {Space, Comma, EqualsSign} \subseteq Characters
  BY SeriesAreKeys, Zenon
<1>2. Typed \subseteq [measurement : Seq(Characters), tags : Seq(Characters)]
  BY SeriesAreKeys, Zenon
<1>3. Series \in Seq([measurement : Seq(Characters), tags : Seq(Tag)])
  BY SeriesAreKeys, Zenon
<1>4. Len(Series) \in Nat /\ DOMAIN Series = 1..Len(Series)
  BY <1>3, LenProperties
<1>5. \A s \in DOMAIN Series : Series[s] \in [measurement : Seq(Characters), tags : Seq(Tag)]
  BY <1>3, <1>4, ElementOfSeq
<1>6. \A X, Y : \A r \in [measurement : X, tags : Y] : r.tags \in Y
  OBVIOUS
<1>7. \A s \in DOMAIN Series : Series[s].tags \in Seq(Tag)
  BY <1>5, <1>6, Zenon
<1> QED
  BY <1>1, <1>2, <1>4, <1>7, Zenon

\* The fields take typed texts and those of series, in any combination.
LEMMA TextsHold ==
    /\ \A t \in Typed : t \in Texts
    /\ \A s \in DOMAIN Series : Text[s] \in Texts
    /\ \A old \in Texts, s \in DOMAIN Series : set_text(old, s) \in Texts
<1> DEFINE all == Typed \cup Range(Text)
           measurements == {t.measurement : t \in all}
           tags == {t.tags : t \in all}
<1>1. Texts = [measurement : measurements, tags : tags]
  BY DEF Texts
<1>2. \A t \in all : t.measurement \in measurements /\ t.tags \in tags
  OBVIOUS
<1>3. \A t \in Typed : t \in all /\ t = [measurement |-> t.measurement, tags |-> t.tags]
  BY SeriesFacts
<1>4. \A s \in DOMAIN Series :
         /\ Text[s] \in all
         /\ Text[s] = [measurement |-> Text[s].measurement, tags |-> Text[s].tags]
  BY DEF Text, Range
<1> HIDE DEF all, measurements, tags
<1>6. \A t \in all : t = [measurement |-> t.measurement, tags |-> t.tags] => t \in Texts
  BY <1>1, <1>2
<1>5. ASSUME NEW old \in Texts, NEW s \in DOMAIN Series PROVE set_text(old, s) \in Texts
  <2>1. /\ old.measurement \in measurements /\ old.tags \in tags
        /\ Text[s].measurement \in measurements /\ Text[s].tags \in tags
    BY <1>1, <1>2, <1>4
  <2> QED
    BY <1>1, <2>1 DEF set_text
<1> QED
  BY <1>3, <1>4, <1>5, <1>6, Zenon

\* A series that fits replaces both fields.
LEMMA SetTextFits ==
    ASSUME NEW old, NEW s \in DOMAIN Series, FitsEditor[s]
    PROVE  set_text(old, s) = Text[s]
<1>1. FitsMeasurement[s]
  BY DEF FitsEditor
<1>2. Text[s] = [measurement |-> Text[s].measurement, tags |-> Text[s].tags]
  BY DEF Text
<1> QED
  BY <1>1, <1>2 DEF set_text

\* The editor denotes a series, or none.
LEMMA DenotesSeries ==
    ASSUME NEW t \in Texts, current_series[t] # Invalid
    PROVE  current_series[t] \in DOMAIN Series
<1> DEFINE same == {s \in DOMAIN Series : /\ Series[s].measurement = t.measurement
                                          /\ Len(parse_tags(t.tags)) = Len(Series[s].tags)
                                          /\ ToSet(parse_tags(t.tags)) = ToSet(Series[s].tags)}
<1>1. current_series[t] = IF TagsParse(t.tags) /\ same # {} THEN CHOOSE s \in same : TRUE ELSE Invalid
  BY DEF current_series
<1>2. same \subseteq DOMAIN Series
  OBVIOUS
<1> HIDE DEF same
<1> QED
  BY <1>1, <1>2

\* The list of series consists of series.
LEMMA ListIsOfSeries == \A d : series_of(d) \in Seq(DOMAIN Series)
<1>1. TAKE d
<1> DEFINE S == {key[1] : key \in Stored(d)} \cap DOMAIN Series
<1>2. Len(Series) \in Nat /\ DOMAIN Series = 1..Len(Series)
  BY SeriesFacts
<1>3. series_of(d) = Ordered(S)
  BY DEF series_of, InOrder
<1>4. S \subseteq DOMAIN Series
  OBVIOUS
<1> HIDE DEF S
<1>5. IsFiniteSet(DOMAIN Series)
  BY <1>2, FS_Interval
<1>6. S \in SUBSET Int /\ IsFiniteSet(S)
  BY <1>2, <1>4, <1>5, FS_Subset
<1>7. Cardinality(S) \in Nat /\ Ordered(S) \in [1..Cardinality(S) -> S]
  BY <1>6, OrderedLists
<1>8. Ordered(S) \in [1..Cardinality(S) -> DOMAIN Series]
  BY <1>4, <1>7
<1>9. Ordered(S) \in Seq(DOMAIN Series)
  BY <1>7, <1>8
<1> QED
  BY <1>3, <1>9

-----------------------------------------------------------------------------
(* The text of the editor.                                                 *)

\* No space at either end.
Tight(s) == s # <<>> => s[1] # Space /\ s[Len(s)] # Space

\* These are the strings that trim leaves alone.
LEMMA TrimKeeps ==
    ASSUME NEW s \in Seq(Characters)
    PROVE  trim(s) = s <=> Tight(s)
<1> DEFINE solid == {i \in DOMAIN s : s[i] # Space}
<1>1. /\ Len(s) \in Nat /\ DOMAIN s = 1..Len(s)
      /\ s = <<>> <=> Len(s) = 0
  BY EmptySeq, LenProperties
<1>2. trim(s) = IF solid = {} THEN <<>> ELSE SubSeq(s, Min(solid), Max(solid))
  BY DEF trim
<1>0. \A i : i \in solid <=> i \in 1..Len(s) /\ s[i] # Space
  BY <1>1
<1> HIDE DEF solid
<1>3. solid \in SUBSET (1..Len(s)) /\ solid \in SUBSET Nat
  BY <1>0, <1>1
<1>4. CASE s = <<>>
  <2>1. solid = {}
    BY <1>0, <1>1, <1>4
  <2> QED
    BY <1>2, <1>4, <2>1 DEF Tight
<1>5. CASE s # <<>>
  <2>1. 1 \in 1..Len(s) /\ Len(s) \in 1..Len(s)
    BY <1>1, <1>5
  <2>2. solid # {} => /\ Min(solid) \in solid /\ \A y \in solid : Min(solid) <= y
                      /\ Max(solid) \in solid /\ \A y \in solid : y <= Max(solid)
    BY <1>1, <1>3, LeastIsMin, GreatestOfBounded
  <2>3. ASSUME Tight(s) PROVE trim(s) = s
    <3>1. 1 \in solid /\ Len(s) \in solid
      BY <1>0, <1>5, <2>1, <2>3 DEF Tight
    <3>2. solid # {} /\ Min(solid) \in 1..Len(s) /\ Max(solid) \in 1..Len(s)
      BY <1>3, <2>2, <3>1
    <3>3. Min(solid) = 1 /\ Max(solid) = Len(s)
      BY <1>1, <2>2, <3>1, <3>2
    <3> QED
      BY <1>2, <3>2, <3>3, SubSeqFull
  <2>4. ASSUME trim(s) = s PROVE Tight(s)
    <3>1. solid # {}
      BY <1>2, <1>5, <2>4
    <3> DEFINE a == Min(solid)
               b == Max(solid)
    <3>2. a \in solid /\ b \in solid /\ a \in 1..Len(s) /\ b \in 1..Len(s) /\ a <= b
      BY <1>3, <2>2, <3>1
    <3>3. s = SubSeq(s, a, b)
      BY <1>2, <2>4, <3>1
    <3> HIDE DEF a, b
    <3>4. \A i \in a..b : s[i] \in Characters
      BY <1>1, <3>2
    <3>5. Len(SubSeq(s, a, b)) = b - a + 1
      BY <3>2, <3>4, SubSeqProperties
    <3>6. Len(s) = b - a + 1
      BY <3>3, <3>5
    <3>7. a = 1 /\ b = Len(s)
      BY <1>1, <3>2, <3>6
    <3> QED
      BY <1>0, <3>2, <3>7 DEF Tight
  <2> QED
    BY <2>3, <2>4
<1> QED
  BY <1>4, <1>5

\* A tag as encode_tags writes it.
Item(tag) == tag.key \o <<EqualsSign>> \o tag.value

\* The tags that parse_tag reads as they were meant.
PlainTag(tag) ==
    /\ tag \in Tag /\ tag.key # <<>>
    /\ Plain(tag.key) /\ EqualsSign \notin ToSet(tag.key) /\ Plain(tag.value)

\* What is where in it.
LEMMA ItemIs ==
    ASSUME NEW tag \in Tag
    PROVE  /\ Item(tag) \in Seq(Characters)
           /\ Len(tag.key) \in Nat /\ Len(tag.value) \in Nat
           /\ Len(Item(tag)) = Len(tag.key) + 1 + Len(tag.value)
           /\ Len(Item(tag)) \in Nat /\ Len(Item(tag)) # 0
           /\ \A i \in 1..Len(tag.key) : Item(tag)[i] = tag.key[i]
           /\ Item(tag)[Len(tag.key) + 1] = EqualsSign
           /\ \A i \in 1..Len(tag.value) : Item(tag)[Len(tag.key) + 1 + i] = tag.value[i]
<1> DEFINE key == tag.key
           value == tag.value
           head == key \o <<EqualsSign>>
<1>1. key \in Seq(Characters) /\ value \in Seq(Characters)
  BY DEF Tag
<1>2. <<EqualsSign>> \in Seq(Characters) /\ Len(<<EqualsSign>>) = 1 /\ <<EqualsSign>>[1] = EqualsSign
  BY SeriesFacts
<1>3. Item(tag) = head \o value
  BY DEF Item
<1> HIDE DEF key, value
<1>4. /\ head \in Seq(Characters) /\ Len(head) = Len(key) + 1
      /\ \A i \in 1..Len(key) + 1 :
            head[i] = IF i <= Len(key) THEN key[i] ELSE <<EqualsSign>>[i - Len(key)]
  BY <1>1, <1>2, ConcatProperties
<1>5. Len(key) \in Nat /\ Len(value) \in Nat
  BY <1>1, LenProperties
<1>6. /\ \A i \in 1..Len(key) : head[i] = key[i]
      /\ head[Len(key) + 1] = EqualsSign
  <2>1. \A i \in 1..Len(key) : head[i] = key[i]
    BY <1>4, <1>5
  <2>2. Len(key) + 1 \in 1..Len(key) + 1 /\ ~(Len(key) + 1 <= Len(key)) /\ Len(key) + 1 - Len(key) = 1
    BY <1>5
  <2>3. head[Len(key) + 1] = <<EqualsSign>>[1]
    BY <1>4, <2>2
  <2> QED
    BY <1>2, <2>1, <2>3
<1> HIDE DEF head
<1>7. /\ Item(tag) \in Seq(Characters) /\ Len(Item(tag)) = Len(head) + Len(value)
      /\ \A i \in 1..Len(head) + Len(value) :
            Item(tag)[i] = IF i <= Len(head) THEN head[i] ELSE value[i - Len(head)]
  <2>1. head \in Seq(Characters)
    BY <1>4
  <2> QED
    BY <1>1, <1>3, <2>1, ConcatProperties
<1>8. ASSUME NEW i \in 1..Len(value) PROVE Item(tag)[Len(key) + 1 + i] = value[i]
  <2>1. /\ Len(key) + 1 + i \in 1..Len(head) + Len(value) /\ ~(Len(key) + 1 + i <= Len(head))
        /\ Len(key) + 1 + i - Len(head) = i
    BY <1>4, <1>5
  <2> QED
    BY <1>7, <2>1
<1>9. \A i \in 1..Len(key) + 1 : Item(tag)[i] = head[i]
  BY <1>4, <1>5, <1>7
<1>10. /\ \A i \in 1..Len(key) : Item(tag)[i] = key[i]
       /\ Item(tag)[Len(key) + 1] = EqualsSign
  BY <1>5, <1>6, <1>9
<1>11. /\ Len(Item(tag)) = Len(key) + 1 + Len(value)
       /\ Len(Item(tag)) \in Nat /\ Len(Item(tag)) # 0
  BY <1>4, <1>5, <1>7
<1> QED
  BY <1>5, <1>7, <1>8, <1>10, <1>11 DEF key, value

\* parse_tag reads it back; it has no comma, and trim leaves it alone.
LEMMA ItemParses ==
    ASSUME NEW tag, PlainTag(tag)
    PROVE  /\ trim(Item(tag)) = Item(tag) /\ Tight(Item(tag))
           /\ Equals(Item(tag)) > 1
           /\ parse_tag(Item(tag)) = tag
           /\ \A i \in 1..Len(Item(tag)) : Item(tag)[i] # Comma
<1> DEFINE it == Item(tag)
           key == tag.key
           value == tag.value
           k == Len(key)
           v == Len(value)
<1>1. /\ it \in Seq(Characters) /\ k \in Nat /\ v \in Nat /\ Len(it) = k + 1 + v
      /\ \A i \in 1..k : it[i] = key[i]
      /\ it[k + 1] = EqualsSign
      /\ \A i \in 1..v : it[k + 1 + i] = value[i]
  BY ItemIs DEF PlainTag
<1>2. key \in Seq(Characters) /\ value \in Seq(Characters) /\ tag = [key |-> key, value |-> value]
  BY DEF PlainTag, Tag
<1>3. /\ key # <<>> /\ trim(key) = key /\ trim(value) = value
      /\ Comma \notin ToSet(key) /\ EqualsSign \notin ToSet(key) /\ Comma \notin ToSet(value)
  BY DEF PlainTag, Plain
<1>4. k # 0 /\ Tight(key) /\ Tight(value)
  BY <1>2, <1>3, EmptySeq, TrimKeeps
<1>5. /\ \A i \in 1..k : key[i] # Comma /\ key[i] # EqualsSign
      /\ \A i \in 1..v : value[i] # Comma
  <2>1. DOMAIN key = 1..k /\ DOMAIN value = 1..v
    BY <1>2, LenProperties
  <2> QED
    BY <1>3, <2>1 DEF ToSet
<1>6. Equals(it) = IF {i \in 1..Len(it) : it[i] = EqualsSign} # {}
                   THEN Min({i \in 1..Len(it) : it[i] = EqualsSign}) ELSE 0
  BY DEF Equals, SelectInSeq
<1>7. parse_tag(it) = [key   |-> trim(SubSeq(it, 1, Equals(it) - 1)),
                       value |-> trim(SubSeq(it, Equals(it) + 1, Len(it)))]
  BY DEF parse_tag
<1>8. value # <<>> => v # 0 /\ value[1] # Space /\ value[v] # Space
  BY <1>2, <1>4, EmptySeq DEF Tight
<1>9. value = <<>> => v = 0
  BY EmptySeq
<1>10. key[1] # Space
  BY <1>3, <1>4 DEF Tight
<1> HIDE DEF it, key, value, k, v
<1>11. Tight(it)
  <2>1. it[1] = key[1]
    BY <1>1, <1>4
  <2>2. it[Len(it)] # Space
    <3>1. CASE v = 0
      <4>1. Len(it) = k + 1
        BY <1>1, <3>1
      <4> QED
        BY <1>1, <4>1, CharactersDiffer
    <3>2. CASE v # 0
      <4>1. v \in 1..v /\ it[k + 1 + v] = value[v]
        BY <1>1, <3>2
      <4> QED
        BY <1>1, <1>8, <1>9, <3>2, <4>1
    <3> QED
      BY <3>1, <3>2
  <2> QED
    BY <1>10, <2>1, <2>2 DEF Tight
<1>12. trim(it) = it
  BY <1>1, <1>11, TrimKeeps
<1>13. Equals(it) = k + 1
  <2> DEFINE I == {i \in 1..Len(it) : it[i] = EqualsSign}
  <2>1. k + 1 \in I /\ I \in SUBSET Nat
    BY <1>1
  <2>2. \A i \in I : k + 1 <= i
    <3>1. TAKE i \in I
    <3>2. i \in Nat /\ i # 0 /\ it[i] = EqualsSign
      OBVIOUS
    <3>3. i \notin 1..k
      BY <1>1, <1>5, <3>2
    <3> QED
      BY <1>1, <3>2, <3>3
  <2> HIDE DEF I
  <2>3. I # {} /\ Min(I) \in I /\ Min(I) <= k + 1
    BY <2>1, LeastIsMin
  <2>4. Min(I) = k + 1
    <3>1. Min(I) \in Nat /\ k + 1 <= Min(I) /\ Min(I) <= k + 1 /\ k \in Nat
      BY <1>1, <2>1, <2>2, <2>3
    <3> QED
      BY <3>1
  <2> QED
    BY <1>6, <2>3, <2>4 DEF I
<1>14. Equals(it) > 1
  BY <1>1, <1>4, <1>13
<1>15. SubSeq(it, 1, Equals(it) - 1) = key
  <2>1. /\ 0 \in Nat /\ 0 + k <= Len(it) /\ Len(key) = k
        /\ \A i \in 1..k : it[0 + i] = key[i]
    BY <1>1 DEF k
  <2>2. SubSeq(it, 0 + 1, 0 + k) = key
    BY <1>1, <1>2, <2>1, Stretch
  <2>3. Equals(it) - 1 = 0 + k /\ 0 + 1 = 1
    BY <1>1, <1>13
  <2> QED
    BY <2>2, <2>3, Zenon
<1>16. SubSeq(it, Equals(it) + 1, Len(it)) = value
  <2>1. k + 1 \in Nat /\ k + 1 + v <= Len(it) /\ Len(value) = v
    BY <1>1 DEF v
  <2>2. SubSeq(it, k + 1 + 1, k + 1 + v) = value
    BY <1>1, <1>2, <2>1, Stretch
  <2> QED
    BY <1>1, <1>13, <2>2, Zenon
<1>17. parse_tag(it) = tag
  BY <1>2, <1>3, <1>7, <1>15, <1>16
<1>18. ASSUME NEW i \in 1..Len(it) PROVE it[i] # Comma
  <2>1. CASE i \in 1..k
    BY <1>1, <1>5, <2>1
  <2>2. CASE i = k + 1
    BY <1>1, <2>2, CharactersDiffer
  <2>3. CASE i \notin 1..k /\ i # k + 1
    <3>1. i - k - 1 \in 1..v /\ k + 1 + (i - k - 1) = i
      BY <1>1, <2>3
    <3> QED
      BY <1>1, <1>5, <3>1
  <2> QED
    BY <2>1, <2>2, <2>3
<1> QED
  BY <1>11, <1>12, <1>14, <1>17, <1>18 DEF it

\* What encode_tags adds for one tag: the item, behind a comma unless it is the first.
Gap(n) == IF n = 1 THEN 0 ELSE 1
Piece(tags, n) == (IF n = 1 THEN <<>> ELSE <<Comma>>) \o Item(tags[n])

LEMMA PieceIs ==
    ASSUME NEW tags, NEW n \in Nat, tags[n] \in Tag
    PROVE  /\ Piece(tags, n) \in Seq(Characters)
           /\ Len(Piece(tags, n)) = Gap(n) + Len(Item(tags[n]))
           /\ n # 1 => Piece(tags, n)[1] = Comma
           /\ \A i \in 1..Len(Item(tags[n])) : Piece(tags, n)[Gap(n) + i] = Item(tags[n])[i]
<1> DEFINE pre == IF n = 1 THEN <<>> ELSE <<Comma>>
           it == Item(tags[n])
<1>0. pre \in Seq(Characters) /\ Len(pre) = Gap(n) /\ (n # 1 => pre[1] = Comma)
  BY SeriesFacts DEF Gap
<1>3. it \in Seq(Characters) /\ Len(it) \in Nat
  BY ItemIs, Zenon
<1>7. Piece(tags, n) = pre \o it
  BY DEF Piece
<1> HIDE DEF pre, it
<1>8. /\ pre \o it \in Seq(Characters) /\ Len(pre \o it) = Len(pre) + Len(it)
      /\ \A i \in 1..Len(pre) + Len(it) :
            (pre \o it)[i] = IF i <= Len(pre) THEN pre[i] ELSE it[i - Len(pre)]
  BY <1>0, <1>3, ConcatProperties
<1>9. Gap(n) \in Nat /\ (n # 1 => Gap(n) = 1)
  BY DEF Gap
<1>10. ASSUME n # 1 PROVE (pre \o it)[1] = Comma
  <2>1. Len(pre) = 1 /\ pre[1] = Comma /\ 1 \in 1..Len(pre) + Len(it) /\ 1 <= Len(pre)
    BY <1>0, <1>3, <1>9, <1>10
  <2> QED
    BY <1>8, <2>1
<1>11. \A i \in 1..Len(it) : (pre \o it)[Gap(n) + i] = it[i]
  <2>1. TAKE i \in 1..Len(it)
  <2>2. Gap(n) + i \in Nat
    BY <1>3, <1>9
  <2>3. ASSUME NEW j \in Nat, j = Gap(n) + i PROVE (pre \o it)[j] = it[i]
    <3>1. j \in 1..Len(pre) + Len(it) /\ ~(j <= Len(pre)) /\ j - Len(pre) = i
      BY <1>0, <1>3, <1>9, <2>3
    <3> QED
      BY <1>8, <3>1
  <2> QED
    BY <2>2, <2>3
<1> QED
  BY <1>0, <1>7, <1>8, <1>10, <1>11 DEF it

\* parse_tags reads back what encode_tags wrote: the commas of the text are those
\* between the tags, and what lies between two of them is an item.
LEMMA EncodingParses ==
    ASSUME NEW tags \in Seq(Tag), \A n \in 1..Len(tags) : PlainTag(tags[n])
    PROVE  TagsParse(encode_tags(tags)) /\ parse_tags(encode_tags(tags)) = tags
<1> DEFINE N == Len(tags)
           pieces == [n \in 1..N |-> Piece(tags, n)]
           E == FlattenSeq(pieces)
<1>1. N \in Nat /\ DOMAIN tags = 1..N /\ \A n \in 1..N : tags[n] \in Tag
  BY LenProperties
<1>2. encode_tags(tags) = E
  BY <1>1, Zenon DEF encode_tags, Piece, Item
<1>3. CASE N = 0
  <2>1. tags = <<>> /\ pieces = <<>>
    BY <1>3, EmptySeq
  <2>2. E = <<>>
    BY <2>1 DEF FlattenSeq
  <2>3. trim(<<>>) = <<>>
    BY TrimKeeps, EmptySeq DEF Tight
  <2> QED
    BY <1>2, <2>1, <2>2, <2>3 DEF TagsParse, parse_tags
<1>4. CASE N # 0
  <2> DEFINE it(n) == Item(tags[n])
  <2>1. \A n \in 1..N : /\ it(n) \in Seq(Characters) /\ Len(it(n)) \in Nat /\ Len(it(n)) # 0
                        /\ it(n)[1] # Space /\ it(n)[Len(it(n))] # Space
                        /\ trim(it(n)) = it(n) /\ Equals(it(n)) > 1 /\ parse_tag(it(n)) = tags[n]
                        /\ \A i \in 1..Len(it(n)) : it(n)[i] # Comma
    <3>1. TAKE n \in 1..N
    <3>2. it(n) \in Seq(Characters) /\ Len(it(n)) \in Nat /\ Len(it(n)) # 0
      BY <1>1, ItemIs, Zenon
    <3>3. it(n) # <<>>
      BY <3>2, EmptySeq
    <3> QED
      BY <3>2, <3>3, ItemParses DEF Tight
  <2>2. \A n \in 1..N : /\ pieces[n] \in Seq(Characters)
                        /\ Len(pieces[n]) = Gap(n) + Len(it(n))
                        /\ n # 1 => pieces[n][1] = Comma
                        /\ \A i \in 1..Len(it(n)) : pieces[n][Gap(n) + i] = it(n)[i]
    <3>1. TAKE n \in 1..N
    <3>2. pieces[n] = Piece(tags, n) /\ tags[n] \in Tag /\ n \in Nat
      BY <1>1
    <3> QED
      BY <3>2, PieceIs
  <2>3. pieces \in Seq(Seq(Characters)) /\ Len(pieces) = N
    <3>1. pieces \in [1..N -> Seq(Characters)]
      BY <2>2
    <3> QED
      BY <1>1, <3>1
  <2> HIDE DEF N, pieces, it, E
  <2>4. E \in Seq(Characters) /\ \E o : LinedUp(pieces, N, E, o)
    BY <1>4, <2>3, FlattenLinesUp DEF E
  <2>5. PICK off : LinedUp(pieces, N, E, off)
    BY <2>4
  <2>6. \A n \in 1..N : /\ off[n] \in Nat /\ off[n + 1] \in Nat /\ off[n + 1] <= Len(E)
                        /\ off[n + 1] = off[n] + Gap(n) + Len(it(n))
                        /\ Gap(n) \in 0..1 /\ (n = 1 => Gap(n) = 0 /\ off[n] = 0)
                        /\ (n # 1 => Gap(n) = 1)
                        /\ Len(it(n)) \in Nat /\ Len(it(n)) # 0
    <3>1. TAKE n \in 1..N
    <3>2. n + 1 \in 1..N + 1 /\ n \in 1..N + 1 /\ N + 1 \in 1..N + 1 /\ n + 1 <= N + 1
      BY <1>1
    <3>3. off[n] \in Nat /\ off[n + 1] \in Nat /\ off[n + 1] <= Len(E)
      BY <2>5, <3>2 DEF LinedUp
    <3>4. off[n + 1] = off[n] + (Gap(n) + Len(it(n))) /\ off[1] = 0
      BY <2>2, <2>5 DEF LinedUp
    <3>5. Gap(n) \in 0..1 /\ (n = 1 => Gap(n) = 0) /\ (n # 1 => Gap(n) = 1)
      BY DEF Gap
    <3>6. Len(it(n)) \in Nat /\ Len(it(n)) # 0
      BY <2>1, Zenon
    <3> QED
      BY <3>3, <3>4, <3>5, <3>6
  <2>7. \A n \in 1..N : \A i \in 1..Len(it(n)) : E[off[n] + Gap(n) + i] = it(n)[i]
    <3>1. TAKE n \in 1..N
    <3>2. TAKE i \in 1..Len(it(n))
    <3>3. Gap(n) + i \in 1..Len(pieces[n]) /\ off[n] + (Gap(n) + i) = off[n] + Gap(n) + i
      <4>1. Len(pieces[n]) = Gap(n) + Len(it(n))
        BY <2>2, Zenon
      <4>2. off[n] \in Nat /\ Gap(n) \in 0..1 /\ Len(it(n)) \in Nat
        BY <2>6, Zenon
      <4>3. Gap(n) \in Nat
        BY <4>2
      <4>4. \A o, g, l \in Nat : \A j \in 1..l :
                g + j \in 1..g + l /\ o + (g + j) = o + g + j
        OBVIOUS
      <4> QED
        BY <4>1, <4>2, <4>3, <4>4, Zenon
    <3>4. E[off[n] + (Gap(n) + i)] = pieces[n][Gap(n) + i]
      BY <2>5, <3>3 DEF LinedUp
    <3> QED
      BY <2>2, <3>3, <3>4
  <2>8. \A n \in 1..N : n # 1 => off[n] + 1 \in 1..Len(E) /\ E[off[n] + 1] = Comma
    <3>1. TAKE n \in 1..N
    <3>2. HAVE n # 1
    <3>3. 1 \in 1..Len(pieces[n]) /\ pieces[n][1] = Comma
      <4>1. Len(pieces[n]) = Gap(n) + Len(it(n)) /\ pieces[n][1] = Comma
        BY <2>2, <3>2
      <4> QED
        BY <2>6, <3>2, <4>1
    <3>4. E[off[n] + 1] = pieces[n][1]
      BY <2>5, <3>3 DEF LinedUp
    <3>5. off[n] + 1 \in 1..Len(E)
      BY <2>6, <3>2, <2>4, LenProperties
    <3> QED
      BY <3>3, <3>4, <3>5
  <2>9. Len(E) \in Nat /\ Len(E) # 0 /\ DOMAIN E = 1..Len(E) /\ off[N + 1] = Len(E)
    <3>1. 1 \in 1..N /\ Len(E) \in Nat /\ DOMAIN E = 1..Len(E)
      BY <1>1, <1>4, <2>4, LenProperties
    <3>2. off[2] <= Len(E) /\ off[2] # 0
      BY <2>6, <3>1
    <3> QED
      BY <2>5, <2>6, <3>1, <3>2 DEF LinedUp
  <2>10. trim(E) = E /\ E # <<>>
    <3>1. E[1] # Space
      <4>1. 1 \in 1..N
        BY <1>1, <1>4
      <4>2. 1 \in 1..Len(it(1)) /\ off[1] + Gap(1) + 1 = 1
        BY <2>6, <4>1
      <4>3. E[1] = it(1)[1]
        BY <2>7, <4>1, <4>2
      <4> QED
        BY <2>1, <4>1, <4>3
    <3>2. E[Len(E)] # Space
      <4>1. N \in 1..N
        BY <1>1, <1>4
      <4>2. Len(it(N)) \in 1..Len(it(N)) /\ off[N] + Gap(N) + Len(it(N)) = Len(E)
        BY <2>6, <2>9, <4>1
      <4>3. E[Len(E)] = it(N)[Len(it(N))]
        BY <2>7, <4>1, <4>2
      <4> QED
        BY <2>1, <4>1, <4>3
    <3>3. Tight(E)
      BY <3>1, <3>2 DEF Tight
    <3>4. E # <<>>
      BY <2>9, EmptySeq
    <3> QED
      BY <2>4, <3>3, <3>4, TrimKeeps
  <2> DEFINE c == [m \in 1..N + 1 |-> IF m = 1 THEN 0 ELSE off[m] + 1]
             S == {0, Len(E) + 1} \cup {i \in DOMAIN E : E[i] = Comma}
  <2>11. /\ c[1] = 0 /\ c[N + 1] = Len(E) + 1
         /\ \A m \in 1..N : c[m] = off[m] + Gap(m) /\ c[m + 1] = off[m + 1] + 1
    <3>1. 1 \in 1..N + 1 /\ N + 1 \in 1..N + 1 /\ N + 1 # 1
      BY <1>1, <1>4
    <3>2. ASSUME NEW m \in 1..N PROVE c[m] = off[m] + Gap(m) /\ c[m + 1] = off[m + 1] + 1
      <4>1. m \in 1..N + 1 /\ m + 1 \in 1..N + 1 /\ m + 1 # 1
        BY <1>1
      <4> QED
        BY <2>6, <4>1
    <3> QED
      BY <2>9, <3>1, <3>2
  <2>12. Ascends(c, N + 1)
    <3>1. \A m \in 1..N + 1 : off[m] \in Nat
      BY <2>5 DEF LinedUp
    <3>2. c \in [1..N + 1 -> Int]
      BY <3>1
    <3>3. ASSUME NEW m \in 1..N + 1, NEW l \in 1..N + 1, m < l PROVE c[m] < c[l]
      <4>1. m \in 1..N /\ m + 1 <= l /\ m + 1 \in 1..N + 1 /\ l # 1
        BY <1>1, <3>3
      <4>2. off[m + 1] <= off[l]
        BY <2>5, <4>1 DEF LinedUp
      <4>3. c[l] = off[l] + 1
        BY <4>1
      <4>4. c[m] = off[m] + Gap(m) /\ off[m + 1] = off[m] + Gap(m) + Len(it(m))
        BY <2>6, <2>11, <4>1
      <4> HIDE DEF c
      <4> QED
        <5>1. /\ off[m] \in Nat /\ Gap(m) \in 0..1 /\ Len(it(m)) \in Nat /\ Len(it(m)) # 0
              /\ off[l] \in Nat
          BY <2>6, <3>1, <4>1
        <5> QED
          BY <4>2, <4>3, <4>4, <5>1
    <3> HIDE DEF c
    <3> QED
      BY <3>2, <3>3 DEF Ascends
  <2> HIDE DEF c
  <2>13. Listed(c, N + 1) = S
    <3>1. \A m \in 1..N + 1 : c[m] \in S
      <4>1. TAKE m \in 1..N + 1
      <4>2. CASE m = 1 \/ m = N + 1
        BY <2>11, <4>2
      <4>3. CASE m # 1 /\ m # N + 1
        <5>1. m \in 1..N
          BY <1>1, <4>3
        <5>2. c[m] = off[m] + 1
          BY <2>6, <2>11, <4>3, <5>1
        <5> QED
          BY <2>8, <2>9, <4>3, <5>1, <5>2
      <4> QED
        BY <4>2, <4>3
    <3>2. \A x \in S : \E m \in 1..N + 1 : x = c[m]
      <4>1. TAKE x \in S
      <4>2. CASE x \in {0, Len(E) + 1}
        <5>1. 1 \in 1..N + 1 /\ N + 1 \in 1..N + 1
          BY <1>1
        <5> QED
          BY <2>11, <4>2, <5>1
      <4>3. CASE x \notin {0, Len(E) + 1}
        <5>1. x \in 1..Len(E) /\ E[x] = Comma
          BY <2>9, <4>3
        <5>2. PICK n \in 1..N : off[n] < x /\ x <= off[n + 1]
          BY <2>5, <5>1 DEF LinedUp
        <5> DEFINE i == x - off[n] - Gap(n)
        <5>3. i \notin 1..Len(it(n))
          <6>1. SUFFICES ASSUME i \in 1..Len(it(n)) PROVE FALSE
            OBVIOUS
          <6>2. off[n] + Gap(n) + i = x
            BY <2>6, <5>1
          <6> HIDE DEF i
          <6>3. E[x] = it(n)[i]
            BY <2>7, <6>1, <6>2
          <6> QED
            BY <2>1, <5>1, <6>1, <6>3
        <5>4. x = off[n] + Gap(n)
          <6>1. /\ off[n] \in Nat /\ off[n + 1] = off[n] + Gap(n) + Len(it(n))
                /\ Gap(n) \in 0..1 /\ Len(it(n)) \in Nat
            BY <2>6, Zenon
          <6>2. \A o, l, y \in Nat : \A g \in 0..1 :
                    o < y /\ y <= o + g + l /\ y - o - g \notin 1..l => y = o + g
            OBVIOUS
          <6>3. x \in Nat /\ x <= off[n] + Gap(n) + Len(it(n))
            BY <5>1, <5>2, <6>1
          <6> QED
            BY <5>2, <5>3, <6>1, <6>2, <6>3, Zenon
        <5>5. n \in 1..N + 1
          BY <1>1
        <5> QED
          BY <2>11, <5>4, <5>5
      <4> QED
        BY <4>2, <4>3
    <3> HIDE DEF S
    <3> QED
      BY <3>1, <3>2, Zenon DEF Listed
  <2>14. Ordered(S) = c
    <3> HIDE DEF S
    <3>1. N + 1 \in Nat
      BY <1>1
    <3> QED
      BY <2>12, <2>13, <3>1, OrderedIs
  <2>15. Len(c) = N + 1
    <3>1. c \in [1..N + 1 -> Int]
      BY <2>12 DEF Ascends
    <3> QED
      BY <1>1, <3>1
  <2>16. \A n \in 1..N : SubSeq(E, c[n] + 1, c[n + 1] - 1) = it(n)
    <3>1. TAKE n \in 1..N
    <3> DEFINE o == off[n] + Gap(n)
    <3>2. c[n] = o /\ c[n + 1] = off[n + 1] + 1
      BY <2>11, Zenon
    <3>3. /\ off[n] \in Nat /\ off[n + 1] = o + Len(it(n)) /\ off[n + 1] \in Nat
          /\ Gap(n) \in 0..1 /\ Len(it(n)) \in Nat /\ off[n + 1] <= Len(E)
      BY <2>6, Zenon
    <3>4. o \in Nat
      BY <3>3
    <3>5. \A i \in 1..Len(it(n)) : E[o + i] = it(n)[i]
      BY <2>7, Zenon
    <3>6. it(n) \in Seq(Characters)
      BY <2>1, Zenon
    <3> HIDE DEF o
    <3>7. SubSeq(E, o + 1, o + Len(it(n))) = it(n)
      BY <2>4, <3>3, <3>4, <3>5, <3>6, Stretch
    <3>8. c[n + 1] - 1 = o + Len(it(n))
      BY <3>2, <3>3
    <3> QED
      BY <3>2, <3>7, <3>8, Zenon
  <2>17. \A d : d = Ordered(S) =>
             Items(E) = [n \in 1..Len(d) - 1 |-> trim(SubSeq(E, d[n] + 1, d[n + 1] - 1))]
    BY DEF Items
  <2> HIDE DEF S
  <2>18. Items(E) = [n \in 1..N |-> trim(SubSeq(E, c[n] + 1, c[n + 1] - 1))]
    <3>1. Len(c) - 1 = N
      BY <1>1, <2>15
    <3>2. Items(E) = [n \in 1..Len(c) - 1 |-> trim(SubSeq(E, c[n] + 1, c[n + 1] - 1))]
      BY <2>14, <2>17, Zenon
    <3> QED
      BY <3>1, <3>2, Zenon
  <2>19. DOMAIN Items(E) = 1..N /\ \A n \in 1..N : Items(E)[n] = it(n)
    <3>1. /\ DOMAIN Items(E) = 1..N
          /\ \A n \in 1..N : Items(E)[n] = trim(SubSeq(E, c[n] + 1, c[n + 1] - 1))
      BY <2>18
    <3>2. \A n \in 1..N : Items(E)[n] = trim(it(n))
      BY <2>16, <3>1, Zenon
    <3> QED
      BY <2>1, <3>1, <3>2, Zenon
  <2>20. TagsParse(E)
    BY <2>1, <2>10, <2>19 DEF TagsParse
  <2>21. parse_tags(E) = [n \in 1..N |-> parse_tag(Items(E)[n])]
    BY <2>10, <2>19 DEF parse_tags
  <2>22. parse_tags(E) = tags
    <3>1. \A n \in 1..N : parse_tag(Items(E)[n]) = tags[n]
      BY <2>1, <2>19
    <3>2. tags = [n \in 1..N |-> tags[n]]
      BY <1>1
    <3> QED
      BY <2>21, <3>1, <3>2
  <2> QED
    BY <1>2, <2>20, <2>22
<1> QED
  BY <1>3, <1>4

\* The text of a series in the editor denotes that series.
LEMMA TextDenotes ==
    ASSUME NEW s \in DOMAIN Series, Representable(s)
    PROVE  Text[s] \in Texts /\ current_series[Text[s]] = s
<1> DEFINE tags == Series[s].tags
           t == Text[s]
<1>1. tags \in Seq(Tag) /\ Len(tags) \in Nat /\ DOMAIN tags = 1..Len(tags)
  BY SeriesFacts, LenProperties
<1>2. \A n \in 1..Len(tags) : PlainTag(tags[n])
  <2>1. TAKE n \in 1..Len(tags)
  <2>2. tags[n] \in Tag
    BY <1>1, ElementOfSeq
  <2>3. tags[n].key # <<>>
    BY <1>1, SeriesAreKeys, Zenon
  <2>4. /\ Plain(tags[n].key) /\ EqualsSign \notin ToSet(tags[n].key)
        /\ Plain(tags[n].value)
    BY <1>1, Zenon DEF Representable
  <2> QED
    BY <2>2, <2>3, <2>4, Zenon DEF PlainTag
<1>3. TagsParse(encode_tags(tags)) /\ parse_tags(encode_tags(tags)) = tags
  BY <1>1, <1>2, EncodingParses
<1>4. t = [measurement |-> Series[s].measurement, tags |-> encode_tags(tags)]
  BY DEF Text
<1>5. t \in Texts
  BY TextsHold DEF Texts
<1>6. current_series[t] = 
          LET same == {r \in DOMAIN Series : /\ Series[r].measurement = t.measurement
                                             /\ Len(parse_tags(t.tags)) = Len(Series[r].tags)
                                             /\ ToSet(parse_tags(t.tags)) = ToSet(Series[r].tags)}
          IN  IF TagsParse(t.tags) /\ same # {} THEN CHOOSE r \in same : TRUE ELSE Invalid
  BY <1>5 DEF current_series
<1> DEFINE same == {r \in DOMAIN Series : /\ Series[r].measurement = Series[s].measurement
                                          /\ Len(tags) = Len(Series[r].tags)
                                          /\ ToSet(tags) = ToSet(Series[r].tags)}
<1>7. t.measurement = Series[s].measurement /\ t.tags = encode_tags(tags)
  BY <1>4
<1> HIDE DEF t
<1>8. current_series[t] = IF same # {} THEN CHOOSE r \in same : TRUE ELSE Invalid
  BY <1>3, <1>6, <1>7
<1>9. same = {s}
  <2>1. s \in same
    OBVIOUS
  <2>2. \A r \in same : r = s
    BY SeriesAreKeys
  <2> QED
    BY <2>1, <2>2
<1> HIDE DEF same
<1> QED
  BY <1>5, <1>8, <1>9 DEF t

\* The editor holds the text of the series that was selected last, or the text that
\* a put parsed to find it.
Follows(t, s) == t = Text[s] \/ current_series[t] = s

Chosen(s) == s # 0 /\ s \in DOMAIN Series

EditorInv ==
    /\ text \in Texts
    /\ known_series \in Seq(DOMAIN Series)
    /\ selected_series # 0 => Chosen(chosen)
    /\ text_from = "selection" /\ Chosen(chosen) /\ FitsEditor[chosen] => Follows(text, chosen)
    /\ text_from = "demo" => text = Text[Demo]

\* What a step may do to the selection without selecting, and to the text.
KeepsSelection ==
    \/ chosen' = chosen /\ selected_series' \in {0, selected_series}
    \/ chosen' = 0 /\ selected_series' = 0

KeepsText ==
    \/ UNCHANGED <<text, text_from>>
    \/ text_from' = "user"
    \/ text_from' = "demo" /\ text' = Text[Demo]

\* A step selects a series and sets the text to it if it fits, or it does not select.
EditorStep ==
    /\ text' \in Texts
    /\ known_series' \in Seq(DOMAIN Series)
    /\ \/ KeepsSelection /\ KeepsText
       \/ /\ text_from' = "selection"
          /\ Chosen(chosen')
          /\ FitsEditor[chosen'] => Follows(text', chosen')

LEMMA EditorStepKeeps ==
    ASSUME EditorInv, EditorStep
    PROVE  EditorInv'
BY DEF EditorInv, EditorStep, KeepsSelection, KeepsText, Follows, Chosen

LEMMA SeriesAreChosen ==
    ASSUME NEW s \in DOMAIN Series
    PROVE  Chosen(s)
<1>1. DOMAIN Series = 1..Len(Series) /\ Len(Series) \in Nat
  BY SeriesAreKeys
<1> QED
  BY <1>1 DEF Chosen

\* The operations that perform runs on an open database.
LEMMA EditorOperates ==
    ASSUME EditorInv, refresh_metadata \/ put_sample \/ query \/ generate_demo \/ maintain
    PROVE  EditorStep
<1>0. text \in Texts /\ known_series \in Seq(DOMAIN Series) /\ Text[Demo] \in Texts
  BY TextsHold, DemoIsSeries DEF EditorInv
<1>1. ASSUME NEW writes, Throw(writes) PROVE EditorStep
  BY <1>0, <1>1 DEF Throw, editor, EditorStep, KeepsSelection, KeepsText
<1>2. \A d : RefreshFrom(d) => known_series' \in Seq(DOMAIN Series)
  BY ListIsOfSeries DEF RefreshFrom
<1>3. CASE refresh_metadata \/ query \/ maintain
  <2>1. \/ \E writes : Throw(writes)
        \/ /\ (\E d : RefreshFrom(d)) \/ known_series' = known_series
           /\ selected_series' \in {0, selected_series}
           /\ UNCHANGED <<text, text_from, chosen>>
    <3>1. CASE refresh_metadata
      BY <3>1 DEF refresh_metadata, KeptIndex
    <3>2. CASE query
      BY <3>2 DEF query, metadata, editor
    <3>3. CASE maintain
      BY <3>3 DEF maintain, KeptIndex
    <3> QED
      BY <1>3, <3>1, <3>2, <3>3
  <2> QED
    BY <1>0, <1>1, <1>2, <2>1 DEF EditorStep, KeepsSelection, KeepsText
<1>4. CASE put_sample
  <2>1. \/ \E writes : Throw(writes)
        \/ /\ \E d : RefreshFrom(d)
           /\ current_series[text] # Invalid
           /\ select_known_series(current_series[text])
           /\ text' = text
    BY <1>4 DEF put_sample
  <2>2. ASSUME current_series[text] # Invalid, select_known_series(current_series[text]), text' = text
        PROVE  text_from' = "selection" /\ Chosen(chosen') /\ Follows(text', chosen')
    BY <1>0, <2>2, DenotesSeries, SeriesAreChosen DEF Follows, select_known_series
  <2> QED
    BY <1>0, <1>1, <1>2, <2>1, <2>2 DEF EditorStep
<1>5. CASE generate_demo
  <2>1. /\ text' = Text[Demo]
        /\ \/ (\E d : RefreshFrom(d)) /\ select_known_series(Demo)
           \/ /\ text_from' = "demo"
              /\ UNCHANGED <<known_series, selected_series, chosen>>
    BY <1>5 DEF generate_demo
  <2>2. select_known_series(Demo)
            => text_from' = "selection" /\ Chosen(chosen') /\ Follows(text', chosen')
    BY <2>1, DemoIsSeries, SeriesAreChosen DEF Follows, select_known_series
  <2> QED
    BY <1>0, <1>2, <2>1, <2>2 DEF EditorStep, KeepsSelection, KeepsText
<1> QED
  BY <1>3, <1>4, <1>5

\* A database that was just opened has its first series selected.
LEMMA EditorOpens ==
    ASSUME EditorInv, NEW i, OpenFinishes(i)
    PROVE  EditorStep
<1>0. text \in Texts
  BY DEF EditorInv
<1>1. known_series' \in Seq(DOMAIN Series)
  BY ListIsOfSeries DEF OpenFinishes, RefreshFrom
<1>2. CASE known_series' = <<>>
  BY <1>0, <1>1, <1>2 DEF OpenFinishes, editor, EditorStep, KeepsSelection, KeepsText
<1>3. CASE known_series' # <<>>
  <2> DEFINE s == known_series'[1]
  <2>1. chosen' = s /\ text' = set_text(text, s) /\ text_from' = "selection"
    BY <1>3 DEF OpenFinishes
  <2>2. s \in DOMAIN Series
    BY <1>1, <1>3, EmptySeq, LenProperties, ElementOfSeq
  <2> HIDE DEF s
  <2>3. text' \in Texts
    BY <1>0, <2>1, <2>2, TextsHold
  <2>4. FitsEditor[s] => text' = Text[s]
    BY <2>1, <2>2, SetTextFits
  <2> QED
    BY <1>1, <2>1, <2>2, <2>3, <2>4, SeriesAreChosen DEF EditorStep, Follows
<1> QED
  BY <1>2, <1>3

\* Every other step.
LEMMA EditorElse ==
    ASSUME EditorInv,
           \/ \E i \in Impls : \/ Open(i) \/ OpenLocks(i) \/ OpenThrows(i)
                               \/ OtherAdvances(i) \/ Destroys(i)
           \/ Close \/ Quit \/ Killed \/ Start \/ EditText \/ UNCHANGED viewvars
           \/ \E n \in DOMAIN known_series : Select(n) \/ SelectThrows(n)
           \/ \E h \in Others : run_maintenance(h) \/ \E s \in DOMAIN Series : run_put(h, s)
           \/ OtherLifetime \/ DamageBlock
    PROVE  EditorStep
<1>0. text \in Texts /\ known_series \in Seq(DOMAIN Series) /\ Text[Demo] \in Texts
  BY TextsHold, DemoIsSeries DEF EditorInv
<1>1. ASSUME UNCHANGED <<known_series, editor>> PROVE EditorStep
  BY <1>0, <1>1 DEF EditorStep, KeepsSelection, KeepsText, editor
<1>2. ASSUME NEW i \in Impls, \/ Open(i) \/ OpenLocks(i) \/ OpenThrows(i)
                              \/ OtherAdvances(i) \/ Destroys(i)
      PROVE  EditorStep
  BY <1>1, <1>2 DEF Open, OpenLocks, OpenThrows, OtherAdvances, Destroys, Throw,
                    gui, metadata, editor
<1>3. CASE Start \/ UNCHANGED viewvars \/ OtherLifetime \/ DamageBlock
  BY <1>1, <1>3 DEF Start, OtherLifetime, DamageBlock, viewvars, gui, metadata, editor
<1>4. ASSUME NEW h \in Others, run_maintenance(h) \/ \E s \in DOMAIN Series : run_put(h, s)
      PROVE  EditorStep
  BY <1>1, <1>4 DEF run_maintenance, run_put, gui, metadata, editor
<1>5. <<>> \in Seq(DOMAIN Series)
  BY EmptySeq
<1>6. ASSUME Ends PROVE EditorStep
  BY <1>0, <1>5, <1>6 DEF Ends, NoMetadata, EditorStep, KeepsSelection, KeepsText
<1>7. CASE Close \/ Quit \/ Killed
  BY <1>0, <1>5, <1>6, <1>7 DEF Close, Quit, Killed, NoMetadata, EditorStep,
                                KeepsSelection, KeepsText
<1>8. CASE EditText
  BY <1>0, <1>8, TextsHold DEF EditText, metadata, EditorStep, KeepsSelection, KeepsText
<1>9. ASSUME NEW n \in DOMAIN known_series, Select(n) \/ SelectThrows(n) PROVE EditorStep
  <2>1. CASE SelectThrows(n)
    BY <1>6, <2>1 DEF SelectThrows
  <2>2. CASE Select(n)
    <3> DEFINE s == known_series[n]
    <3>1. /\ FitsEditor[s] /\ chosen' = s /\ text' = set_text(text, s)
          /\ text_from' = "selection" /\ known_series' = known_series
      BY <2>2 DEF Select, metadata
    <3>2. s \in DOMAIN Series
      BY <1>0, LenProperties, ElementOfSeq
    <3> HIDE DEF s
    <3> QED
      BY <1>0, <3>1, <3>2, TextsHold, SetTextFits, SeriesAreChosen DEF EditorStep, Follows
  <2> QED
    BY <1>9, <2>1, <2>2
<1> QED
  BY <1>2, <1>3, <1>4, <1>7, <1>8, <1>9

LEMMA EditorInvariant == ViewSpec => []EditorInv
<1>1. ViewInit => EditorInv
  BY TextsHold, DemoIsSeries, EmptySeq DEF ViewInit, EditorInv
<1>2. EditorInv /\ [ViewNext]_viewvars => EditorInv'
  BY EditorOperates, EditorOpens, EditorElse, EditorStepKeeps DEF ViewNext, ViewAdvance
<1> QED
  BY <1>1, <1>2, PTL DEF ViewSpec

\* Unless the user typed, queries and puts go to the highlighted series, for any
\* series, texts and capacities: encode_tags and parse_tags are inverse on texts
\* without the separators, and the refreshes leave the editor alone because the
\* selection stays.  The exceptions are a first series that does not fit when the
\* database is opened, and a demo that threw: its series is in the editor.
THEOREM EditorFollowsSelection == ViewSpec => []EditorNamesSelection
<1>1. ViewInv /\ EditorInv => EditorNamesSelection
  <2> SUFFICES ASSUME ViewInv, EditorInv, selected_series # 0
               PROVE  EditorNamesSelection
    BY DEF EditorNamesSelection
  <2>1. known_series[selected_series] = chosen /\ Chosen(chosen)
    BY DEF ViewInv, SelectionIsStable, EditorInv
  <2>2. ASSUME text_from = "selection", FitsEditor[chosen], Representable(chosen)
        PROVE  current_series[text] = chosen
    <3>1. Follows(text, chosen) /\ chosen \in DOMAIN Series
      BY <2>1, <2>2 DEF EditorInv, Chosen
    <3>2. text = Text[chosen] => current_series[text] = chosen
      BY <2>2, <3>1, TextDenotes
    <3> QED
      BY <3>1, <3>2 DEF Follows
  <2>3. ASSUME text_from = "demo", Representable(Demo)
        PROVE  current_series[text] = Demo
    <3>1. text = Text[Demo]
      BY <2>3 DEF EditorInv
    <3> QED
      BY <2>3, <3>1, DemoIsSeries, TextDenotes
  <2> QED
    BY <2>1, <2>2, <2>3 DEF EditorNamesSelection
<1> QED
  BY <1>1, ViewInvariant, EditorInvariant, PTL

=============================================================================
