------------------------------ MODULE ChronoView ------------------------------
(***************************************************************************)
(* ChronoView (src/tools/chronoview/main.cpp) and the other programs that  *)
(* use a database directory, the command line tool among them              *)
(* (src/tools/chronostore_cli/main.cpp), over the lock of                  *)
(* DatabaseOwnership: every step that concerns a Database object is a step *)
(* of that module.                                                         *)
(*                                                                         *)
(* The engine is what its callers see: the keys it stores, the calls that  *)
(* fail it, and the calls that throw because a block is damaged, which     *)
(* does not fail it.  A series is its position in Series; its strings are  *)
(* sequences of characters.  Query results are shown and never read back,  *)
(* so they are left out.                                                   *)
(***************************************************************************)
EXTENDS DatabaseOwnership, Lists, Sequences, SequencesExt

CONSTANTS
    Gui,                  \* the process of ChronoView
    database_,            \* its Database variable
    Series,               \* the series there are, in the order of operator<=>
    Characters,           \* the characters there are
    Demo,                 \* the position of the series of Generate demo
    Typed,                \* the texts a user types into the editor
    MeasurementCapacity,  \* measurement_capacity
    TagsCapacity,         \* tags_capacity
    Threshold,            \* flush_threshold_samples
    MaxSamples,           \* bound: stored keys
    MaxDamage             \* bound: damaged keys

\* The loop of Generate demo has two rounds; every other put writes at time 1.
demo_sample_count == 2

ASSUME GuiHasOneHandle ==
    /\ Gui \in Processes
    /\ database_ \in Handles
    /\ \A h \in Handles : process[h] = Gui <=> h = database_
ASSUME DemoIsSeries == Demo \in DOMAIN Series

Tag == [key : Seq(Characters), value : Seq(Characters)]

\* The characters that the text of tags uses itself; Space is any that trim removes.
Space      == " "
Comma      == ","
EqualsSign == "="

\* Series are keys, no two of them equal: the constructors of Tag and SeriesKey reject
\* empty keys of tags, and put the tags in order.
ASSUME SeriesAreKeys ==
    /\ {Space, Comma, EqualsSign} \subseteq Characters
    /\ Series \in Seq([measurement : Seq(Characters), tags : Seq(Tag)])
    /\ \A s \in DOMAIN Series : \A n \in DOMAIN Series[s].tags : Series[s].tags[n].key # <<>>
    /\ \A s, t \in DOMAIN Series :
          /\ Series[s].measurement = Series[t].measurement
          /\ Len(Series[s].tags) = Len(Series[t].tags)
          /\ ToSet(Series[s].tags) = ToSet(Series[t].tags)
          => s = t
    /\ Typed \subseteq [measurement : Seq(Characters), tags : Seq(Characters)]

VARIABLES
    db,               \* the keys <<series, time>> of the segments (flushed), of the log
                      \* and the memtable (unflushed) and of damaged blocks (bad)
    failed,           \* the Impls whose engine has failed
    running,          \* does the process of ChronoView exist?
    known_series,
    selected_series,  \* an index of known_series, or 0
    stats,
    text,             \* the texts of the editor, measurement_ and tags_
    status_is_error,
    chosen,           \* the series that was selected last, or 0
    text_from,        \* what the text comes from: "selection", of its series or of what it
                      \* named in a put; "user", who typed since; "demo", which sets it first
    cut_short         \* did a call that writes throw since the metadata was read?

metadata == <<known_series, stats, cut_short>>
editor   == <<selected_series, text, chosen, text_from>>
gui      == <<running, metadata, editor, status_is_error>>
viewvars == <<vars, db, failed, gui>>

-----------------------------------------------------------------------------
(* Text.                                                                   *)

Invalid == 0

trim(s) ==
    LET solid == {i \in DOMAIN s : s[i] # Space}
    IN  IF solid = {} THEN <<>> ELSE SubSeq(s, Min(solid), Max(solid))

\* The parts of s between commas.
Items(s) ==
    LET cuts == Ordered({0, Len(s) + 1} \cup {i \in DOMAIN s : s[i] = Comma})
    IN  [n \in 1 .. Len(cuts) - 1 |-> trim(SubSeq(s, cuts[n] + 1, cuts[n + 1] - 1))]

\* The position of the first "=", 0 if there is none.
Equals(item) == SelectInSeq(item, LAMBDA c : c = EqualsSign)

parse_tag(item) == [key   |-> trim(SubSeq(item, 1, Equals(item) - 1)),
                    value |-> trim(SubSeq(item, Equals(item) + 1, Len(item)))]

\* The tags in the order of the text.
parse_tags(encoded) ==
    LET s == trim(encoded)
    IN  IF s = <<>> THEN <<>> ELSE [n \in DOMAIN Items(s) |-> parse_tag(Items(s)[n])]

TagsParse(encoded) ==
    LET s == trim(encoded) IN s # <<>> => \A n \in DOMAIN Items(s) : Equals(Items(s)[n]) > 1

\* Mutant of encode_tags: the separator is left out.
encode_tags_unseparated(tags) ==
    FlattenSeq([n \in DOMAIN tags |-> tags[n].key \o <<EqualsSign>> \o tags[n].value])

encode_tags(tags) ==
    FlattenSeq([n \in DOMAIN tags |-> (IF n = 1 THEN <<>> ELSE <<Comma>>)
                                        \o (tags[n].key \o <<EqualsSign>> \o tags[n].value)])

FitsMeasurement == [s \in DOMAIN Series |-> Len(Series[s].measurement) < MeasurementCapacity]
FitsTags        == [s \in DOMAIN Series |-> Len(encode_tags(Series[s].tags)) < TagsCapacity]
FitsEditor      == [s \in DOMAIN Series |-> FitsMeasurement[s] /\ FitsTags[s]]

\* The text of s in the editor.
Text == [s \in DOMAIN Series |-> [measurement |-> Series[s].measurement,
                                  tags        |-> encode_tags(Series[s].tags)]]

\* set_text of the two fields: the first one that does not fit ends it.
set_text(old, s) ==
    [measurement |-> IF FitsMeasurement[s] THEN Text[s].measurement ELSE old.measurement,
     tags        |-> IF FitsEditor[s] THEN Text[s].tags ELSE old.tags]

\* The texts that the two fields can hold.
Texts == LET all == Typed \cup Range(Text)
         IN  [measurement : {t.measurement : t \in all}, tags : {t.tags : t \in all}]

\* The SeriesKey that the editor denotes, whose constructor sorts the tags; Invalid
\* if parse_tags or a constructor throws.
current_series ==
    [t \in Texts |->
        LET tags == parse_tags(t.tags)
            same == {s \in DOMAIN Series : /\ Series[s].measurement = t.measurement
                                           /\ Len(tags) = Len(Series[s].tags)
                                           /\ ToSet(tags) = ToSet(Series[s].tags)}
        IN  IF TagsParse(t.tags) /\ same # {} THEN CHOOSE s \in same : TRUE ELSE Invalid]

-----------------------------------------------------------------------------
(* The engine as its callers see it: what a call may do to d.              *)

Returns(d) == [ok |-> TRUE, fails |-> FALSE, db |-> d]
Throws(d)  == [ok |-> FALSE, fails |-> FALSE, db |-> d]
Fails(d)   == [ok |-> FALSE, fails |-> TRUE, db |-> d]

Stored(d) == d.flushed \cup d.unflushed

Flush(d) ==
    LET done == [flushed |-> Stored(d), unflushed |-> {}, bad |-> d.bad]
    IN  {Returns(done), Fails(d), Fails(done)}

\* sync and compact do not change what is stored.
Maintain(d) == {Returns(d), Fails(d)} \cup Flush(d)

\* contains may find its block damaged before anything is written.
Put(d, key) ==
    LET done == [d EXCEPT !.unflushed = @ \cup {key}]
    IN  IF key \in d.bad \ d.unflushed THEN {Throws(d)}
        ELSE {Fails(d), Fails(done)}
               \cup IF Threshold # 0 /\ Cardinality(done.unflushed) >= Threshold
                    THEN Flush(done) ELSE {Returns(done)}

\* A call and, if it returns, the next one.
Then(outcomes, Call(_)) == UNION {IF o.ok THEN Call(o.db) ELSE {o} : o \in outcomes}

\* Every call of a failed engine throws.
Calls(i, outcomes) == IF i \in failed THEN {Throws(db)} ELSE outcomes

Becomes(i, o) == db' = o.db /\ failed' = IF o.fails THEN failed \cup {i} ELSE failed

-----------------------------------------------------------------------------
(* GuiState.                                                               *)

\* The given series in the order of operator<=>.
InOrder(S) == Ordered(S \cap DOMAIN Series)

series_of(d) == InOrder({key[1] : key \in Stored(d)})
stats_of(d)  == [sample_count          |-> Cardinality(Stored(d)),
                 memtable_sample_count |-> Cardinality(d.unflushed)]

NoStats == [sample_count |-> 0, memtable_sample_count |-> 0]

\* What refresh_metadata reads; it keeps the selected index if there is still one.
RefreshFrom(d) ==
    /\ known_series' = series_of(d)
    /\ stats' = stats_of(d)
    /\ cut_short' = FALSE

KeptIndex == IF selected_series > Len(known_series') THEN 0 ELSE selected_series

Throw(writes) ==
    /\ status_is_error' = TRUE
    /\ cut_short' = (cut_short \/ writes)
    /\ UNCHANGED <<running, known_series, stats, editor>>

\* Mutant of select_known_series: the index is kept.
select_known_series_not(s) ==
    /\ selected_series' = KeptIndex
    /\ chosen' = s
    /\ text_from' = "selection"

\* The index of s among the series just read.
select_known_series(s) ==
    /\ selected_series' = SelectInSeq(known_series', LAMBDA other : other = s)
    /\ chosen' = s
    /\ text_from' = "selection"

NoMetadata == /\ known_series' = <<>>
              /\ selected_series' = 0
              /\ stats' = NoStats
              /\ cut_short' = FALSE
              /\ chosen' = 0
              /\ status_is_error' = FALSE

Connected == impl[database_] # {}

\* The only thread of ChronoView is inside the constructor or destructor of Database.
Busy == \E i \in Impls : maker[i] = Gui /\ stage[i] \notin {"none", "ready"}

Ready == running /\ ~Busy

ViewInit ==
    /\ Init
    /\ db = [flushed |-> {}, unflushed |-> {}, bad |-> {}]
    /\ failed = {}
    /\ running = TRUE
    /\ known_series = <<>>
    /\ selected_series = 0
    /\ stats = NoStats
    /\ text = Text[Demo]
    /\ status_is_error = FALSE
    /\ chosen = 0
    /\ text_from = "demo"
    /\ cut_short = FALSE

\* A step of the life of Database objects: an engine that goes takes failed_ along.
Lifetime(step) ==
    /\ step
    /\ failed' = {i \in failed : stage'[i] \in HasEngine}
    /\ UNCHANGED db

-----------------------------------------------------------------------------
(* Opening and closing.                                                    *)

\* The Open button, or a path on the command line.
Open(i) ==
    /\ Ready
    /\ ~Connected
    /\ Lifetime(OpenLockFile(Gui, i))
    /\ UNCHANGED gui

OpenLocks(i) ==
    /\ maker[i] = Gui
    /\ Lifetime(LockDirectory(i) /\ i \in flock')
    /\ UNCHANGED gui

OpenThrows(i) ==
    /\ maker[i] = Gui
    /\ Lifetime((LockDirectory(i) /\ i \notin flock') \/ FailOpening(i))
    /\ Throw(FALSE)

\* The Database is there; refresh_metadata, and select_series(0) if it found any.
OpenFinishes(i) ==
    /\ Lifetime(FinishOpening(database_, i))
    /\ RefreshFrom(db)
    /\ IF known_series' = <<>>
       THEN status_is_error' = FALSE /\ UNCHANGED editor
       ELSE LET s == known_series'[1]
            IN  /\ selected_series' = 1
                /\ chosen' = s
                /\ text' = set_text(text, s)
                /\ text_from' = "selection"
                /\ status_is_error' = ~FitsEditor[s]
    /\ UNCHANGED running

\* close_database.
Close ==
    /\ Ready
    /\ Lifetime(Destroy(database_))
    /\ NoMetadata
    /\ UNCHANGED <<running, text, text_from>>

\* The window is closed, or the exception of a handler outside perform leaves main.
Ends ==
    /\ Lifetime(IF Connected THEN Destroy(database_) ELSE UNCHANGED vars)
    /\ NoMetadata
    /\ running' = FALSE
    /\ text' = Text[Demo]
    /\ text_from' = "demo"

Quit == Ready /\ Ends

\* The process is killed: in whatever state.
Killed ==
    /\ Lifetime(Exit(Gui))
    /\ NoMetadata
    /\ running' = FALSE
    /\ text' = Text[Demo]
    /\ text_from' = "demo"

Start ==
    /\ ~running
    /\ ~Busy
    /\ running' = TRUE
    /\ UNCHANGED <<vars, db, failed, metadata, editor, status_is_error>>

-----------------------------------------------------------------------------
(* The editor and the list of series.                                      *)

EditText ==
    /\ Ready
    /\ Connected
    /\ text' \in Typed
    /\ text_from' = "user"
    /\ UNCHANGED <<vars, db, failed, running, metadata, selected_series, chosen, status_is_error>>

\* select_series of the clicked entry, outside perform.
Select(n) ==
    /\ Ready
    /\ n \in DOMAIN known_series
    /\ FitsEditor[known_series[n]]
    /\ selected_series' = n
    /\ chosen' = known_series[n]
    /\ text' = set_text(text, known_series[n])
    /\ text_from' = "selection"
    /\ UNCHANGED <<vars, db, failed, running, metadata, status_is_error>>

SelectThrows(n) ==
    /\ Ready
    /\ n \in DOMAIN known_series
    /\ ~FitsEditor[known_series[n]]
    /\ Ends

-----------------------------------------------------------------------------
(* The operations that perform runs on an open database.                   *)

Engine == CHOOSE i \in Impls : impl[database_] = {i}

Operating == Ready /\ Connected /\ UNCHANGED <<vars, running>>

\* The Refresh button.
refresh_metadata ==
    /\ Operating
    /\ \/ /\ Engine \notin failed
          /\ RefreshFrom(db)
          /\ selected_series' = KeptIndex
          /\ status_is_error' = FALSE
          /\ UNCHANGED <<text, chosen, text_from>>
       \/ Engine \in failed /\ Throw(FALSE)
    /\ UNCHANGED <<db, failed>>

\* The text or the value may be rejected before anything is written.
put_sample ==
    LET s == current_series[text]
    IN  /\ Operating
        /\ \/ /\ s # Invalid
              /\ Cardinality(Stored(db) \cup {<<s, 1>>}) <= MaxSamples
              /\ \E o \in Calls(Engine, Put(db, <<s, 1>>)) :
                    /\ Becomes(Engine, o)
                    /\ \/ /\ o.ok
                          /\ RefreshFrom(o.db)
                          /\ select_known_series(s)
                          /\ status_is_error' = FALSE
                          /\ UNCHANGED text
                       \/ ~o.ok /\ Throw(TRUE)
           \/ Throw(FALSE) /\ UNCHANGED <<db, failed>>

\* query_point, query_latest and query_range.
query ==
    LET s == current_series[text]
        readable == s # Invalid /\ Engine \notin failed
    IN  /\ Operating
        /\ \/ /\ readable
              /\ status_is_error' = FALSE
              /\ UNCHANGED <<metadata, editor>>
           \/ ~readable /\ Throw(FALSE)
           \/ readable /\ (\E key \in db.bad : key[1] = s) /\ Throw(FALSE)
        /\ UNCHANGED <<db, failed>>

\* The n-th put, after the ones before it.
DemoPut(outcomes, n) == LET PutNext(d) == Put(d, <<Demo, n>>) IN Then(outcomes, PutNext)

\* The puts, then the flush.
DemoPuts ==
    LET puts[n \in 0..demo_sample_count] ==
            IF n = 0 THEN {Returns(db)} ELSE DemoPut(puts[n - 1], n)
    IN  Then(puts[demo_sample_count], Flush)

\* The text is set first and the range shown last: either may outlive a throw of
\* what lies between.
generate_demo ==
    /\ Operating
    /\ Cardinality(Stored(db) \cup {<<Demo, n>> : n \in 1..demo_sample_count}) <= MaxSamples
    /\ text' = Text[Demo]
    /\ \E o \in Calls(Engine, DemoPuts) :
          /\ Becomes(Engine, o)
          /\ \/ /\ o.ok
                /\ RefreshFrom(o.db)
                /\ select_known_series(Demo)
                /\ status_is_error' = \E key \in o.db.bad : key[1] = Demo
             \/ /\ ~o.ok
                /\ status_is_error' = TRUE
                /\ cut_short' = TRUE
                /\ text_from' = "demo"
                /\ UNCHANGED <<known_series, stats, selected_series, chosen>>

\* sync, flush and compact.
maintain ==
    /\ Operating
    /\ \E o \in Calls(Engine, Maintain(db)) :
          /\ Becomes(Engine, o)
          /\ \/ /\ o.ok
                /\ RefreshFrom(o.db)
                /\ selected_series' = KeptIndex
                /\ status_is_error' = FALSE
                /\ UNCHANGED <<text, chosen, text_from>>
             \/ ~o.ok /\ Throw(TRUE)

-----------------------------------------------------------------------------
(* The other programs.                                                     *)

Others == Handles \ {database_}

\* run_put, and put of any program.
run_put(h, s) ==
    /\ Cardinality(Stored(db) \cup {<<s, 1>>}) <= MaxSamples
    /\ \E i \in impl[h], o \in Put(db, <<s, 1>>) : i \notin failed /\ Becomes(i, o)
    /\ UNCHANGED <<vars, gui>>

run_maintenance(h) ==
    /\ \E i \in impl[h], o \in Maintain(db) : i \notin failed /\ Becomes(i, o)
    /\ UNCHANGED <<vars, gui>>

\* Main of the command line tool opens a Database before it parses the rest, and
\* destroys it on every way out.
OtherLifetime ==
    /\ Lifetime(\/ \E p \in Processes \ {Gui}, i \in Impls : OpenLockFile(p, i)
                \/ \E h \in Others : Destroy(h)
                \/ \E h, g \in Others : MoveTo(h, g)
                \/ \E p \in Processes \ {Gui} : Exit(p))
    /\ UNCHANGED gui

OtherAdvances(i) ==
    /\ maker[i] # Gui
    /\ Lifetime(\/ LockDirectory(i)
                \/ \E h \in Others : FinishOpening(h, i)
                \/ FailOpening(i))
    /\ UNCHANGED gui

\* The destructor of an Impl, whoever runs it.
Destroys(i) == Lifetime(CloseEngine(i) \/ Unlock(i)) /\ UNCHANGED gui

\* The medium damages a block, which only a read of it finds.
DamageBlock ==
    /\ Cardinality(db.bad) < MaxDamage
    /\ \E key \in db.flushed : db' = [db EXCEPT !.bad = @ \cup {key}]
    /\ UNCHANGED <<vars, failed, gui>>

ViewAdvance(i) ==
    OpenLocks(i) \/ OpenThrows(i) \/ OpenFinishes(i) \/ OtherAdvances(i) \/ Destroys(i)

ViewNext ==
    \/ \E i \in Impls : Open(i) \/ ViewAdvance(i)
    \/ Close \/ Quit \/ Killed \/ Start
    \/ EditText
    \/ \E n \in DOMAIN known_series : Select(n) \/ SelectThrows(n)
    \/ refresh_metadata \/ put_sample \/ query \/ generate_demo \/ maintain
    \/ \E h \in Others : run_maintenance(h) \/ \E s \in DOMAIN Series : run_put(h, s)
    \/ OtherLifetime
    \/ DamageBlock

ViewSpec == ViewInit /\ [][ViewNext]_viewvars

\* The threads that construct and destroy are scheduled.
ViewFairSpec == ViewSpec /\ \A i \in Impls : WF_viewvars(ViewAdvance(i))

-----------------------------------------------------------------------------
(* Properties.                                                             *)

\* The panel shows the database as it is, whatever other programs write between
\* two of its openings: only an operation that threw half way, a demo cut short
\* by a damaged block for example, leaves it behind, until the next refresh.
MetadataIsCurrent ==
    Connected /\ ~cut_short => known_series = series_of(db) /\ stats = stats_of(db)

\* The highlighted entry is the series that was selected last, although the
\* selection is kept as an index and puts insert series before it.
SelectionIsStable ==
    selected_series # 0 => known_series[selected_series] = chosen

\* The texts that parse_tags reads as they were meant.
Plain(s) == trim(s) = s /\ Comma \notin ToSet(s)

Representable(s) ==
    \A n \in DOMAIN Series[s].tags :
        /\ Plain(Series[s].tags[n].key) /\ EqualsSign \notin ToSet(Series[s].tags[n].key)
        /\ Plain(Series[s].tags[n].value)

\* Queries and puts parse the text of the editor.  Unless the user typed, it denotes
\* the highlighted series, with two exceptions: opening a database highlights its
\* first series also if that does not fit, and leaves other tags in the editor; and
\* a demo that throws half way leaves the demo's series in the editor, whichever is
\* highlighted.
EditorNamesSelection ==
    selected_series # 0 =>
        LET s == known_series[selected_series]
        IN  /\ text_from = "selection" /\ FitsEditor[s] /\ Representable(s)
               => current_series[text] = s
            /\ text_from = "demo" /\ Representable(Demo) => current_series[text] = Demo

=============================================================================
