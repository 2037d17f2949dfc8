--------------------------- MODULE DatabaseOwnership ---------------------------
(***************************************************************************)
(* Who may touch the files of one database directory (src/src/database.cpp, *)
(* database_lock.cpp): the life of the Database objects of several          *)
(* processes, their Impl (a DatabaseLock, then a StorageEngine, destroyed   *)
(* in the opposite order), and the flock on the LOCK file.                  *)
(*                                                                         *)
(* A handle is a Database variable; it owns an Impl, or none once it has    *)
(* been moved from.  An Impl is on its way up ("opened", "locked"), up      *)
(* ("ready") or on its way down ("closing", "unlocking").                   *)
(***************************************************************************)
EXTENDS FiniteSets

CONSTANTS
    Processes,
    Handles,    \* the Database variables
    Impls,      \* the Database::Impl objects that may exist at one time
    process     \* process[h]: the process that variable h belongs to

ASSUME HandlesHaveProcesses == process \in [Handles -> Processes]

VARIABLES
    impl,       \* impl[h]: impl_, the set of at most one Impl that h owns
    stage,      \* stage[i]: where i is between construction and destruction
    maker,      \* maker[i]: the process in which i lives, if it exists
    flock       \* the Impls whose descriptor holds the lock of LOCK

vars == <<impl, stage, maker, flock>>

Stages == {"none", "opened", "locked", "ready", "closing", "unlocking"}

NoProcess == "none"

\* The stages in which the engine of an Impl exists: recovery, use, destruction.
HasEngine == {"locked", "ready", "closing"}

Init ==
    /\ impl = [h \in Handles |-> {}]
    /\ stage = [i \in Impls |-> "none"]
    /\ maker = [i \in Impls |-> NoProcess]
    /\ flock = {}

-----------------------------------------------------------------------------
(* Construction.                                                           *)

\* DatabaseLock::Impl opens the LOCK file.
OpenLockFile(p, i) ==
    /\ stage[i] = "none"
    /\ stage' = [stage EXCEPT ![i] = "opened"]
    /\ maker' = [maker EXCEPT ![i] = p]
    /\ UNCHANGED <<impl, flock>>

\* Mutant of LockDirectory: an error of flock is overlooked.
LockDirectoryUnchecked(i) ==
    /\ stage[i] = "opened"
    /\ flock' = IF flock = {} THEN {i} ELSE flock
    /\ stage' = [stage EXCEPT ![i] = "locked"]
    /\ UNCHANGED <<impl, maker>>

\* flock(LOCK_EX | LOCK_NB): either the lock, and the engine's recovery begins,
\* or an exception: DatabaseBusyError if the lock is held, or another error.
LockDirectory(i) ==
    /\ stage[i] = "opened"
    /\ \/ /\ flock = {}
          /\ flock' = {i}
          /\ stage' = [stage EXCEPT ![i] = "locked"]
          /\ UNCHANGED maker
       \/ /\ stage' = [stage EXCEPT ![i] = "none"]
          /\ maker' = [maker EXCEPT ![i] = NoProcess]
          /\ UNCHANGED flock
    /\ UNCHANGED impl

\* The engine is built and the Database owns the Impl.
FinishOpening(h, i) ==
    /\ stage[i] = "locked"
    /\ impl[h] = {}
    /\ process[h] = maker[i]
    /\ stage' = [stage EXCEPT ![i] = "ready"]
    /\ impl' = [impl EXCEPT ![h] = {i}]
    /\ UNCHANGED <<maker, flock>>

\* Mutant of FailOpening: the descriptor is not closed when recovery throws.
FailOpeningLeaks(i) ==
    /\ stage[i] = "locked"
    /\ stage' = [stage EXCEPT ![i] = "none"]
    /\ maker' = [maker EXCEPT ![i] = NoProcess]
    /\ UNCHANGED <<impl, flock>>

\* Recovery throws: the members built so far, the lock, are destroyed.
FailOpening(i) ==
    /\ stage[i] = "locked"
    /\ stage' = [stage EXCEPT ![i] = "unlocking"]
    /\ UNCHANGED <<impl, maker, flock>>

-----------------------------------------------------------------------------
(* Destruction and moves.                                                  *)

Closing(s, impls) == [i \in Impls |-> IF i \in impls THEN "closing" ELSE s[i]]

\* ~Database: the engine first, being declared last.
Destroy(h) ==
    /\ impl[h] # {}
    /\ impl' = [impl EXCEPT ![h] = {}]
    /\ stage' = Closing(stage, impl[h])
    /\ UNCHANGED <<maker, flock>>

\* Mutant of MoveTo: the Impl that is overwritten is forgotten.
MoveToForgets(from, to) ==
    /\ process[from] = process[to]
    /\ from # to
    /\ impl' = [impl EXCEPT ![to] = impl[from], ![from] = {}]
    /\ UNCHANGED <<stage, maker, flock>>

\* Move construction and move assignment: what the target owned is destroyed.
\* A move of a variable to itself changes nothing.
MoveTo(from, to) ==
    /\ process[from] = process[to]
    /\ from # to
    /\ impl' = [impl EXCEPT ![to] = impl[from], ![from] = {}]
    /\ stage' = Closing(stage, impl[to])
    /\ UNCHANGED <<maker, flock>>

\* Mutant of CloseEngine: the lock is the first member to go.
CloseEngineAfterLock(i) ==
    /\ stage[i] = "closing"
    /\ IF i \in flock
       THEN flock' = flock \ {i} /\ UNCHANGED <<stage, maker>>
       ELSE /\ stage' = [stage EXCEPT ![i] = "none"]
            /\ maker' = [maker EXCEPT ![i] = NoProcess]
            /\ UNCHANGED flock
    /\ UNCHANGED impl

\* ~StorageEngine has closed the log.
CloseEngine(i) ==
    /\ stage[i] = "closing"
    /\ stage' = [stage EXCEPT ![i] = "unlocking"]
    /\ UNCHANGED <<impl, maker, flock>>

\* ~DatabaseLock: flock(LOCK_UN) and close.
Unlock(i) ==
    /\ stage[i] = "unlocking"
    /\ flock' = flock \ {i}
    /\ stage' = [stage EXCEPT ![i] = "none"]
    /\ maker' = [maker EXCEPT ![i] = NoProcess]
    /\ UNCHANGED impl

\* A process ends, in whatever state: the system closes its descriptors.
Exit(p) ==
    LET gone == {i \in Impls : maker[i] = p}
    IN  /\ gone # {}
        /\ impl' = [h \in Handles |-> impl[h] \ gone]
        /\ stage' = [i \in Impls |-> IF i \in gone THEN "none" ELSE stage[i]]
        /\ maker' = [i \in Impls |-> IF i \in gone THEN NoProcess ELSE maker[i]]
        /\ flock' = flock \ gone

\* The steps that the code takes by itself once they are due.
Advance(i) ==
    \/ LockDirectory(i)
    \/ \E h \in Handles : FinishOpening(h, i)
    \/ FailOpening(i)
    \/ CloseEngine(i)
    \/ Unlock(i)

Next ==
    \/ \E p \in Processes, i \in Impls : OpenLockFile(p, i)
    \/ \E i \in Impls : Advance(i)
    \/ \E h \in Handles : Destroy(h)
    \/ \E h, g \in Handles : MoveTo(h, g)
    \/ \E p \in Processes : Exit(p)

Spec == Init /\ [][Next]_vars

\* The threads that construct and destroy are scheduled.
FairSpec == Spec /\ \A i \in Impls : WF_vars(Advance(i))

-----------------------------------------------------------------------------
(* Properties.                                                             *)

\* Every variable holds a value of its type.
TypeOK ==
    /\ impl \in [Handles -> SUBSET Impls]
    /\ stage \in [Impls -> Stages]
    /\ maker \in [Impls -> Processes \cup {NoProcess}]
    /\ flock \in SUBSET Impls

\* "Exactly one process may own a directory": at no time do two engines exist,
\* recovery and destruction included, whatever is moved or dies.
OneEngine ==
    \A i, j \in Impls : stage[i] \in HasEngine /\ stage[j] \in HasEngine => i = j

\* Every Impl that is up is owned by exactly one variable, and a variable owns
\* at most one: none is destroyed twice and none is forgotten.
OwnedOnce ==
    /\ \A i \in Impls : stage[i] = "ready" <=> \E h \in Handles : impl[h] = {i}
    /\ \A h, g \in Handles : impl[h] # {} /\ impl[h] = impl[g] => h = g

\* The lock is never left behind: when it is held by an Impl that no variable
\* owns, or that is not up, it is released in the end (or the Impl comes up).
LockIsReleased ==
    \A i \in Impls : (i \in flock /\ stage[i] # "ready") ~> (i \notin flock \/ stage[i] = "ready")

=============================================================================
