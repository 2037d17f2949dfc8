---------------------------- MODULE DurableStore ----------------------------
(***************************************************************************)
(* What the storage engine promises, with no log, segments, manifest or    *)
(* memory: a map from keys to values that changes by single writes, and a  *)
(* lower bound on what a power loss may take back.  Flushes, compactions,  *)
(* restarts and repairs do not appear at all: they must not be visible.    *)
(***************************************************************************)
EXTENDS Naturals

CONSTANTS
    Keys,     \* the (series, timestamp) pairs
    Values,   \* the values written, in the order of the writes: a set of numbers
    MayLose   \* can writes that nobody promised to keep be lost?

VARIABLES
    store,    \* store[k]: the value of k, 0 when k has none
    promised  \* promised[k]: the oldest value that k may fall back to

Init ==
    /\ store = [k \in Keys |-> 0]
    /\ promised = [k \in Keys |-> 0]

\* A put takes effect, all at once.
Write(k) ==
    /\ \E v \in Values : /\ \A j \in Keys : store[j] < v
                         /\ store' = [store EXCEPT ![k] = v]
    /\ UNCHANGED promised

\* A put, sync or flush returns: values that are in the store become durable.
Promise ==
    /\ UNCHANGED store
    /\ \A k \in Keys : promised[k] <= promised'[k] /\ promised'[k] <= store[k]

\* A power loss takes keys back to older values, never below the promise.
Lose ==
    /\ MayLose
    /\ \A k \in Keys : promised[k] <= store'[k] /\ store'[k] <= store[k]
    /\ UNCHANGED promised

Next == (\E k \in Keys : Write(k)) \/ Promise \/ Lose

Spec == Init /\ [][Next]_<<store, promised>>

=============================================================================
