------------------------------ MODULE MCDatabase ------------------------------
(* Model values and symmetry for the runs of Database.                     *)
EXTENDS Database, TLC

CONSTANTS k1, k2, t1, t2, t3

\* The key in the record of an idle thread is fixed, but no action reads it
\* before a call sets it, so permuting keys is sound.
KeyAndThreadSymmetry == Permutations(Keys) \cup Permutations(Threads)

=============================================================================
