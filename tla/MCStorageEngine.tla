--------------------------- MODULE MCStorageEngine ---------------------------
(* StorageEngine with two keys, three puts and three generations.          *)
EXTENDS StorageEngineInvariants, TLC

CONSTANTS k1, k2

KeySymmetry == Permutations(Keys)

=============================================================================
