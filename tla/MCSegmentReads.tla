---------------------------- MODULE MCSegmentReads ----------------------------
(* Blocks of two samples and three timestamps: a series may fill two blocks. *)
EXTENDS SegmentReads

\* The key that comes first is the larger one.
MCKeySize == [s \in Series |-> IF s = 1 THEN 3 ELSE 1]

=============================================================================
