------------------------- MODULE MCSnapshotExchange -------------------------
(* TLC instances of SnapshotExchange.                                         *)
EXTENDS SnapshotExchange, TLC

\* Readers are interchangeable in every safety property.
ReaderSymmetry == Permutations(Readers)
=============================================================================
