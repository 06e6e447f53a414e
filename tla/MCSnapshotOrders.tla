-------------------------- MODULE MCSnapshotOrders --------------------------
(* TLC instances of SnapshotOrders.                                           *)
EXTENDS SnapshotOrders, TLC

ReaderSymmetry == Permutations(Readers)
=============================================================================
