---------------------------- MODULE MCSendBatch ----------------------------
(* Small instances of SendBatch for TLC. *)
EXTENDS SendBatch, TLC

Symmetry == Permutations(Rows) \cup Permutations(Requests)
=============================================================================
