---------------------------- MODULE MCSendQueue ----------------------------
(* Small instances of SendQueue for TLC. *)
EXTENDS SendQueueProps, TLC

Symmetry == Permutations(Rows) \cup Permutations(Workers) \cup Permutations(Sessions)
=============================================================================
