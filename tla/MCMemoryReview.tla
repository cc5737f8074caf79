--------------------------- MODULE MCMemoryReview ---------------------------
(* Constants of MemoryReview for TLC. *)
EXTENDS MemoryReview, TLC

Symmetry == Permutations(Node) \cup Permutations(Task)
=============================================================================
