---------------------------- MODULE MCFileStore ----------------------------
(* Constants of FileStore for TLC. *)
EXTENDS FileStore, TLC

Symmetry == Permutations(Task) \cup Permutations(Path)

(* Contents may be exchanged too where none of them is binary. *)
TextSymmetry == Symmetry \cup Permutations(Content)
=============================================================================
