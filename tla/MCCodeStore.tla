---------------------------- MODULE MCCodeStore -----------------------------
(* Small code stores for TLC: the constants are given by the .cfg files. *)
EXTENDS CodeStore, TLC

Symmetry == Permutations(Versions)
=============================================================================
