----------------------------- MODULE MCStartOne -----------------------------
(* The command One for TLC: the constants are given by the .cfg files. *)
EXTENDS StartOne, TLC
=============================================================================
