------------------------------ MODULE MCWorker ------------------------------
(* Small workers for TLC: the constants are given by the .cfg files. *)
EXTENDS WorkerRefinement
=============================================================================
