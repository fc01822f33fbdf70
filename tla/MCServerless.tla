---------------------------- MODULE MCServerless ----------------------------
(***************************************************************************)
(* Serverless, and the service it implements, on small instances.          *)
(***************************************************************************)
EXTENDS ServerlessService, TLC

ReqSymmetry == Permutations(Reqs \ Leavers) \cup Permutations(Leavers)
=============================================================================
