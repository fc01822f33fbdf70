------------------------------ MODULE MCMonitor ------------------------------
(***************************************************************************)
(* Monitor on small instances.                                             *)
(***************************************************************************)
EXTENDS Monitor
=============================================================================
