------------------------------- MODULE MCCiRuns -------------------------------
(* Instances of CiRuns for TLC. *)
EXTENDS CiRuns, MCLifecycle
==============================================================================
