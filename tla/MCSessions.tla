----------------------------- MODULE MCSessions -----------------------------
(***************************************************************************)
(* Instances of Sessions for TLC: the faults of the run.                   *)
(***************************************************************************)
EXTENDS Sessions

CONSTANTS ta, tb

EveryFault == FaultKinds
=============================================================================
