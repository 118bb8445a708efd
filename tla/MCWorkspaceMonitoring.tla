----------------------- MODULE MCWorkspaceMonitoring -----------------------
(***************************************************************************)
(* Instances of WorkspaceMonitoring for TLC: the faults of each run.       *)
(***************************************************************************)
EXTENDS WorkspaceMonitoring

CONSTANTS w1, r1

\* no call meets a stop; a reconnection may
ApartFaults == FaultKinds \ {"overlap"}
=============================================================================
