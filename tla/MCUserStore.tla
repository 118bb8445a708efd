---------------------------- MODULE MCUserStore ----------------------------
(***************************************************************************)
(* Instances of UserStore for TLC: the faults of each run.                 *)
(***************************************************************************)
EXTENDS UserStore, TLC

CONSTANTS u1, u2, wa, wb, h1, h2

ApartFaults == FaultKinds \ {"overlap"}
OverlapFaults == {"overlap"}
ObjectSymmetry == Permutations(Users) \cup Permutations(Workspaces) \cup Permutations(Handlers)
=============================================================================
