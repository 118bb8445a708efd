--------------------------- MODULE MCStoreManager ---------------------------
(***************************************************************************)
(* Instances of StoreManager for TLC: the faults of each run.              *)
(***************************************************************************)
EXTENDS StoreManager, TLC

CONSTANTS p1, p2

NetworkFaults == {"network", "stuck", "create"}
ChurnFaults   == {"status", "remove", "shutdown"}
=============================================================================
