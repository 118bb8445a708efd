--------------------------- MODULE MCBrowserStore ---------------------------
(***************************************************************************)
(* Instances of BrowserStore for TLC: the faults of each run.              *)
(***************************************************************************)
EXTENDS BrowserStore

CONSTANTS ta, tb

KeptOpen   == FaultKinds \ {"abandon", "auth"}
FirstBoots == {"boot"}
=============================================================================
