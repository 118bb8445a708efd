-------------------------- MODULE MCMessagePipeline --------------------------
(***************************************************************************)
(* Instances of MessagePipeline for TLC: which conversation each message   *)
(* belongs to, and which faults the environment of a run has.              *)
(***************************************************************************)
EXTENDS MessagePipeline, TLC

CONSTANTS m1, m2, m3, m4, m5, c1, c2, c3

OneConversation == [m \in Messages |-> c1]

\* m1 and m2 of c1, m3 of c2
TwoConversations == [m \in Messages |-> IF m = m3 THEN c2 ELSE c1]

\* three messages of c1, and one of each other conversation
ThreeConversations ==
  [m \in Messages |-> CASE m = m4 -> c2 [] m = m5 -> c3 [] OTHER -> c1]

\* the messages of c1 are interchangeable
PairSymmetry   == Permutations({m1, m2})
TripleSymmetry == Permutations({m1, m2, m3})

WorkFaults      == FaultKinds \ {"stop", "reconnect", "stale"}
LifecycleFaults == {"stop", "reconnect", "timeout", "stale"}
StaleOnly       == {"stale"}
==============================================================================
