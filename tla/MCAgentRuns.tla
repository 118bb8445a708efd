----------------------------- MODULE MCAgentRuns -----------------------------
(***************************************************************************)
(* Instances of AgentRuns for TLC: the conversations and the faults.       *)
(***************************************************************************)
EXTENDS AgentRuns, TLC

CONSTANTS m1, m2, m3, m4, c1, c2, c3

\* two messages of c1, and one of each other conversation
Conversation == [m \in Messages |-> CASE m = m3 -> c2 [] m = m4 -> c3 [] OTHER -> c1]

MessageSymmetry == Permutations({m1, m2})

RunFaults == FaultKinds \ {"dispose"}
==============================================================================
