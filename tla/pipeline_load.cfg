SPECIFICATION Spec
CONSTANTS
  m1 = m1
  m2 = m2
  m3 = m3
  m4 = m4
  m5 = m5
  c1 = c1
  c2 = c2
  c3 = c3
  Messages = {m1, m2, m3, m4, m5}
  Conversations = {c1, c2, c3}
  ConvOf <- ThreeConversations
  BeforeCutoff = {}
  MaxGen = 1
  MaxCalls = 2
  MaxQueued = 0
  MaxQueueSize = 1
  MaxActive = 3
  MaxDrain = 4
  Faults <- StaleOnly
SYMMETRY TripleSymmetry
INVARIANTS CapRespected QueueHasRunner
PROPERTY RunsInPostOrder
CHECK_DEADLOCK FALSE
