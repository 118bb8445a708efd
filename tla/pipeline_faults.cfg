SPECIFICATION Spec
CONSTANTS
  m1 = m1
  m2 = m2
  m3 = m3
  m4 = m4
  m5 = m5
  c1 = c1
  c2 = c2
  c3 = c3
  Messages = {m1, m2, m3}
  Conversations = {c1, c2}
  ConvOf <- TwoConversations
  BeforeCutoff = {}
  MaxGen = 2
  MaxCalls = 2
  MaxQueued = 1
  MaxQueueSize = 1
  MaxActive = 1
  MaxDrain = 2
  Faults <- WorkFaults
SYMMETRY PairSymmetry
INVARIANTS TypeOK ConversationSerial Accounted
PROPERTY HandlesOnce
CHECK_DEADLOCK FALSE
