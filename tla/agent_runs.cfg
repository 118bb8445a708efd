SPECIFICATION Spec
CONSTANTS
  m1 = m1
  m2 = m2
  m3 = m3
  m4 = m4
  c1 = c1
  c2 = c2
  c3 = c3
  Messages = {m1, m2, m3}
  Conversations = {c1, c2}
  ConvOf <- Conversation
  MaxGen = 2
  MaxSessions = 1
  MaxActive = 2
  Faults <- RunFaults
SYMMETRY MessageSymmetry
INVARIANTS TypeOK CompletedOnce FailureIsTold PromptIsLive NoSessionLeak ResourcesComing
PROPERTY EvictionMakesRoom
CHECK_DEADLOCK FALSE
