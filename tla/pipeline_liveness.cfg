SPECIFICATION FairSpec
CONSTANTS
  m1 = m1
  m2 = m2
  m3 = m3
  m4 = m4
  m5 = m5
  c1 = c1
  c2 = c2
  c3 = c3
  Messages = {m1, m2}
  Conversations = {c1}
  ConvOf <- OneConversation
  BeforeCutoff = {}
  MaxGen = 2
  MaxCalls = 2
  MaxQueued = 0
  MaxQueueSize = 1
  MaxActive = 1
  MaxDrain = 2
  Faults <- LifecycleFaults
INVARIANTS AtMostOneRun
PROPERTIES VisibleIsClaimed ClaimedEnds
CHECK_DEADLOCK FALSE
