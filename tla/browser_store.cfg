SPECIFICATION FairSpec
CONSTANTS
  ta = ta
  tb = tb
  Tabs = {ta, tb}
  MaxTokens = 2
  MaxRequests = 2
  Threshold = 2
  Faults <- KeptOpen
INVARIANTS TypeOK
PROPERTIES RestartEnds RepairRuns
CHECK_DEADLOCK FALSE
