SPECIFICATION FairSpec
CONSTANTS
  ta = ta
  tb = tb
  Tabs = {ta, tb}
  MaxVersion = 1
  MaxCalls = 2
  MaxWatched = 1
  Faults <- EveryFault
INVARIANTS TypeOK SessionSurvives
PROPERTIES RemovedIsRefused TabsFollowStorage CallsEnd
CHECK_DEADLOCK FALSE
