SPECIFICATION Spec
CONSTANTS
  ta = ta
  tb = tb
  Tabs = {ta}
  MaxTokens = 2
  MaxRequests = 2
  Threshold = 2
  Faults <- FirstBoots
PROPERTIES ResetsOnce
CHECK_DEADLOCK FALSE
