SPECIFICATION FairSpec
CONSTANTS
  w1 = w1
  r1 = r1
  Workspaces = {w1}
  Configured = {}
  Requests = {r1}
  MaxStores = 3
  MaxAttempts = 2
  MaxRestarts = 1
  Faults <- ApartFaults
INVARIANTS TypeOK MonitoredIsHeard
PROPERTY FollowsDirectory
