SPECIFICATION Spec
CONSTANTS
  u1 = u1
  u2 = u2
  wa = wa
  wb = wb
  h1 = h1
  h2 = h2
  Users = {u1, u2}
  Workspaces = {wa, wb}
  Roles = {"admin", "member"}
  Handlers = {h1, h2}
  MaxInstances = 2
  MaxEdits = 0
  Faults <- OverlapFaults
SYMMETRY ObjectSymmetry
INVARIANT OwnerRemains
CHECK_DEADLOCK FALSE
