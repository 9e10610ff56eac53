SPECIFICATION Spec
CONSTANTS
  u1 = u1
  u2 = u2
  u3 = u3
  h1 = h1
  Users = {u1, u2, u3}
  Sealants = {u1}
  Total = 2
  Threshold = 2
  Rosters <- Replaced
  Handlers = {h1}
  MaxSplits = 2
  MaxKeys = 1
  Exact = {1}
PROPERTY PledgeKept
CHECK_DEADLOCK FALSE
