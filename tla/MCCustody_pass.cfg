SPECIFICATION CustodySpec
CONSTANTS
  u1 = u1
  u2 = u2
  h1 = h1
  h2 = h2
  Users = {u1, u2}
  Sealants = {u1, u2}
  Total = 2
  Threshold = 2
  Rosters <- Swapped
  Handlers = {h1, h2}
  MaxSplits = 2
  MaxKeys = 2
  Exact = {1}
  P = 7
  Bytes = {0, 1, 2, 3, 4, 5, 6, 7, 8}
  Coefs <- AllCoefs
  Quorums <- QuorumsSmall
SYMMETRY Symmetry
INVARIANTS TypeOK VerdictExact OfficersDistinct QuorumRestores SharesHideByte
CHECK_DEADLOCK FALSE
