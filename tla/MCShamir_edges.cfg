SPECIFICATION SplitSpec
CONSTANTS
  P = 251
  Bytes <- EdgeBytes
  Coefs <- EdgeCoefs
  Quorums <- Quorums251
INVARIANT QuorumAlwaysRestores
CHECK_DEADLOCK FALSE
