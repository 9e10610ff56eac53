SPECIFICATION Spec
CONSTANTS
  n1 = n1
  n2 = n2
  m1 = m1
  m2 = m2
  e1 = e1
  e2 = e2
  p1 = p1
  p2 = p2
  Message = {m1, m2}
  Entropy = {e1}
  Horizon = 2
  Laptops = {n1}
  Seedings = {"pinned", "unset", "garbled"}
  Params = {p1, p2}
  DefaultParams = p1
  PersistMayFail = FALSE
  RingSize = 2
  MaxWindow = 3
  MaxBoots = 1
INVARIANTS NextSessionAccepted RingVerdictExact SpentSignaturesStayDead CoveredDocumentsOpen
SYMMETRY Symmetry
CHECK_DEADLOCK FALSE
