SPECIFICATION Spec
CONSTANTS
  n1 = n1
  n2 = n2
  m1 = m1
  m2 = m2
  e1 = e1
  e2 = e2
  Message = {m1}
  Entropy = {e1}
  Horizon = 3
  Notaries = {n1, n2}
  MaxWindow = 2
  MaxNonce = 3
SYMMETRY Symmetry
INVARIANT NextSessionAccepted
CHECK_DEADLOCK FALSE
