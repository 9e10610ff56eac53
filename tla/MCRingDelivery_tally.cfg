SPECIFICATION RingBehaviour
CONSTANTS
  Accounts = {"ann", "bob", "cem"}
  Rings <- TwoRings
  Specs <- NoSpecs
  RingClerks = {1}
  MaxRings = 2
  MaxPlain = 1
INVARIANT TallyIsOfThisDocument
CHECK_DEADLOCK FALSE
