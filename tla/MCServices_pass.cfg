SPECIFICATION ServicesSpec
CONSTANTS
  n1 = n1
  m1 = m1
  m2 = m2
  e1 = e1
  e2 = e2
  Message = {m1, m2}
  Entropy = {e1, e2}
  Horizon = 2
  Notaries = {n1}
  MaxWindow = 4
  MaxNonce = 5
  Names = {"ann", "bob"}
  MaxUsers = 2
  Doors = {1, 2}
  MaxTokens = 1
  MaxBoots = 1
  MaxTries = 3
  Capacity = 2
  Scenarios = 1
  Viewers = {1}
  MaxRuns = 2
  MaxSifted = 9
  Orders <- TwoOrders
  Scheduled = 3
  Extra = 5
  Pulses = 2
  C1 = 10
  C2 = 25
  Room = 2
  Lifetime = 2
  Judges = {1, 2}
  MaxRounds = 4
  MaxTime = 2
  Threads = {1, 2}
  People = {"ann", "bob"}
INVARIANTS AcceptedOnce DelayedStillAccepted AccountsSurvive SessionsHaveAccounts BackoffHolds LateViewerCatchesUp DoneAfterResults ErrorsAccounted BlocksSettled YoungRoundsStay RevealedOnce VerdictsFollowDamage
PROPERTIES EndIsHeardOf EveryRequestIsAnswered
CHECK_DEADLOCK FALSE
