SPECIFICATION DeliveriesSpec
CONSTANTS
  u1 = u1
  u2 = u2
  r1 = r1
  r2 = r2
  Keys = {"k1", "k2", "k3"}
  Canonical <- CanonicalOf
  Docs = {"d1"}
  Users = {u1, u2}
  Archive <- Brought
  Profiles <- Clients
  History = 1
  Clerks = {1, 2}
  MaxCodes = 2
  MaxForged = 1
  MaxRestarts = 1
  Accounts = {"ann", "bob"}
  Rings <- PairRings
  Specs <- BroughtSpecs
  RingClerks = {r1, r2}
  MaxRings = 1
  MaxPlain = 1
SYMMETRY Symmetry
INVARIANTS InboxSpeaksTrue RecentKeysOpen AttacksNeverPass RelayConserved OutboxSpeaksTrue TallyCountsAcceptances SharedWhereAligned OpenedByQuorum
CHECK_DEADLOCK FALSE
