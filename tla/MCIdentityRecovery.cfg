SPECIFICATION DidSpec
CONSTANTS
  Agents = {"x"}
  People = {"o", "n"}
  Nobody = "nobody"
  Carriers = {}
  RecoveryDelay = 1
  ResurrectionDelay = 1
  MaxOffline = 0
  MaxGuardians = 1
  MaxTime = 3
  MaxEpoch = 1
  MaxRequests = 1
  MaxResurrections = 0
  Kinds = {"ephemeral"}
  MaxDepth = 0
  MaxPerAgent = 0
  MinInterval = 1
  MaxRevocations = 0
  MaxGrants = 1
INVARIANTS
  NothingOutlivesItsOwner
CHECK_DEADLOCK FALSE
