CONSTANTS
  v1 = v1
  v2 = v2
  v3 = v3
  NodeIds = {v1, v2}
  Operators = {op}
  Reporter = reporter
  BurnSink = sink
  Detector = detectorContract
  Admin = deployer
  Evidence <- MCEvidenceSet
  Stakes = {47}
  MinStake = 32
  MaxValidators = 2
  Lockup = 1
  DefaultCooldown = 1
  NewSlashers = {detectorContract}
  NewCooldowns = {0}
  Withdrawals = {1}
  MaxTime = 3
  MaxSlashes = 2
SPECIFICATION MCSpec
INVARIANTS
  ApprovedByElectorate
  RegistryIsExact
  OneSlashPerEquivocation
  EvidenceIsExact
PROPERTIES
  VotesKeepSetLegal
  LockupHolds
  NoFlushing
CHECK_DEADLOCK FALSE
