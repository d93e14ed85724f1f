CONSTANTS
  own = own
  op1 = op1
  op2 = op2
  n1 = n1
  n2 = n2
  Owner <- own
  Foundation <- own
  Accounts = {own, op1, op2}
  NodeIds = {n1, n2}
  EpochIds = {0, 1}
  Workloads <- MCWorkloads
  Draw <- MCDraw
  MinBond = 200
  MaxNodesPerOperator = 2
  ChallengeBond = 5
  DisputeWindow = 1
  RevealWindow = 1
  AdjudicationWindow = 1
  ClaimWindow = 1
  FinalizeBudget = 2
  AllowEmpty = FALSE
  SupplyCap = 1000
  EpochsPerYear = 1
  TargetNodes = 2
  MaxTime = 4
  MaxChallenges = 2
  MaxPool = 30
SPECIFICATION MCSpec
INVARIANTS
  
  SettlementIsSound
PROPERTIES
  FinalAfterScrutiny
  PayoutsAreDue
CHECK_DEADLOCK FALSE
