CONSTANTS
  me = me
  p1 = p1
  p2 = p2
  a1 = a1
  b1 = b1
  a2 = a2
  s1 = s1
  s2 = s2
  None = None
  NoRoot = NoRoot
  NoVote = NoVote
  Relaxed = FALSE
  MaxSafeInteger = 1000000
  Ids <- MCIds
  LocalId <- me
  Blocks <- TwoHeights
  ProposerOf <- MCProposerOf
  HeightOf <- MCHeightOf
  Roots = {}
  InitialValidators <- MCStake
  ValidatorSets <- MCSets
  PeerMessages <- FewMessages
  InitialNet <- NoMessages
  Slots <- OneSlot
  MaxPending = 1
  MaxGap = 10
  MaxApplying = 1
  MaxCrashes = 1
  Trouble = {}
SPECIFICATION Spec
INVARIANTS
  NoDoubleVote
  VotesAreOnDisk
PROPERTIES
  ImplementsAgreement
CHECK_DEADLOCK FALSE
