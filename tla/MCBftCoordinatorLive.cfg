CONSTANTS
  me = me
  p1 = p1
  p2 = p2
  a1 = a1
  b1 = b1
  a2 = a2
  s1 = s1
  s2 = s2
  None = None
  NoRoot = NoRoot
  NoVote = NoVote
  Relaxed = FALSE
  MaxSafeInteger = 1000000
  Ids <- MCIds
  LocalId <- me
  Blocks <- Chain
  ProposerOf <- ChainProposerOf
  HeightOf <- ChainHeightOf
  Roots = {}
  InitialValidators <- MCStake
  ValidatorSets <- ChangingSets
  PeerMessages <- OpenMessages
  InitialNet <- OpenMessages
  Slots <- OneSlot
  MaxPending = 1
  MaxGap = 10
  MaxApplying = 1
  MaxCrashes = 0
  Trouble = {"interleave"}
SPECIFICATION LiveSpec
PROPERTIES
  PreparedHeightKeepsARound
  EveryRoundEnds
CHECK_DEADLOCK FALSE
