CONSTANTS
  me = me
  p1 = p1
  p2 = p2
  a1 = a1
  b1 = b1
  a2 = a2
  s1 = s1
  s2 = s2
  None = None
  NoRoot = NoRoot
  NoVote = NoVote
  Relaxed = FALSE
  MaxSafeInteger = 1000000
  Ids <- MCIds
  LocalId <- me
  Blocks <- OneHeight
  ProposerOf <- ProposersOne
  HeightOf <- HeightOne
  Roots = {}
  InitialValidators <- MCStake
  ValidatorSets <- MCSets
  PeerMessages <- SideMessages
  InitialNet <- SideMessages
  Slots <- TwoSlots
  MaxPending = 0
  MaxGap = 10
  MaxApplying = 1
  MaxCrashes = 1
  Trouble = {"interleave", "crashInApply", "flush", "tipRead"}
SPECIFICATION Spec
INVARIANT CommitsStandOnQuorum
SYMMETRY MCSymmetry
CHECK_DEADLOCK FALSE
