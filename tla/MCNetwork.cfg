CONSTANTS
  v1 = v1
  v2 = v2
  v3 = v3
  a1 = a1
  b1 = b1
  a2 = a2
  Stake <- MCStake
  Faulty <- MCFaulty
  Blocks <- MCBlocks
  HeightOf <- MCHeightOf
  MaxSafeInteger = 1000000
SPECIFICATION MCSpec
INVARIANTS
  Agreement
  OneCommitPerHeight
  FinalizedIsReproducible
  NoMissedQuorum
  SlashedOnceEverywhere
  
  
  WireIsReliable
  PinsAreKept
  
CHECK_DEADLOCK FALSE
