CONSTANTS
  Candidates <- MCCandidates
  MaxCandidates = 3
  MaxFailures = 1
  Turns = {1}
  MaxHeight = 1
  MaxEra = 1
  Governance = TRUE
  Ticks = {1}
  Syncs = {1}
  Timings <- MCTimings
SPECIFICATION MCSpec
INVARIANTS
  BestBeatsAll
  NoPingPong
  ProposesOncePerHeight
  StaleStateIsCleared
  
  
CHECK_DEADLOCK FALSE
