SPECIFICATION LiveSpec
CONSTANTS
  MaxFailures = 1
  Turns = {1}
  MaxHeight = 1
  MaxEra = 1
  Governance = FALSE
  Ticks = {1}
  Syncs = {1}
  Timings = {{"slowSync"}}
PROPERTIES
  CanProposeAgain
