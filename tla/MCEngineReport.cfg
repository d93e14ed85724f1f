SPECIFICATION Spec
CONSTANTS
  MaxFailures = 2
  Turns = {2}
  MaxHeight = 2
  MaxEra = 0
  Governance = TRUE
  Ticks = {1}
  Syncs = {1}
  Timings = {{"report"}}
INVARIANTS
  OneProposalPerHeight
