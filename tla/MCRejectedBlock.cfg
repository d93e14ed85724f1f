SPECIFICATION MCSpec
INVARIANTS
  FailedApplyLeavesState
CHECK_DEADLOCK FALSE
