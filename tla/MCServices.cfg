SPECIFICATION MCSpec
INVARIANTS
  RootIsOnDisk
  
PROPERTIES
  
  IdentityIsControlled
  DroppedOnlyWhenOver
  
CHECK_DEADLOCK FALSE
