SPECIFICATION FairSpec
CONSTANTS
  Volumes = {v1, v2}
  None = None
  SkipFlags = {TRUE, FALSE}
  MaxCreates = 1
  MaxFaults = 1
INVARIANTS TypeOK FinalizeIsComplete
PROPERTY FinalizeCompletes
CHECK_DEADLOCK FALSE
