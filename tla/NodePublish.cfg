SPECIFICATION FairSpec
CONSTANTS
  Targets = {t1, t2}
  MaxSize = 2
  MaxFaults = 2
INVARIANTS PublishedIsMounted UnpublishedStaysUnmounted
PROPERTIES  TeardownCompletes FilesystemGrows
CHECK_DEADLOCK FALSE
