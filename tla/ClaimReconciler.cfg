SPECIFICATION FairClaimSpec
CONSTANTS
  Claims = {c1}
  Pods = {p, q}
  Related = {c1}
  ClaimsPerPod = 1
  TicksPerSecond = 3
  MaxTime = 5
  MaxDisturbances = 2
 
PROPERTY UnusedClaimGoes
CHECK_DEADLOCK FALSE
