SPECIFICATION FairPlacementSpec
CONSTANTS
  MinimumSectorSize = 4
  DefaultSize = 12
  MaxInt = 31
  p1 = p1
  p2 = p2
  p3 = p3
  n1 = n1
  n2 = n2
  c1 = c1
  c2 = c2
  c3 = c3
  c4 = c4
  ssd = ssd
  hdd = hdd
  None = None
  Pods = {p1, p2, p3}
  Nodes = {n1, n2}
  Classes = {ssd, hdd}
  Claims = {c1, c2, c3, c4}
  OwnerOf <- MCOwner
  RequestOf <- MCRequest
  ClassOf <- MCClass
  Ephemeral = {c4}
  Late = {c2}
  Minimum = 0
  Capacity <- MCCapacity
  MaxRestarts = 1
  MaxTimeouts = 1
INVARIANTS RunsWithItsVolumes
PROPERTIES  PodsArePlaced
CHECK_DEADLOCK FALSE
