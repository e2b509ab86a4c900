SPECIFICATION Spec
CONSTANTS
  Type = "thin"
  Clients = {c1}
  Embedded = TRUE
  MaxFaults = 1
  MaxCalls = 3
  Sizes = {3, 4, 9}
  Names = {v1, v2}
  PoolSize = 8
  RatioNum = 13
  RatioDen = 8
  Spare = 4
  SectorSize = 2
  Extent = 4
  StreamCap = 1
INVARIANTS TypeOK OvercommitBounded SuccessHasSize NoLostWakeup
