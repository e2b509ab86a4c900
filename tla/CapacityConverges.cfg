SPECIFICATION FairSpec
CONSTANTS
  Type = "thick"
  Clients = {c1, c2}
  Embedded = FALSE
  MaxFaults = 1
  MaxCalls = 2
  Sizes = {4}
  Names = {v1, v2}
  PoolSize = 12
  RatioNum = 13
  RatioDen = 8
  Spare = 4
  SectorSize = 2
  Extent = 4
  StreamCap = 1
PROPERTY CapacityConverges
