SPECIFICATION Spec
CONSTANTS
  Names = {a, b}
  VGs = {v, w, x}
  Pools = {p, q}
  PresentVGs = {v, w}
  NoName = NoName
  MaxClasses = 2
  Embedded = FALSE
INVARIANTS CapacityIsOfItsClass EveryClassIsServed
CHECK_DEADLOCK FALSE
