SPECIFICATION Spec
CONSTANTS
  NULL = NULL
  Proc = {p1,p2}
  Block = {b1,b2,b3}
  Val = {v1,v2}
  NBUF = 2
  Nums = {4,6}
  Wraps = 1
  MaxPinned = 1
SYMMETRY Symmetry
INVARIANTS BuffersExact DescriptorsExact NoLostWakeup
PROPERTIES DiskIsStore
CHECK_DEADLOCK FALSE
