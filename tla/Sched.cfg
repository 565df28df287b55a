SPECIFICATION Spec
CONSTANTS
  NULL = NULL
  NPROC = 3
  NCPU = 2
  Ticks = {1}
  Forkers = {1,2}
  Sleepers = {2}
  Victims = {}
INVARIANTS StackSafe LocksNest NoLostWakeup ParentAlive
CHECK_DEADLOCK TRUE
