SPECIFICATION Spec
CONSTANTS
  NULL = NULL
  Torn = Torn
  Proc = {p1,p2,p3}
  initproc = p1
  Block = {b1,b2}
  Val = {v1,v2}
  MAXOPBLOCKS = 2
  LOGSIZE = 4
  Size = 4
  OPBLOCKS = 2
INVARIANTS NoLostWakeup PinsMatchLog
PROPERTIES CrashAtomic LogSettles
CHECK_DEADLOCK TRUE
