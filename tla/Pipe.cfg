SPECIFICATION Spec
CONSTANTS
  NULL = NULL
  Proc = {p1,p2}
  initproc = p1
  Victims = {p2}
  NFILE = 2
  NOFILE = 2
  Page = {g1}
  PIPESIZE = 2
  UINT = 4
  Creators={p1}
  Counts = {2}
INVARIANTS FilesExact NoLostWakeup
PROPERTIES PipeIsQueue CallsEnd
CHECK_DEADLOCK FALSE
