SPECIFICATION Spec
CONSTANTS
  NULL = NULL
  NPROC = 2
  NCPU = 1
  Ticks = {1}
  Forkers = {1,2}
  Sleepers = {1,2}
  Victims = {2}
PROPERTIES RunnableRuns CallsEnd
CHECK_DEADLOCK TRUE
