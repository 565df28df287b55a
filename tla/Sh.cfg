SPECIFICATION Spec
CONSTANTS
  MAXARGS = 3
  NPROC = 6
  NOFILE = 6
  NPIPE = 2
  Lines <- Typed
INVARIANTS ParseIsGrammar Wired WaitsForOwn
PROPERTIES PromptsAgain
CHECK_DEADLOCK FALSE
