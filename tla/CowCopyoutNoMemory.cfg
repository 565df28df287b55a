SPECIFICATION Spec
CONSTANTS
  NULL = NULL
  PA = {1,2,3,4}
  Proc = {1,2}
  REFMOD = 256
  Pick <- LowestFirst
  initproc = 1
  PGSIZE = 2
  MAXVP = 1
  TopNode = {100}
  TRAPFRAME = 100
  NodesOf <- FlatTable
  EXECIMAGE <- NoImage
  StoreAddrs = {0}
  SbrkArgs = {}
  CopyoutArgs <- FirstPage
  WaitAddrs = {}
PROPERTIES PrivateMemory
VIEW UpToPageNames
CHECK_DEADLOCK FALSE
