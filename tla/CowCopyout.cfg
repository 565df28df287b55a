SPECIFICATION Spec
CONSTANTS
  NULL = NULL
  PA = {1,2,3,4,5,6,7}
  Proc = {1,2}
  REFMOD = 256
  Pick <- LowestFirst
  initproc = 1
  PGSIZE = 2
  MAXVP = 2
  TopNode = {100}
  TRAPFRAME = 100
  NodesOf <- FlatTable
  EXECIMAGE <- NoImage
  StoreAddrs = {2}
  SbrkArgs <- GrowAndShrink
  CopyoutArgs <- AcrossPages
  WaitAddrs = {2}
INVARIANTS NoVmPanic
PROPERTIES PrivateMemory
VIEW UpToPageNames
CHECK_DEADLOCK FALSE
