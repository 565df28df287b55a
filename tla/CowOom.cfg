SPECIFICATION Spec
CONSTANTS
  NULL = NULL
  PA = {1,2,3,4,5,6,7,8,9,10,11}
  Proc = {1,2}
  REFMOD = 256
  Pick <- LowestFirst
  initproc = 1
  PGSIZE = 2
  MAXVP = 3
  TopNode = {100,101}
  TRAPFRAME = 100
  NodesOf <- TablePerPage
  EXECIMAGE <- SmallImage
  StoreAddrs = {0,3,5}
  SbrkArgs = {2}
  CopyoutArgs = {}
  WaitAddrs = {}
INVARIANTS TablesAreNotShared RefcountExact EveryPageAccounted WritableIsPrivate
PROPERTIES PrivateMemory FaultsEnd
CHECK_DEADLOCK FALSE
VIEW UpToPageNames
