SPECIFICATION Spec
CONSTANTS
  File = {f1,f2}
  Inode = {i1,i2}
  NBLOCKS = 3
  BSIZE = 2
  NDIRECT = 1
  NINDIRECT = 1
  MAXOPBLOCKS = 6
  Counts = {1,3}
INVARIANTS BlocksExact OpFits
PROPERTIES FilesAreBytes
CHECK_DEADLOCK FALSE
SYMMETRY Symmetry
