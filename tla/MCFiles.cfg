CONSTANTS
  BSIZE = 2
  NDIRECT = 1
  NINDIRECT = 2
  NINODES = 3
  nmeta = 2
  FSSIZE = 13
  Files <- MCFiles1
  Procs = {p1, p2}
  NOFILE = 2
  NFILE = 2
  BPB = 1
  MAXOPBLOCKS = 6
  Data <- MCData
  Lengths = {3}
  Modes <- MCModes
  MaxCalls = 5
SPECIFICATION Spec
INVARIANTS BlocksOwned
PROPERTIES OpFits IsByteFiles
CHECK_DEADLOCK FALSE
SYMMETRY Symmetry
