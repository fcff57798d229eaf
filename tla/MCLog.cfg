\* Two processes, three blocks, two contents, two power failures.  The log is full
\* when it holds three blocks, and has room for two system calls.
CONSTANTS
  b1 = b1 b2 = b2 b3 = b3 p1 = p1 p2 = p2 v1 = v1 v2 = v2
  Torn = Torn NoBuf = NoBuf
  Blocks <- Blocks3
  Procs <- Procs2
  Vals = {v1, v2}
  MAXOPBLOCKS = 2
  OPBLOCKS = 1
  LOGSIZE = 4
  NLOG = 4
  MAXCRASH = 2
SPECIFICATION Spec
SYMMETRY Symmetry3
INVARIANTS NoPanic PinBalance NoLostWakeup
PROPERTIES Atomic
