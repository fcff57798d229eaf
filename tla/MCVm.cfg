SPECIFICATION Spec
CONSTANTS
  NPAGES = 24
  NPTE = 2
  PGSIZE = 4
  WRAP = 64
  WRAP64 = 128
  ALIGN = 2
  PTRSIZE = 1
  MAXARG = 3
  Procs = {1, 2}
  Init1 = 1
  Sbrks <- MCSbrks
  Copies <- MCCopies
  Programs <- MCPrograms
  MaxBytes = 10
  MaxLeft = 12
  MaxCalls = 6
CHECK_DEADLOCK FALSE
INVARIANTS PagesOwned
PROPERTY IsAddressSpace
