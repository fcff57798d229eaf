\* Two processes, the root and two more inodes.  Deadlock is not checked: ialloc()
\* panics, and the kernel stops, when the inodes have run out.
CONSTANTS
  p1 = p1
  p2 = p2
  Procs = {p1, p2}
  Names = {"a", "b"}
  NINODES = 3
  NINODE = 4
  Nil = Nil
  Calls <- TreeCalls
SPECIFICATION FairSpec
CHECK_DEADLOCK FALSE
INVARIANTS RefExact LinksCover NoPanic
PROPERTY CallEnds
