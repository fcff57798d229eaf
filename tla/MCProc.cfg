\* Three slots, two CPUs, three pids: init, a child, which may be killed, and a
\* grandchild.
CONSTANTS
  c1 = c1 c2 = c2
  CPUs = {c1, c2}
  NPROC = 3
  MAXPID = 3
  KillPids = {2}
SPECIFICATION FairSpec
INVARIANTS OneCPU ParentAlive NoLostWakeup
PROPERTIES ExitEnds
