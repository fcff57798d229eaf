\* Two CPUs, each with a thread and an interrupt handler, and two locks.
CONSTANTS
  c1 = c1 c2 = c2
  CPUs = {c1, c2}
  Locks = {1, 2}
  NoCPU = NoCPU
SPECIFICATION Spec
SYMMETRY CPUSymmetry
INVARIANTS MutualExclusion InterruptsOff IntrRestored
