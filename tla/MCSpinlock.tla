----------------------------- MODULE MCSpinlock -----------------------------
(* Instances of the spin locks small enough for TLC.                       *)
EXTENDS Spinlock, TLC

CONSTANTS c1, c2

\* CPUs are interchangeable; locks are ordered and are not.
CPUSymmetry == Permutations({c1, c2})
=============================================================================
