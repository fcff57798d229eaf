------------------------------- MODULE MCLog -------------------------------
(* Instances of the redo log small enough for TLC.                         *)
EXTENDS Log, TLC

CONSTANTS b1, b2, b3, p1, p2, v1, v2

Blocks3 == {b1, b2, b3}
Procs2 == {p1, p2}

\* Blocks, processes and contents are interchangeable.
Symmetry3 ==
  Permutations(Blocks3) \cup Permutations(Procs2) \cup Permutations({v1, v2})
=============================================================================
