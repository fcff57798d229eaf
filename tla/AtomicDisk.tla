----------------------------- MODULE AtomicDisk -----------------------------
(***************************************************************************)
(* What log.c promises to the file system: an array of blocks with a       *)
(* volatile copy that the system calls read and write, and a durable copy  *)
(* that a power failure falls back to.  System calls are bracketed; the    *)
(* durable copy changes only by taking over the whole volatile copy, at a  *)
(* moment when no system call is between its brackets.  A failure          *)
(* therefore never exposes a part of a system call.                        *)
(***************************************************************************)

CONSTANTS Blocks,     \* block numbers outside the log
          Vals,       \* contents of a block
          Calls       \* processes that execute system calls

VARIABLES stable,     \* contents that survive a power failure
          volatile,   \* contents that system calls see
          active      \* processes between begin_op() and end_op()

vars == <<stable, volatile, active>>

Init ==
  /\ stable \in [Blocks -> Vals]
  /\ volatile = stable
  /\ active = {}

Begin(p) ==
  /\ p \notin active
  /\ active' = active \cup {p}
  /\ UNCHANGED <<stable, volatile>>

Write(p, b, v) ==
  /\ p \in active
  /\ volatile' = [volatile EXCEPT ![b] = v]
  /\ UNCHANGED <<stable, active>>

End(p) ==
  /\ p \in active
  /\ active' = active \ {p}
  /\ UNCHANGED <<stable, volatile>>

Sync ==
  /\ active = {}
  /\ stable' = volatile
  /\ UNCHANGED <<volatile, active>>

Crash ==
  /\ volatile' = stable
  /\ active' = {}
  /\ UNCHANGED stable

Next ==
  \/ \E p \in Calls : Begin(p) \/ End(p)
  \/ \E p \in Calls, b \in Blocks, v \in Vals : Write(p, b, v)
  \/ Sync
  \/ Crash

Spec == Init /\ [][Next]_vars
=============================================================================
