-------------------------------- MODULE Fifo --------------------------------
(***************************************************************************)
(* What pipe.c promises: a bounded first-in first-out queue of bytes with  *)
(* a write end and a read end.  Bytes go in only while both ends are open; *)
(* what has gone in can be read after the write end is closed.             *)
(***************************************************************************)
EXTENDS Naturals, Sequences

CONSTANTS Bytes, Capacity

VARIABLES q, writeopen, readopen

vars == <<q, writeopen, readopen>>

Init == q = << >> /\ writeopen = TRUE /\ readopen = TRUE

Put ==
  /\ writeopen /\ readopen
  /\ Len(q) < Capacity
  /\ \E b \in Bytes : q' = Append(q, b)
  /\ UNCHANGED <<writeopen, readopen>>

Get ==
  /\ readopen /\ q # << >>
  /\ q' = Tail(q)
  /\ UNCHANGED <<writeopen, readopen>>

CloseWrite == writeopen /\ writeopen' = FALSE /\ UNCHANGED <<q, readopen>>
CloseRead == readopen /\ readopen' = FALSE /\ UNCHANGED <<q, writeopen>>

\* Both ends are closed: the next pipe is a new one.
Renew ==
  /\ ~writeopen /\ ~readopen
  /\ q' = << >> /\ writeopen' = TRUE /\ readopen' = TRUE

Next == Put \/ Get \/ CloseWrite \/ CloseRead \/ Renew

Spec == Init /\ [][Next]_vars
=============================================================================
