------------------------------- MODULE MCProc -------------------------------
(* Instances of the process table small enough for TLC.                    *)
EXTENDS Proc

CONSTANTS c1, c2
=============================================================================
