------------------------------- MODULE MCPipe -------------------------------
(* Instances of the pipe small enough for TLC.                             *)
EXTENDS Pipe

CONSTANTS r1, r2, w1
=============================================================================
