----------------------------- MODULE MCConsole -----------------------------
(* An instance of the console input small enough for TLC.                  *)
EXTENDS Console

CONSTANTS r1, r2
=============================================================================
