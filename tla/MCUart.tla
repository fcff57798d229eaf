------------------------------- MODULE MCUart -------------------------------
(* An instance of the console output small enough for TLC.                 *)
EXTENDS Uart

CONSTANTS w1, p1
=============================================================================
