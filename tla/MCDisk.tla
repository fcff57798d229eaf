------------------------------- MODULE MCDisk -------------------------------
(* Instances of the disk driver small enough for TLC.                      *)
EXTENDS Disk

CONSTANTS b1, b2, b3
=============================================================================
