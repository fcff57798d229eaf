------------------------------ MODULE MCAlarm ------------------------------
(* Instances of the alarm small enough for TLC.                            *)
EXTENDS Alarm
=============================================================================
