------------------------------- MODULE MCClock -------------------------------
(* Instances of the clock for TLC.                                         *)
EXTENDS Clock
=============================================================================
