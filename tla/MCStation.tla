------------------------------ MODULE MCStation ------------------------------
(* Instances of Station for TLC.  Unit of time: 30 s; the code's shorter    *)
(* pauses are rounded up to one unit or down to none.                       *)
EXTENDS Station
=============================================================================
