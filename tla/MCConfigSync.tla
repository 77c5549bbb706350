---------------------------- MODULE MCConfigSync ----------------------------
(* One string and two numbers, in the order the boot merges them, and the   *)
(* key that stands for nothing.                                             *)
EXTENDS ConfigSync
CONSTANTS name, lat, tx, timeout
MCFieldOrder == <<lat, name, tx>>
=============================================================================
