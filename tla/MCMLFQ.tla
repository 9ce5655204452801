------------------------------- MODULE MCMLFQ -------------------------------
(* Instances of the MLFQ scheduler for TLC.                                *)
EXTENDS MLFQ

\* Two and three levels with slices that double.
Slices2 == [q \in 0..1 |-> q + 1]
Slices3 == [q \in 0..2 |-> 2^q]

\* Three levels of one tick each: the shortest way to the lowest level.
Short3 == [q \in 0..2 |-> 1]
=============================================================================
