---------------------------- MODULE MCJobControl ----------------------------
(* Instances of the shell's job control for TLC.                           *)
EXTENDS JobControl
=============================================================================
