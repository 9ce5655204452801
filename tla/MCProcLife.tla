------------------------------ MODULE MCProcLife ------------------------------
(* The life of processes for TLC.                                           *)
EXTENDS ProcLife
===============================================================================
