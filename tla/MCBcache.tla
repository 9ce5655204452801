------------------------------- MODULE MCBcache -------------------------------
(* The buffer cache for TLC. Processes are interchangeable, and so are blocks. *)
EXTENDS Bcache, TLC

Symmetric == Permutations(Procs) \union Permutations(Blocks)
===============================================================================
