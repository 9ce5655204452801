-------------------------------- MODULE MCLog --------------------------------
(* The write-ahead log for TLC: the constants are in Log.cfg.               *)
EXTENDS Log
=============================================================================
