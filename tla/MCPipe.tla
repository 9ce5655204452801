-------------------------------- MODULE MCPipe --------------------------------
(* Pipes for TLC: what the two processes write.                             *)
EXTENDS Pipe

MCBytes == {0, 1}
MCSource == << <<0, 1>>, <<1, 1>> >>
===============================================================================
