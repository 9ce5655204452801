---------------------------- MODULE MCPlumbing ------------------------------
(* Command lines of the shell for TLC: every combination of redirections   *)
(* on one or two stages, in the foreground and in the background.          *)
EXTENDS Plumbing

Lines(n) == [bg : BOOLEAN, ins : [1 .. n -> 0 .. 1], outs : [1 .. n -> 0 .. 2]]
ShortLines == Lines(1) \cup Lines(2)
=============================================================================
