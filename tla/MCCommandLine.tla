--------------------------- MODULE MCCommandLine ---------------------------
(* Input lines for TLC: a letter, the blank, the three quoting characters, *)
(* and the characters of the operators. With one letter a name is its      *)
(* length: aa is no executable file, aaa a built-in.                       *)
EXTENDS CommandLine

LineChars == {"a", " ", "'", "\"", "\\", "|", "&", ";", "<", ">"}
MissingNames == {<<"a", "a">>}
BuiltinNames == {<<"a", "a", "a">>}

QuotedChars == {"a", "'", ";"}

SequenceChars == {"a", ";"}
HopName == {<<"a">>}
=============================================================================
