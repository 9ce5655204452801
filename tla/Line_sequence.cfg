CONSTANTS
  Chars <- SequenceChars
  MaxLen = 3
  Builtins <- HopName
  Missing = {}
SPECIFICATION Spec
INVARIANTS SequenceRuns
CHECK_DEADLOCK FALSE
