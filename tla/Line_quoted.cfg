CONSTANTS
  Chars <- QuotedChars
  MaxLen = 6
  Builtins = {}
  Missing = {}
SPECIFICATION Spec
INVARIANTS Faithful
CHECK_DEADLOCK FALSE
