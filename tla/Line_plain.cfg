CONSTANTS
  Chars <- LineChars
  MaxLen = 6
  Builtins <- BuiltinNames
  Missing <- MissingNames
SPECIFICATION Spec
INVARIANTS RoundTrip SyntaxCheck FaithfulPlain
CHECK_DEADLOCK FALSE
