CONSTANTS
  Lines <- Few
  MaxLines = 3
SPECIFICATION Spec
INVARIANT PrintsOnce
