CONSTANTS
  MaxSegs = 2
  Cap = 1
  Faults = {}
SPECIFICATION Spec
INVARIANT StatusOfLast
