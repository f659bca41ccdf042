CONSTANTS
  MaxSegs = 4
  Cap = 1
  Faults = {"pipe", "fork"}
SPECIFICATION Spec
INVARIANTS TypeOK NoneLeftBehind
PROPERTIES NeighboursTrue  BatchEnds
