CONSTANTS
  Lines <- MCLines
  MaxLines = 3
SPECIFICATION Spec
INVARIANTS TypeOK ParsesGrammar ChainsHold NothingLost
