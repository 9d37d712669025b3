SPECIFICATION Spec
CONSTANTS
  MaxOpenPairs = 2
  Length = 1
  NumberLength = 1
  BracketLength = 1
  IsolateLength = 1
  Inputs <- MCInputs
INVARIANTS
  BracketsSeeContext
