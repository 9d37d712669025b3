SPECIFICATION Spec
CONSTANTS
  MaxOpenPairs = 2
  Length = 3
  NumberLength = 4
  BracketLength = 5
  IsolateLength = 4
  Inputs <- MCInputs
INVARIANTS
  TypeOK
  WeakTypesAreRuled
  QueueAccounts
  NoNeutralLeft
  LevelsAreRuled
