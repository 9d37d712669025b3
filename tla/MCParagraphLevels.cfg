SPECIFICATION Spec
CONSTANTS
  Length = 3
  NestingLength = 5
  Texts <- MCTexts
  MaxLevel = 3
  BaseLevels = {0, 253}
INVARIANTS
  TypeOK
  StackAccounts
  PriorPrecedes
  AttachesAlike
  LevelsAreExplicit
  RunsFormSequences
  RunEndsAsRuled
