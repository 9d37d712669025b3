SPECIFICATION Spec
CONSTANTS
  Length = 2
  NestingLength = 5
  Texts <- MCTexts
  MaxLevel = 3
  BaseLevels = {0}
INVARIANT
  SequenceEndsAsRuled
