SPECIFICATION TailKeepingSpec
CONSTANTS
  Encodings = {"UTF8", "UTF16"}
  Chunks <- MCChunks
  MaxLength = 4
INVARIANTS
  TypeOK
  BidiTypesCurrent
  Segmented
  CleanIsCurrent
  AnalysedOutsideBatch
