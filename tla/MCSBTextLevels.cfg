SPECIFICATION TailKeepingSpec
CONSTANTS
  Encodings = {"UTF16"}
  Chunks <- MCChunks
  MaxLength = 4
INVARIANT
  LevelsAddressed
