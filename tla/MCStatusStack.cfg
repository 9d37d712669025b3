SPECIFICATION Spec
CONSTANTS
  e1 = e1
  e2 = e2
  Elements <- MCElements
  EmbeddedCount = 1
  MaxCount = 7
INVARIANTS
  TypeOK
  TopIsLast
PROPERTIES
  ImplementsStack
