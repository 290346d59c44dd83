CONSTANTS
  Code = {1}
  Vectors = {1000}
SPECIFICATION Spec
INVARIANTS
  TypeOK
  ElMatchesPstate
PROPERTIES
  ReturnsToCaller
