CONSTANTS
  Width = 2
  Instructions <- AllInstructions
  MaxSteps = 2
  FAdd <- SmallFAdd
  FMul <- SmallFMul
  FFma <- SmallFFma
SPECIFICATION Spec
INVARIANTS
  TypeOK
  OperandsDoNotOverlap
PROPERTIES
  StepIsIsa
  GuardedOffKeepsRegisters
  PredicatesIsolated
CHECK_DEADLOCK FALSE
