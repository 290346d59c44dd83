CONSTANTS
  Width = 2
  Instructions <- Builders
  MaxSteps = 1
  FAdd <- SmallFAdd
  FMul <- SmallFMul
  FFma <- SmallFFma
SPECIFICATION Spec
INVARIANT HelpersReachHandlers
CHECK_DEADLOCK FALSE
