CONSTANTS
  Types = {"Session", "Event"}
  Payloads = {x}
  InitialCap = 1
  MaxCap = 3
  RefModulus = 5
  Callers = {c1, c2, c3, c4}
  Disciplined = TRUE
SPECIFICATION Spec
INVARIANTS
  TypeOK
  SlotsPartitioned
  GrowsOnDemand
  FailsOnlyWhenFull
  RefsCounted
PROPERTIES
  HeldObjectPinned
  ImplementsRegistry
