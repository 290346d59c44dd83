CONSTANTS
  Types = {"Session", "Event"}
  Payloads = {x}
  InitialCap = 1
  MaxCap = 3
  RefModulus = 5
  Callers = {c1, c2, c3}
  Disciplined = FALSE
SPECIFICATION Spec
INVARIANTS
  NoLeakedSlot
