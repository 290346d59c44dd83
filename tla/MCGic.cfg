CONSTANTS
  Cores = {0, 1}
  Spis = {32, 33}
  Ppis = {}
  Prios = {64, 255}
  Masks = {64, 128}
  Routes <- AllRoutes
  Disciplined = TRUE
SPECIFICATION Spec
INVARIANTS
  TypeOK
  ActiveIsHandled
PROPERTIES
  TriggerKept
  ImplementsLines
