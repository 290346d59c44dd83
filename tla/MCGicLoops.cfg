CONSTANTS
  Cores = {0}
  Spis = {32, 33}
  Ppis = {16}
  Prios = {64, 128}
  Masks = {128}
  Routes <- AllRoutes
  Disciplined = FALSE
SPECIFICATION SpecLoops
INVARIANTS
  LoopsFindBest
  PeekPredictsAck
