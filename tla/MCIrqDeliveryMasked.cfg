CONSTANTS
  Cores = {0, 1}
  Spis = {32, 33}
  Ppis = {}
  Prios = {64}
  Masks = {255}
  Routes <- OneRoute
  Disciplined = TRUE
  MaskWrites = {FALSE, TRUE}
SPECIFICATION SpecDelivery
PROPERTIES
  MaskedNotInterrupted
