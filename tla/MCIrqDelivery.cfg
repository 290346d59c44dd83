CONSTANTS
  Cores = {0, 1}
  Spis = {32, 33}
  Ppis = {}
  Prios = {64, 128}
  Masks = {100, 200}
  Routes <- OneRoute
  Disciplined = TRUE
  MaskWrites = {FALSE}
SPECIFICATION SpecDelivery
INVARIANTS
  DeliveryIsServed
PROPERTIES
  ResumesInterrupted
  EventuallyTaken
  HandlersEnd
