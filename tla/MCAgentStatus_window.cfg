SPECIFICATION Spec
CONSTANTS
  Hook = {h1, h2}
  Agent = {lead, sub}
  Lead = lead
  HistoryCap = 2
  FileCap = 1
  OutboxFrames = 2
  MaxClock = 2
  MaxLives = 1
INVARIANTS
  WindowCatchesUp
SYMMETRY MCSymmetry
CHECK_DEADLOCK FALSE
