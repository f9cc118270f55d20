SPECIFICATION Spec
CONSTANTS
  Hook = {h1, h2}
  Agent = {lead, sub}
  Lead = lead
  HistoryCap = 2
  FileCap = 1
  OutboxFrames = 1
  MaxClock = 2
  MaxLives = 2
INVARIANTS
  HistorySound
  HandedOverOnce
  DeliveredIsKept
  PromptIsKept
SYMMETRY MCSymmetry
CHECK_DEADLOCK FALSE
