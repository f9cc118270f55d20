SPECIFICATION Spec
CONSTANTS
  s1 = s1
  s2 = s2
  Sinks <- MCSinks
  Plays <- MCPlays
  MaxBytes = 3
  ReadMax = 2
  Ring = 2
  Newlines = {2}
  AlignScan = 1
  CoalesceMin = 1
  FlushCeiling = 2
  Initial = 1
  Maximum = 2
  Chunk = 2
  OutboxFrames = 3
INVARIANTS ReplayThenLive BuffersBounded LiveOutputInOrder
PROPERTIES CloseReturns NoStall
CHECK_DEADLOCK FALSE
