SPECIFICATION Spec
CONSTANTS
  Streams = {s1, s2}
  Detachable = {s1}
  ReadDeadline = TRUE
  MaxReconnects = 1
  s1 = s1
  s2 = s2
  MaxOutput <- Written
  MaxExits <- Exits
  ExitBytes = 1
  Initial = 3
  Maximum = 3
  TotalInitial = 5
  TotalMax = 5
  AckBatch = 2
  Chunk = 2
INVARIANTS BooksBalance HonestDaemonIsKept
PROPERTY WindowReopens
CHECK_DEADLOCK FALSE
