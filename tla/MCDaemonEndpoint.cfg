SPECIFICATION Spec
CONSTANTS
  Daemon = {d1, d2, d3}
  Client = {c1, c2}
  None = None
INVARIANTS
  EndpointIsNamed
  DoubtIsJustified
  SpawnsInTurn
  NobodyWaitsInVain
CONSTRAINT MCUntilDisplaced
SYMMETRY MCSymmetry
CHECK_DEADLOCK FALSE
