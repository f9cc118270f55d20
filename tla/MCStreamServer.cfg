SPECIFICATION Spec
CONSTANTS
  window = window
  before = before
  after = after
  Clients = {window}
  MaxKey = 2
  Ceiling = 3
  Sockets = {before, after}
  SocketClient <- TheSocketClient
  Controls = {1, 2}
  ControlClient <- TheControlClient
  MaxRequests = 2
  MaxReleases = 1
  Retrying = {2}
INVARIANTS
  ServerTypeOK
  TableConsistent
  AcceptedConnectionIsCurrent
  OpenSinkHasReader
  FramesFollowAnswer
  AckKeepsConnection
  SupersededIsWoken
PROPERTY ClosedForGood
SYMMETRY Symmetry
CHECK_DEADLOCK FALSE
