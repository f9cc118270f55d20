SPECIFICATION Spec
CONSTANTS
  first = first
  second = second
  one = one
  again = again
  other = other
  drop = drop
  eye = eye
  shell = shell
  agent = agent
  Loads = {first, second}
  Attaches = {one, again, other}
  Detaches = {drop}
  Watches = {eye}
  HandleOf <- TheHandles
  Refreshing = {one, other}
  Casts <- TheCasts
  MaxFrames <- TheFrames
  MaxFailures = 1
INVARIANTS PeersAgree TableAgrees WatcherIsLetGo HeldIsWoken
PROPERTIES HealthyIsKept DeliveredInOrder
SYMMETRY Symmetry
CHECK_DEADLOCK FALSE
