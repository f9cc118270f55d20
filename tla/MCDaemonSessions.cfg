SPECIFICATION Spec
CONSTANTS
  window = window
  cli = cli
  make = make
  remake = remake
  other = other
  end = end
  pane = pane
  Conns = {window, cli}
  Creates = {make, remake, other}
  Closes = {end}
  ConnOf <- TheConns
  PaneOf <- ThePanes
  NoPane = NoPane
  Names <- TheNames
  Target <- TheTarget
  Capacity = 1
  Interrupts = TRUE
INVARIANTS RetryRunsOnce SessionsAreHeld
PROPERTIES IdleRetires
CHECK_DEADLOCK FALSE
