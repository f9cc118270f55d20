SPECIFICATION ProjectSpec
CONSTANTS
  start = start
  again = again
  other = other
  open = open
  register = register
  forget = forget
  list = list
  Starts = {start, again, other}
  Opens = {open}
  Registers = {register}
  Forgets = {forget}
  Lists = {list}
  Folder <- TheFolder
  BranchOf <- TheBranchOf
  Earlier <- TheEarlier
  Branches <- TheBranches
  Trunk <- TheTrunk
  Unused <- TheUnused
  Main <- TheMain
  Aside <- TheAside
  Inside <- TheInside
  Letters = {"m", "n", "x"}
  Reserved = {}
  MaxSlug = 4
  MaxAttempts = 2
  MaxMeddling = 1
INVARIANTS BranchHonoured ListedWhereItRuns StoreIsSound
CHECK_DEADLOCK FALSE
