SPECIFICATION Spec
CONSTANTS
  shell = shell
  job = job
  Procs = {shell, job}
  Leader = shell
  Nobody = Nobody
  Switchers = {job}
  Platforms = {"unix", "windows"}
  MaxChunks = 3
  PipeMax = 1
  QueueMax = 1
INVARIANTS SessionIsReaped
PROPERTIES ConduitSpec ShutdownReturns
CHECK_DEADLOCK FALSE
