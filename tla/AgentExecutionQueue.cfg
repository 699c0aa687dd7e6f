SPECIFICATION FairSpec
CONSTANTS
  e1 = e1
  e2 = e2
  e3 = e3
  c1 = c1
  c2 = c2
  Executions = {e1, e2}
  Callers = {c1, c2}
  Interactive = {e2}
  Concurrency = 1
  DbFaults = FALSE
  NoExec = NoExec
INVARIANTS
  NoStrandedQueued
PROPERTIES
  LifecycleSpec
  QueuedIsServed
CHECK_DEADLOCK FALSE
