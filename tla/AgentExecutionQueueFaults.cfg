SPECIFICATION Spec
CONSTANTS
  e1 = e1
  e2 = e2
  e3 = e3
  c1 = c1
  c2 = c2
  Executions = {e1, e2, e3}
  Callers = {c1, c2}
  Interactive = {e3}
  Concurrency = 2
  DbFaults = TRUE
  NoExec = NoExec
SYMMETRY Symmetry
INVARIANTS
  ExecutedAtMostOnce
  ConcurrencyRespected
  SaveNeverOverwrites
CHECK_DEADLOCK FALSE
