SPECIFICATION Spec
CONSTANTS
  r1 = r1
  r2 = r2
  r3 = r3
  Worker = Worker
  Execution = Execution
  Requests = {r1, r2}
  DbFaults = TRUE
SYMMETRY Symmetry
INVARIANTS
  ProviderAtMostOnce
  NeverWithoutApproval
  CompletedMeansCompleted
CHECK_DEADLOCK FALSE
