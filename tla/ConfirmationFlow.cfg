SPECIFICATION FairSpec
CONSTANTS
  r1 = r1
  r2 = r2
  r3 = r3
  Worker = Worker
  Execution = Execution
  Requests = {r1, r2, r3}
  DbFaults = FALSE
INVARIANTS
  LiveRecordHasOwner
PROPERTIES
  LifecycleSpec
  ApprovalIsSettled
CHECK_DEADLOCK FALSE
