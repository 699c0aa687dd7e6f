SPECIFICATION Spec
CONSTANTS
  e1 = e1
  e2 = e2
  r1 = r1
  r2 = r2
  Executions = {e1}
  Requests = {r1, r2}
  MaxStep = 1
  MaxApproved = 1
  None = None
SYMMETRY Symmetry
INVARIANTS
  LoopHandlersSerial
  FinalOnce
PROPERTIES
  DeletedStaysDeleted
