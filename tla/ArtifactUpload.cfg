SPECIFICATION FairSpec
CONSTANTS
  o1 = o1
  r1 = r1
  r2 = r2
  r3 = r3
  Ops = {o1}
  Legacy = {o1}
  Requests = {r1, r2}
  None = None
INVARIANTS
  OneClaimant
  RetryableHasFile
PROPERTIES
  ClaimIsSettled
  OverdueIsCleaned
CHECK_DEADLOCK FALSE
