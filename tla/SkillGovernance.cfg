SPECIFICATION Spec
CONSTANTS
  s1 = s1
  a1 = a1
  a2 = a2
  f1 = f1
  f2 = f2
  p1 = p1
  p2 = p2
  Skills = {1}
  SourceOf <- OneSource
  Apps = {a1}
  Fingerprints = {f1, f2}
  Policies = {"one_shot"}
  OneShot = "one_shot"
  Publishers = {p1, p2}
  None = None
  MaxRevision = 5
SYMMETRY Symmetry
INVARIANTS
  SynchronizedIsInForce
  RevokedIsNotSelectable
  SentWasReviewed
PROPERTIES
  RegisterSpec
CHECK_DEADLOCK FALSE
