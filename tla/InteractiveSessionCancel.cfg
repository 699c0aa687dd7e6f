SPECIFICATION Spec
CONSTANTS
  i1 = i1
  i2 = i2
  r1 = r1
  r2 = r2
  c1 = c1
  Handler = Handler
  Starter = Starter
  Execution = Execution
  Interactions = {i1}
  Required = {i1}
  Responders = {r1}
  Cancellers = {c1}
  MaxRounds = 1
  Early = FALSE
  Crashes = FALSE
VIEW WithoutHistory
INVARIANTS
  CancelledIsConfirmed
PROPERTIES
  LifecycleSpec
  InteractionSpec
CHECK_DEADLOCK FALSE
