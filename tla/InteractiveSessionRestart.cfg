SPECIFICATION FairSpec
CONSTANTS
  i1 = i1
  i2 = i2
  r1 = r1
  r2 = r2
  c1 = c1
  Handler = Handler
  Starter = Starter
  Execution = Execution
  Interactions = {i1}
  Required = {}
  Responders = {r1}
  Cancellers = {}
  MaxRounds = 0
  Early = TRUE
  Crashes = TRUE
INVARIANTS
  RestartSettles
PROPERTIES
  ExpiryEndsWaiting
CHECK_DEADLOCK FALSE
