SPECIFICATION Spec
CONSTANTS
  Models <- AllModels
  Messages <- AllMessages
  Shadows <- AllShadows
  Prompts = {"audience"}
  Library <- AllFiles
  Asks <- AllAsks
  Holdings <- AllHoldings
INVARIANTS
  Resumable
  SlotsKept
  NoStepSkipped
  BundleIsEarned
  FollowupReadsItsOwn
  RequiredHoldsTheTurn
  GateStaysShut
CHECK_DEADLOCK FALSE
