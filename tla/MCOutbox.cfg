SPECIFICATION Spec
CONSTANTS
  Runs = {r1, r2, r3}
  None = None
  DrainBlocksPlay = TRUE
  TornWrites = FALSE
  MaxKills = 2
  MaxSaveFailures = 1
INVARIANTS
  NothingLost
PROPERTIES
  ImplementsCourier
