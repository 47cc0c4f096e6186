SPECIFICATION Spec
CONSTANTS
  q1 = q1
  q2 = q2
  school = school
  own = own
  Requests = {q1, q2}
  Words <- MCWords
  Lists = {school, own}
  ItemsOf <- MCItemsOf
  Histories <- MCHistories
  Asks <- MCAsks
  Claims <- MCClaims
  Reports <- MCReports
  Settings = {2}
  WordsPerManche = 1
  RecycleOld = 1
  GardeSlots = 2
  DefaultLimit = 1
  MaxBeat = 1
  CompletionBonus = 2
  WordBonus = 1
  LastDay = 1
  MaxSent = 3
  MaxFaults = 1
  MaxMoves = 1
INVARIANTS
  AcknowledgedIsCounted
  BonusIsBacked
PROPERTIES
  DecksSound
  EveryUnmetWordIsDealt
SYMMETRY MCSymmetry
CHECK_DEADLOCK FALSE
