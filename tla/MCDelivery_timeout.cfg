SPECIFICATION Spec
CONSTANTS
  word = word
  None = None
  Nobody = Nobody
  Runs = {r1, r2}
  Requests = {q1, q2}
  Words = {word}
  Touched <- MCTouched
  Invalid = {}
  Paying = {r1}
  LevelsKnown = TRUE
  MaxFaults = 1
  MaxKills = 0
  MaxLosses = 1
INVARIANTS
  DeliveredIsRecorded
