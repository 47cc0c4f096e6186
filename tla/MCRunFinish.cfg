SPECIFICATION Spec
CONSTANTS
  r1 = r1
  r2 = r2
  r3 = r3
  shared = shared
  own1 = own1
  own2 = own2
  None = None
  Runs <- MCThreeRuns
  Touched <- MCThreeTouched
  Words <- MCWords
  Requests = {q1, q2}
  Invalid = {r3}
  Unappliable = {r1}
  Paying = {r1}
  LevelsKnown = FALSE
  MaxFaults = 1
  MaxSettings = 1
INVARIANTS
  AppliedAtMostOnce
  WrittenWasGranted
