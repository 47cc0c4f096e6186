SPECIFICATION Spec
CONSTANTS
  r1 = r1
  r2 = r2
  r3 = r3
  shared = shared
  own1 = own1
  own2 = own2
  None = None
  Runs <- MCRuns
  Touched <- MCTouched
  Words <- MCWords
  Requests = {q1}
  Invalid = {}
  Unappliable = {}
  Paying = {r1}
  LevelsKnown = FALSE
  MaxFaults = 0
  MaxSettings = 0
INVARIANTS
  AppliedExactlyOnce
