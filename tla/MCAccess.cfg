SPECIFICATION Spec
CONSTANTS
  Logins = {l1, l2}
  Enrolments = {e1}
  MaxSecret = 2
  Skew = 1
  ReplayWindow = 4
  PendingTTL = 1
  FreshFor = 1
  SessionTTL = 2
  HandlerTime = 1
  MaxTime = 4
  MaxFaults = 1
SYMMETRY Symmetry
INVARIANTS
  CodeUsedOnce
  SessionsFollowSecret
CHECK_DEADLOCK FALSE
