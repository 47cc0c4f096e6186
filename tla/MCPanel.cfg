SPECIFICATION PanelSpec
CONSTANTS
  Logins = {l1}
  Enrolments = {}
  MaxSecret = 1
  Skew = 1
  ReplayWindow = 4
  PendingTTL = 1
  FreshFor = 1
  SessionTTL = 4
  HandlerTime = 1
  MaxTime = 3
  MaxFaults = 0
  MaxRedirects = 4
INVARIANT
  BrowserArrives
CHECK_DEADLOCK FALSE
