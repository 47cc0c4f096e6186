SPECIFICATION Spec
CONSTANTS
  f1 = f1
  f2 = f2
  c1 = c1
  c2 = c2
  nobody = nobody
  addr = addr
  pattern = pattern
  Doors = {"parent", "child"}
  Keys = {c1, c2, nobody, addr}
  MaxKeys = 2
  Burst = 1
  Requests = {r1, r2}
  Scenarios <- MCScenarios
  Families = {f1, f2}
  Children = {c1, c2}
  Slots = 1
  Dummy = Dummy
  First = c1
  FirstRow <- MCFirstRow
  MaxVersion = 2
INVARIANTS
  AllowanceIsKept
  SessionsAreEarned
  RefusedForAReason
  SlotsAreHeld
PROPERTIES
  EveryRequestIsAnswered
