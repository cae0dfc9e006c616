CONSTANTS
  c1 = c1
  m1 = m1
  Callers = {c1}
  Monitors = {m1}
  Speaks = {1}
  Refusals = {}
  MaxDevices = 1
  MaxTag = 2
  MaxCrashes = 0
SPECIFICATION Spec
CHECK_DEADLOCK FALSE
INVARIANT ListCountIsACount
