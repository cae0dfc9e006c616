CONSTANTS
  d1 = d1
  d2 = d2
  d3 = d3
  NULL = NULL
  Devices = {d1, d2, d3}
  Disturbances = {"noid", "other"}
  MaxToggles = 1
  MaxCrashes = 0
  MaxDisturbances = 1
  MaxSubscribes = 1
SPECIFICATION Spec
CHECK_DEADLOCK FALSE
INVARIANT ViewIsCollection
