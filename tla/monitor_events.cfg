CONSTANTS
  d1 = d1
  d2 = d2
  d3 = d3
  NULL = NULL
  Devices = {d1, d2}
  Disturbances = {"garbage"}
  MaxToggles = 2
  MaxCrashes = 1
  MaxDisturbances = 1
  MaxSubscribes = 2
SPECIFICATION FairSpec
CHECK_DEADLOCK FALSE
INVARIANTS TypeOK DisconnectForgets NothingLost
PROPERTIES ImplementsDeviceEvents ViewSettles
