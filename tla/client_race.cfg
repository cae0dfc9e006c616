CONSTANTS
  c1 = c1
  m1 = m1
  Callers = {c1}
  Monitors = {m1}
  Speaks = {1}
  Refusals = {2}
  MaxDevices = 1
  MaxTag = 3
  MaxCrashes = 1
SPECIFICATION FairSpec
CHECK_DEADLOCK FALSE
INVARIANTS TypeOK ConnectIsAcceptedOrClosed AtMostOneRetry SerialCallsAreHonest
PROPERTY CallsReturn
