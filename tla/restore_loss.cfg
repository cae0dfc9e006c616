CONSTANTS
  target = target
  other = other
  Target = target
  Others = {}
  MaxPlugs = 2
  MaxTears = 0
SPECIFICATION FairSpec
CHECK_DEADLOCK FALSE
PROPERTY LossEndsRestore
