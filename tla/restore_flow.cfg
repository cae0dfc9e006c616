CONSTANTS
  target = target
  other = other
  Target = target
  Others = {other}
  MaxPlugs = 2
  MaxTears = 1
SPECIFICATION FairSpec
CHECK_DEADLOCK FALSE
INVARIANTS TypeOK DoneMeansStarted 
PROPERTIES StartupEnds  
