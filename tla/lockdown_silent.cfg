CONSTANTS
  Services = {"afc"}
  ApiCalls = {"StartService", "Free"}
  MaxCalls = 2
SPECIFICATION FairSpec
CHECK_DEADLOCK FALSE
PROPERTY ReceivesEnd
