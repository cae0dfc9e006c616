CONSTANTS
  a1 = a1
  a2 = a2
  Callers = {a1}
  Owner = a1
  MaxCalls = 3
  MaxNotes = 1
SPECIFICATION FairSpec
CHECK_DEADLOCK FALSE
PROPERTY SetReturns
