CONSTANTS
  a1 = a1
  a2 = a2
  Callers = {a1, a2}
  Owner = a1
  MaxCalls = 4
  MaxNotes = 2
SPECIFICATION FairSpec
CHECK_DEADLOCK FALSE
INVARIANTS TypeOK OnlyRegisteredRuns InOrderOnce
PROPERTIES FreeReturns Heard
