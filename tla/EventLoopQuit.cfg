SPECIFICATION FairSpec
CONSTANTS
  Producers = {io}
  MaxTasks = 0
PROPERTY DtorReturns
CHECK_DEADLOCK FALSE
