SPECIFICATION ShutdownSpec
CONSTANTS
  Producers = {"main", "lobby", "io"}
  MaxTasks = 4
  Rooms = {r1, r2}
  MaxQueries = 1
  MaxFailures = 1
INVARIANT DoneIsDown
CHECK_DEADLOCK FALSE
