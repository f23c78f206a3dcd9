SPECIFICATION FairShutdownSpec
CONSTANTS
  Producers = {"main", "lobby", "io"}
  MaxTasks = 4
  Rooms = {r1, r2}
  MaxQueries = 1
  MaxFailures = 1
INVARIANT ResultsSurviveShutdown
INVARIANT LeaderboardIsCurrent
INVARIANT TakenIsDown
PROPERTY ImplementsWriteQueue
PROPERTY EveryTaskRuns
PROPERTY ShutdownCompletes
CHECK_DEADLOCK FALSE
