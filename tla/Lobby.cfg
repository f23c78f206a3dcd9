SPECIFICATION FairLobby
CONSTANTS
  Producers = {io, room}
  MaxTasks = 3
  kSlots = 3
  kTickMs = 2
  Delays <- MCDelays
  Elapsed = {1, 4}
  MaxTimers = 2
  MaxTick = 12
  Players = {p1, p2, p3}
  MaxOrder = 5
INVARIANT WaitingIsQueued
INVARIANT RunInOrder
INVARIANT QuitTouchesLiveLoop
INVARIANT EqualDelaysInOrder
PROPERTY PopTakesTwoWaiting
PROPERTY OvertakenOnlyByRejoiners
PROPERTY ImplementsTimers
PROPERTY PostedRuns
PROPERTY QuitEndsRunningLoop
CHECK_DEADLOCK FALSE
