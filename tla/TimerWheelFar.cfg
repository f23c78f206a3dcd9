SPECIFICATION WheelSpec
CONSTANTS
  kSlots = 3
  kTickMs = 2
  Delays <- MCDelays
  Elapsed = {1, 2, 4}
  MaxTimers = 2
  MaxTick = 12
INVARIANT NeverEarly
CHECK_DEADLOCK FALSE
