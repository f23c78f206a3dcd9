SPECIFICATION Spec
CONSTANTS
  Players = {a, b}
  Clients = {a}
  Inputs <- MCInputs
  kMaxHp = 3
  kDamage = 2
  CdTicks = 2
  RangeTicks = 2
  MaxTick = 4
  MaxChan = 2
INVARIANT ShotsInFlightBounded
INVARIANT ViewIsExact
INVARIANT TombstonesAreKnown
CHECK_DEADLOCK FALSE
