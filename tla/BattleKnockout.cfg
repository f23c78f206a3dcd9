SPECIFICATION Spec
CONSTANTS
  Players = {a, b}
  Clients = {a}
  Inputs <- MCInputs
  kMaxHp = 1
  kDamage = 1
  CdTicks = 1
  RangeTicks = 2
  MaxTick = 3
  MaxChan = 1
INVARIANT KnockoutEndsBattle
CHECK_DEADLOCK FALSE
