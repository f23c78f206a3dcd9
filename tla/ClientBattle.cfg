SPECIFICATION ClientSpec
CONSTANTS
  Conns = {1, 2, 3, 4}
  NoConn = 0
  Accounts = {a1, a2}
  NoAccount = NoAccount
  MaxPlayers = 3
  MaxRooms = 1
  MaxTimers = 7
  MaxRoomQ = 0
  u = u
  b = b
  a1 = a1
  a2 = a2
  Unity <- MCUnity
  Bots <- MCBots
  AccountOf <- MCAccountOf
  ConnsOf <- MCConnsOf
  MaxMatches = 2
  MaxFaults = 1
INVARIANT BattleShownIsReal
CHECK_DEADLOCK FALSE
