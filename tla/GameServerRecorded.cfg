SPECIFICATION Spec
CONSTANTS
  Conns = {c1, c2}
  NoConn = NoConn
  Accounts = {a1}
  NoAccount = NoAccount
  MaxPlayers = 2
  MaxRooms = 1
  MaxTimers = 3
  MaxRoomQ = 0
INVARIANT SettledIsRecorded
CHECK_DEADLOCK FALSE
