SPECIFICATION Spec
CONSTANTS
  Conns = {c1, c2, c3, c4}
  NoConn = NoConn
  Accounts = {a1, a2}
  NoAccount = NoAccount
  MaxPlayers = 2
  MaxRooms = 1
  MaxTimers = 4
  MaxRoomQ = 1
SYMMETRY Symmetry
INVARIANT TypeOK
INVARIANT BindingOneToOne
INVARIANT ExpiryExact
INVARIANT QueueMatchesState
INVARIANT InRoomIsRouted
INVARIANT RoomBindingConverges
INVARIANT EndReportedOnce
INVARIANT FreedRoomHasNoTicker
INVARIANT RecordsAreTrue
INVARIANT OnlineUnlessShared
CHECK_DEADLOCK FALSE
