\* Two clients and a builtin, four moves, a budget of one unit of time.
SPECIFICATION Spec
CONSTANTS
  Seats = 3
  Remote = {1, 2}
  Length = 4
  MaxMoves = 4
  Budget = 1
  BuiltinsErr = TRUE
  MayShutDown = TRUE
  MaxInbox = 1
  MaxActions = 2
INVARIANT EndsOnce
INVARIANT ForfeitersRankLast
PROPERTY DeadlineIsFair
PROPERTY GameEnds
CHECK_DEADLOCK FALSE
