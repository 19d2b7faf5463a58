\* Three matches on two slots, a worker lost and back, a version placed meanwhile.
SPECIFICATION Spec
CONSTANTS
  v1 = v1  v2 = v2  v3 = v3  v4 = v4  bot = bot
  ann = ann  bob = bob  cyd = cyd
  Versions = {v1, v2, v3}
  Unbuilt = {v3}
  Fillers = {bot}
  Author <- AuthorOf
  PoolSize = 2
  Seats = 2
  kRecent = 1
  MaxSlots = 2
  MaxLosses = 1
  MaxMatches = 3
INVARIANT RunningIsOpen
PROPERTY NoQuickRematch
PROPERTY PoolKeepsPlaying
CHECK_DEADLOCK FALSE
