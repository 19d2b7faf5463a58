\* Three versions and a builtin in pairs, three rounds, one restart anywhere.
SPECIFICATION Spec
CONSTANTS
  a = a  b = b  c = c  bot = bot
  Seats = 2
  Entries <- FourEntries
  Builtins = {bot}
  Rounds = 3
  MayGiveUp = TRUE
  MaxJobs = 7
  MaxRestarts = 1
INVARIANT NobodyPlaysTwice
INVARIANT RoundsDoNotOverlap
INVARIANT DrawIsFair
PROPERTY EveryRoundIsPlayed
CHECK_DEADLOCK FALSE
