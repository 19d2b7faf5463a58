\* A resubmit while an order of the failed job before it is still out.
SPECIFICATION SafetySpec
CONSTANTS
  p1 = p1  p2 = p2  c1 = c1  c2 = c2  w1 = w1  w2 = w2  s1 = s1  s2 = s2
  house = house  yard = yard  vs1 = vs1  vs2 = vs2  none = none  bot = bot
  Candidates = {c1}
  Versions = FALSE
  MaxRev = 2
  Clients = {p1}
  NoClient = none
  Metered = FALSE
  Author <- AuthorSame
  Builtins = {}
  Groups = {house, yard}
  Rivals <- RivalsOf
  PlacementGroups = {house, yard}
  LadderSize = 0
  Archive = FALSE
  Matches = FALSE
  MaxActive = 1
  MaxQueued = 1
  MayCancel = FALSE
  Workers = {w1, w2}
  Slots <- OneSlot
  Streams = {s1, s2}
  NoStream = none
  WorkerOf <- OwnStream
  MayBreak = FALSE
  MaxJobs = 2
PROPERTY OnlyNewestCounts
CHECK_DEADLOCK FALSE
