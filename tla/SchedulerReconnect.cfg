\* One worker id, two streams: the worker reconnects before its old stream ends.
SPECIFICATION SafetySpec
CONSTANTS
  p1 = p1  p2 = p2  c1 = c1  c2 = c2  w1 = w1  w2 = w2  s1 = s1  s2 = s2
  house = house  yard = yard  vs1 = vs1  vs2 = vs2  none = none  bot = bot
  Candidates = {c1, c2}
  Versions = TRUE
  MaxRev = 1
  Clients = {p1, p2}
  NoClient = none
  Metered = FALSE
  Author <- AuthorEach
  Builtins = {}
  Groups = {house}
  Rivals <- RivalsOf
  PlacementGroups = {house}
  LadderSize = 0
  Archive = FALSE
  Matches = FALSE
  MaxActive = 1
  MaxQueued = 1
  MayCancel = FALSE
  Workers = {w1}
  Slots <- OneSlot
  Streams = {s1, s2}
  NoStream = none
  WorkerOf <- SameWorker
  MayBreak = FALSE
  MaxJobs = 2
INVARIANT RequeuedWhenGone
CHECK_DEADLOCK FALSE
