\* Build retries, requeues and matches: every job ends once the fleet is stable.
SPECIFICATION Spec
CONSTANTS
  p1 = p1  p2 = p2  c1 = c1  c2 = c2  w1 = w1  w2 = w2  s1 = s1  s2 = s2
  house = house  yard = yard  vs1 = vs1  vs2 = vs2  none = none  bot = bot
  Candidates = {c1, c2}
  Versions = TRUE
  MaxRev = 1
  Clients = {p1}
  NoClient = none
  Metered = FALSE
  Author <- AuthorSame
  Builtins = {}
  Groups = {house, yard}
  Rivals <- RivalsOf
  PlacementGroups = {house, yard}
  LadderSize = 0
  Archive = TRUE
  Matches = FALSE
  MaxActive = 1
  MaxQueued = 1
  MayCancel = FALSE
  Workers = {w1}
  Slots <- TwoSlots
  Streams = {s1}
  NoStream = none
  WorkerOf <- OwnStream
  MayBreak = FALSE
  MaxJobs = 2
INVARIANT NoIdleSlot
PROPERTY EveryJobEnds
