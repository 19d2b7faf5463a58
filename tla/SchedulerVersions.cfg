\* Every submission is a version of its own, built into the archive first,
\* placed against a builtin and the rated rivals, or matched; a Send may fail
\* before the stream's reader notices.
SPECIFICATION SafetySpec
CONSTANTS
  p1 = p1  p2 = p2  c1 = c1  c2 = c2  w1 = w1  w2 = w2  s1 = s1  s2 = s2
  house = house  yard = yard  vs1 = vs1  vs2 = vs2  none = none  bot = bot
  Candidates = {c1, c2, bot}
  Versions = TRUE
  MaxRev = 2
  Clients = {p1, p2}
  NoClient = none
  Metered = TRUE
  Author <- AuthorEach
  Builtins = {bot}
  Groups = {house, vs1}
  Rivals <- RivalsOf
  PlacementGroups = {house}
  LadderSize = 1
  Archive = TRUE
  Matches = TRUE
  MaxActive = 1
  MaxQueued = 1
  MayCancel = FALSE
  Workers = {w1}
  Slots <- OneSlot
  Streams = {s1}
  NoStream = none
  WorkerOf <- OwnStream
  MayBreak = TRUE
  MaxJobs = 2
INVARIANT TypeOK
INVARIANT ReadyWasBuilt
INVARIANT LogIsCurrent
