\* A participant resubmits under one id, cancelling what runs or not.
SPECIFICATION SafetySpec
CONSTANTS
  p1 = p1  p2 = p2  c1 = c1  c2 = c2  w1 = w1  w2 = w2  s1 = s1  s2 = s2
  house = house  yard = yard  vs1 = vs1  vs2 = vs2  none = none  bot = bot
  Candidates = {c1}
  Versions = FALSE
  MaxRev = 2
  Clients = {p1}
  NoClient = none
  Metered = TRUE
  Author <- AuthorSame
  Builtins = {}
  Groups = {house, yard}
  Rivals <- RivalsOf
  PlacementGroups = {house, yard}
  LadderSize = 0
  Archive = FALSE
  Matches = FALSE
  MaxActive = 1
  MaxQueued = 2
  MayCancel = TRUE
  Workers = {w1, w2}
  Slots <- TwoForOne
  Streams = {s1, s2}
  NoStream = none
  WorkerOf <- OwnStream
  MayBreak = FALSE
  MaxJobs = 2
INVARIANT LedgersAgree
INVARIANT OpenJobsHaveWork
INVARIANT QueueQuota
PROPERTY KeepsLedger
INVARIANT ToldOnce
PROPERTY VerdictsStand
