\* One participant submits twice, as one entry or as two versions; two workers.
\* One of the store's writes, removals and renames fails, two of the streams and of
\* the archive's files are lost, and the process dies twice, anywhere.
SPECIFICATION Spec
CONSTANTS
  p = p  w1 = w1  w2 = w2  none = none  bits = bits
  Participants = {p}
  MaxRev = 2
  MaxFails = 1
  Workers = {w1, w2}
  Digests = {bits}
  BytesOf <- SameBytes
  NoWorker = none
  MaxJobs = 3
  MaxLosses = 2
  MaxRestarts = 2
INVARIANT NothingIsForgotten
INVARIANT ReadyIsWhole
INVARIANT NumbersAreNotReused
PROPERTY RestartKeepsReady
SYMMETRY Symmetry
CHECK_DEADLOCK FALSE
