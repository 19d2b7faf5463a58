\* Orders of each kind, with one Cancel anywhere.
\* A run ends: CHECK_DEADLOCK FALSE.
SPECIFICATION Spec
CONSTANTS
  Repeats = 2
  Leftovers <- Slots
  Orders <- OrdersOfEachKind
INVARIANT BlameIsEarned
INVARIANT CleanResultIsWhole
PROPERTY RunEnds
CHECK_DEADLOCK FALSE
