\* Play: a client of three messages, a game of four; a worker's stream: four
\* messages through an outbox of two; a connection breaks anywhere.
\* A stream ends: CHECK_DEADLOCK FALSE.
SPECIFICATION StreamsSpec
CONSTANTS
  MaxOutbox = 2
  MaxSends = 4
  MaxMessages = 2
  kMaxOutbox = 2
  MaxFleetSends = 4
INVARIANT OneWriteInFlight
INVARIANT ConnectionOwnsFinish
PROPERTY CancelledEnds
PROPERTY AttachEnds
CHECK_DEADLOCK FALSE
