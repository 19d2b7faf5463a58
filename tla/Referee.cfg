\* Two bots, two games, a stray connection.
SPECIFICATION Spec
CONSTANTS
  Players = {1, 2}
  PlayerA = 1
  Builtins <- MCBuiltins
  Specs = {1, 8}
  BotlessSeats <- MCBotlessSeats
  Games = 2
  Strays <- MCStrays
  Modes = {"bots", "builtins", "unknown"}
INVARIANT EveryoneHasOnePlace
INVARIANT SeatsAreAsAsked
CHECK_DEADLOCK FALSE
PROPERTY MatchEnds
