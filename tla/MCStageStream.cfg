SPECIFICATION MCSpec
CONSTANTS
  MaxConns = 3
  MaxTurns = 2
  MaxEvents = 2
INVARIANTS StreamShowsTurn LatestIsRegistered
PROPERTY StreamsEnd
