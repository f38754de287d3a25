SPECIFICATION Spec
CONSTANTS
  Codes = {k1}
  NSeats = 2
  Workers = {w1, w2}
  MaxLaunches = 1
  MaxToken = 1
  NoLobby = NoLobby
  NoGame = NoGame
  NoRequest = NoRequest
INVARIANT ReadySeatsAreSeated
CHECK_DEADLOCK FALSE
