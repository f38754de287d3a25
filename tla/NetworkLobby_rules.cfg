SPECIFICATION FairSpec
CONSTANTS
  Codes = {k1}
  NSeats = 2
  Workers = {w1, w2}
  MaxLaunches = 2
  MaxToken = 1
  NoLobby = NoLobby
  NoGame = NoGame
  NoRequest = NoRequest
INVARIANTS TypeOK CodesAreUnique StartingIsLaunching NoSessionIsLost TakenSeatsHaveHolders
PROPERTIES StartingEnds ImplementsInvitations
CHECK_DEADLOCK FALSE
