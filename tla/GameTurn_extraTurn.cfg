SPECIFICATION Spec
CONSTANTS
  NPlayers = 3
  StartingPlayer = 0
  NoPlayer = NoPlayer
  NoOutcome = NoOutcome
  MaxTurns = 2
  MaxActions = 4
  MaxRepeats = 2
  MaxCombats = 2
  MaxStack = 2
  MaxModifiers = 1
PROPERTY GrantedTurnIsNext
