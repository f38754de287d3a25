SPECIFICATION Spec
CONSTANTS
  NPlayers = 2
  StartingPlayer = 0
  NoPlayer = NoPlayer
  NoOutcome = NoOutcome
  MaxTurns = 1
  MaxActions = 4
  MaxRepeats = 2
  MaxCombats = 2
  MaxStack = 2
  MaxModifiers = 2
PROPERTY GrantedCombatIsUsedUp
