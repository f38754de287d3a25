SPECIFICATION Spec
CONSTANTS
  NPlayers = 3
  StartingPlayer = 0
  NoPlayer = NoPlayer
  NoOutcome = NoOutcome
  MaxTurns = 2
  MaxActions = 4
  MaxRepeats = 2
  MaxCombats = 1
  MaxStack = 1
  MaxModifiers = 2
INVARIANTS TypeOK PriorityIsLive OutcomeIsDecided RoundsAreComplete
PROPERTIES GameStopsAtOutcome EveryStepProgresses
