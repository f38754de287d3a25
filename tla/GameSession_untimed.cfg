CONSTANTS
  Clients = {c1, c2}
  NoClient = NoClient
  NoDecision = NoDecision
  DecisionIds = {d1, d2}
  MaxGames = 2
  MaxStages = 1
  MaxDecisions = 1
  MaxRecoveries = 3
  HumanTimeout = FALSE
SPECIFICATION FairSpec
INVARIANTS QueueMatchesView
PROPERTIES ChoiceAnswersItsRevision RemovedSessionEnds
CHECK_DEADLOCK FALSE
