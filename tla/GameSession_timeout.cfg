CONSTANTS
  Clients = {c1, c2}
  NoClient = NoClient
  NoDecision = NoDecision
  DecisionIds = {d1}
  MaxGames = 1
  MaxStages = 1
  MaxDecisions = 1
  MaxRecoveries = 3
  HumanTimeout = TRUE
SPECIFICATION Spec
PROPERTIES ChoiceAnswersItsRevision
CHECK_DEADLOCK FALSE
