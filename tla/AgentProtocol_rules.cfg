CONSTANTS
  Keys = {k1, k2, k3}
  Scalars = {x}
  k1 = k1
  k2 = k2
  k3 = k3
  x = x
  p1 = p1
  p2 = p2
  a1 = a1
  a2 = a2
  Null = Null
  Absent = Absent
  Depth = 2
  Players = {p1, p2}
  DecisionIds = {d1}
  Actions = {a1, a2}
  UIActions = {a2}
  Options <- MCOptions
  None = None
  Observations <- MCObservations
  MaxConnections = 2
  ObservationStream <- MCStreams
  MaxDecisions <- MCMaxDecisions
SPECIFICATION FairSpec
INVARIANTS TypeOK PendingIsLive RegisteredIsServed UpdatesReconstruct ChoiceIsLegal
PROPERTIES StaleCannotUnregister LostOnlyToRival DecisionsAreMade
CHECK_DEADLOCK FALSE
