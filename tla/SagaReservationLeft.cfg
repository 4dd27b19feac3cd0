SPECIFICATION SpecSaga
CONSTANTS
  q0 = q0
  q1 = q1
  c1 = c1
  c2 = c2
  web = web
  recovery = recovery
  Questions <- MCQuestions
  Root = q0
  Parent <- MCParent
  Controls <- MCControls
  NoControl = NoControl
  SpentRecords = FALSE
  Drivers <- MCDrivers
  Recovery = recovery
  Kinds = {"prune"}
CHECK_DEADLOCK FALSE
INVARIANT AbortedReleasesRuntime
