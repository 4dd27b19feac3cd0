SPECIFICATION SpecSaga
CONSTANTS
  q0 = q0
  q1 = q1
  c1 = c1
  c2 = c2
  web = web
  recovery = recovery
  Questions <- MCQuestions
  Root = q0
  Parent <- MCParent
  Controls <- MCControls
  NoControl = NoControl
  SpentRecords = FALSE
  Drivers <- MCDrivers
  Recovery = recovery
  Kinds = {"prune", "restore", "normal_switch", "forced_switch", "pause_run"}
CONSTRAINT Explored
SYMMETRY CommandSymmetry
CHECK_DEADLOCK FALSE
INVARIANTS
  SagaTypeOK
  AbortedFreesForeground
  SwitchTargetStaysActive
PROPERTY ImplementsOutcome
