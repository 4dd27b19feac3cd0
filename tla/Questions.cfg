\* Growth of the tree against prune and restore, with the records the
\* recovery view offers.
SPECIFICATION SpecQuestions
CONSTANTS
  q0 = q0
  q1 = q1
  q2 = q2
  q3 = q3
  q4 = q4
  c1 = c1
  c2 = c2
  c3 = c3
  Questions <- MCQuestions
  Root = q0
  Parent <- MCParent
  Controls <- MCControls
  NoControl = NoControl
  SpentRecords = FALSE
SYMMETRY ControlSymmetry
CHECK_DEADLOCK FALSE
INVARIANTS
  FrozenScopeHolds
  OpenRecordsArePruned
  PrunedIsRecoverable
PROPERTY ControlOrphansNothing
