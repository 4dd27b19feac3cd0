\* A restore may name a record that an earlier restore has used.
SPECIFICATION SpecQuestions
CONSTANTS
  q0 = q0
  q1 = q1
  q2 = q2
  q3 = q3
  q4 = q4
  c1 = c1
  c2 = c2
  c3 = c3
  Questions = {q0, q1}
  Root = q0
  Parent <- MCTwoParent
  Controls = {c1, c2, c3, c4}
  NoControl = NoControl
  SpentRecords = TRUE
CHECK_DEADLOCK FALSE
INVARIANT OpenRecordsArePruned
