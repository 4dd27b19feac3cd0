SPECIFICATION Spec
CONSTANTS
  q1 = q1
  q2 = q2
  Questions = {q1, q2}
  RootQuestion = q1
  Subtree <- MCSubtree
  Ops = {o1, o2}
  NoOp = NoOp
  Actions = {"normal_switch", "forced_switch", "cancel", "resume", "prune"}
  MaxCycle = 3
  MaxEpoch = 3
  MaxInFlight = 2
SYMMETRY OpSymmetry
CONSTRAINT FewCommits
INVARIANTS
  SwitchTargetFresh
  BackgroundCyclesSuspended
  StageClosedOnce
  PassedStagesCommitted
  StrandedOnlyBySuccessor
PROPERTIES
  OneWay
CHECK_DEADLOCK FALSE
