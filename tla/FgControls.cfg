SPECIFICATION Spec
CONSTANTS
  q1 = q1
  q2 = q2
  Questions = {q1, q2}
  RootQuestion = q1
  Subtree <- MCSubtree
  Ops = {o1, o2}
  NoOp = NoOp
  Actions = {"pause", "resume", "cancel", "abandon", "normal_switch", "forced_switch", "prune", "restore"}
  MaxCycle = 2
  MaxEpoch = 2
  MaxInFlight = 1
SYMMETRY OpSymmetry
INVARIANTS
  SoleActiveGrant
  HeadMatchesCycle
  PendingIsCurrent
  ActiveQuestionPresent
  ActiveHeadHasGrant
CHECK_DEADLOCK FALSE
