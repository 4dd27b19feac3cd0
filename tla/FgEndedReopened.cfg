SPECIFICATION Spec
CONSTANTS
  q1 = q1
  q2 = q2
  Questions = {q1, q2}
  RootQuestion = q1
  Subtree <- MCSubtree
  Ops = {o1}
  NoOp = NoOp
  Actions = {"pause"}
  MaxCycle = 1
  MaxEpoch = 1
  MaxInFlight = 1
SYMMETRY OpSymmetry
INVARIANTS
  EndedStaysCompleted
CHECK_DEADLOCK FALSE
