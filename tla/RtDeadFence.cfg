SPECIFICATION Spec
CONSTANTS
  Runs = {r1}
  Actions = {"pause", "resume"}
  Features = {"ceiling"}
  MaxGen = 2
  MaxEpoch = 1
INVARIANT RunsUnderALiveFence
CHECK_DEADLOCK FALSE
