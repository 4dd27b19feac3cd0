SPECIFICATION Spec
CONSTANTS
  Runs = {r1, r2}
  Actions = {"pause", "resume", "cancel", "prune", "restore", "normal_switch", "bundle_switch", "forced_switch"}
  Features = {"restart"}
  MaxGen = 2
  MaxEpoch = 2
SYMMETRY RunSymmetry
INVARIANTS TypeOK RunsUnderALiveFence QuietWhenSuspended PausedMeansStopped CompletedUnderALiveFence
PROPERTY FrozenFenceKept
CHECK_DEADLOCK FALSE
