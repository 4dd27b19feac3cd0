SPECIFICATION FairSpec
CONSTANTS
  Runs = {r1}
  Actions = {"resume", "cancel", "prune"}
  Features = {"restart", "human_wait", "ceiling", "run_scope", "rejection"}
  MaxGen = 3
  MaxEpoch = 1
INVARIANTS RunsOnlyIfAnswered CleanupMeansStopped
PROPERTIES ClosedStaysClosed CancelledIsCleaned
CHECK_DEADLOCK FALSE
