SPECIFICATION FairSupervisor
CONSTANTS
  s1 = s1
  s2 = s2
  s3 = s3
  Supervisors <- MCSupervisors
  NoOne = NoOne
CHECK_DEADLOCK FALSE
INVARIANTS
  OneProviderEver
  SealedIsOver
  StopIsFinal
PROPERTIES
  NeverStartedIsFinal
  StopReachesBoundary
