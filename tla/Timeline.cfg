SPECIFICATION FairTimeline
CONSTANTS
  n1 = n1
  n2 = n2
  a = a
  b = b
  j1 = j1
  j2 = j2
  Nodes <- MCNodes
  Hashes <- MCHashes
  Gone = Gone
  Jobs <- MCJobs
  NoJob = NoJob
  NoSession = NoSession
  MaxChanges = 2
  MaxMishaps = 2
CHECK_DEADLOCK FALSE
INVARIANTS
  TimelineTypeOK
  NoNodeForgotten
  OneProviderAtATime
PROPERTIES
  SummaryNeverOlder
  EventuallyRead
