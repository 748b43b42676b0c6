SPECIFICATION FairSpec
CONSTANTS
  w1 = w1
  w2 = w2
  c1 = c1
  c2 = c2
  Work = {w1, w2}
  Client = {c1, c2}
  Worker = worker
  Null = null
INVARIANT Consistent
PROPERTIES OnlySubmittedRun SyncWaitsForTheEnd SubmittedRuns
CHECK_DEADLOCK FALSE
