SPECIFICATION FairSpec
CONSTANTS
  main = main
  a = a
  b = b
  idle = idle
  None = none
  Idle = idle
  Main = main
  Thread = {main, a, idle}
  Prio = {1, 2}
  InitPrio <- MixedPrio
  WaitObj = {}
  Slice = 1
  Ops = {"create", "startup", "yield", "sleep", "exit", "chprio", "resume",
         "suspend", "close", "critical", "schedule"}
  MaxNest = 1
  Disciplined = TRUE
INVARIANT Consistent
PROPERTIES HighestRuns ClosedNeverRuns PreemptedGoesFirst TurnsEnd ClosedReclaimed
