SPECIFICATION FairSpec
CONSTANTS
  main = main
  a = a
  b = b
  idle = idle
  None = none
  Idle = idle
  Main = main
  Thread = {main, a, b, idle}
  Prio = {1, 2}
  InitPrio <- ThreePrio
  WaitObj = {}
  Slice = 1
  Ops = {"create", "startup", "exit", "close"}
  MaxNest = 1
  Disciplined = TRUE

PROPERTY ClosedReclaimed
