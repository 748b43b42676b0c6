SPECIFICATION FairSpec
CONSTANTS
  main = main
  a = a
  b = b
  idle = idle
  None = none
  Idle = idle
  Main = main
  Thread = {main, a, b, idle}
  Prio = {1, 2, 3}
  InitPrio <- EqualPrio
  WaitObj = {}
  Slice = 1
  Ops = {"startup"}
  MaxNest = 0
  Disciplined = TRUE
PROPERTY EveryoneGetsATurn
