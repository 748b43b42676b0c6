SPECIFICATION FairSpec
CONSTANTS
  a = a
  sem = sem
  b = b
  c = c
  idle = idle
  Idle = idle
  Thread = {a, b, idle}
  Prio = {1,2,4}
  InitPrio <- PairPrio
  Slice = 1
  WaitObj = {sem}
  Fifo = {sem}
  Sem = sem
  SemMax = 1
  Ops = {"take", "release", "isr", "reset", "pause", "chprio", "detach"}
  Timed = {TRUE, FALSE}
INVARIANTS Consistent PermitsAccounted
PROPERTIES Implements EveryWaiterServed
CHECK_DEADLOCK FALSE
