SPECIFICATION FairSpec
CONSTANTS
  a = a
  b = b
  c = c
  idle = idle
  m1 = m1
  m2 = m2
  sem = sem
  None = none
  Idle = idle
  Thread = {a, b, c, idle}
  InitPrio <- StepPrio
  Mutex = {m1}
  WaitObj = {m1, sem}
  Fifo = {}
  Prio = {1, 2, 3, 4}
  Slice = 1
  Ops = {"take", "release", "trytake", "sem", "detach"}
  Timed = {TRUE, FALSE}
  Ceilings = {}
  Nested = FALSE
  HoldMax = 1
INVARIANT SuccessOwns
PROPERTIES Implements NoInversion
CHECK_DEADLOCK FALSE
