SPECIFICATION Spec
CONSTANTS
  a = a
  b = b
  c = c
  idle = idle
  m1 = m1
  m2 = m2
  sem = sem
  None = none
  Idle = idle
  Thread = {a, b, c, idle}
  InitPrio <- StepPrio
  Mutex = {m1, m2}
  WaitObj = {m1, m2, sem}
  Fifo = {}
  Prio = {1, 2, 3, 4}
  Slice = 1
  Ops = {"take", "release", "sem", "ceiling", "close"}
  Timed = {FALSE}
  Ceilings <- FirstOnly
  Nested = TRUE
  HoldMax = 2
INVARIANTS Consistent Inherits GivesBack
CHECK_DEADLOCK FALSE
