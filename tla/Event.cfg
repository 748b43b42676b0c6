SPECIFICATION Spec
CONSTANTS
  a = a
  b = b
  c = c
  idle = idle
  Idle = idle
  Thread = {a, b, idle}
  Prio = {1, 2, 4}
  InitPrio <- PairPrio
  Slice = 1
  WaitObj = {ev}
  Fifo = {ev}
  ev = ev
  Ev = ev
  Bits = {1, 2}
  Ops = {"recv", "send", "isr", "reset", "detach"}
  Timed = {TRUE, FALSE}
INVARIANTS Consistent NoSatisfiedWaiter ReceivesWhatItAskedFor
PROPERTY NoBitLost
CHECK_DEADLOCK FALSE
