SPECIFICATION Spec
CONSTANTS
  a = a
  b = b
  c = c
  idle = idle
  Idle = idle
  Thread = {a, b, idle}
  Prio = {1, 4}
  InitPrio <- PeersPrio
  Slice = 1
  pool = pool
  WaitObj = {pool}
  Fifo = {}
  Pool = pool
  HeapSize = 112
  BlockCount = 2
  BlockSize = 8
  ObjectSize = 16
  Sizes = {8, 40}
  MaxOwned = 2
  Together = FALSE
  Ops = {"malloc", "init", "create", "alloc", "delete", "isr"}
  Timed = {TRUE}
INVARIANTS Consistent FindsHole BlocksAccounted NoWakeUpLost
PROPERTY HeapImplements
CHECK_DEADLOCK FALSE
