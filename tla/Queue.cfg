SPECIFICATION Spec
CONSTANTS
  a = a
  b = b
  c = c
  idle = idle
  Idle = idle
  Thread = {a, b, idle}
  Prio = {1, 4}
  InitPrio <- PeersPrio
  Slice = 1
  WaitObj = {rcv, snd}
  Fifo = {rcv, snd}
  rcv = rcv
  snd = snd
  Receivers = rcv
  Senders = snd
  Node = {1, 2}
  Null = 0
  x = x
  y = y
  Message = {x, y}
  NoMessage = none
  Ops = {"send", "urgent", "recv", "reset", "isr", "detach"}
  Timed = {TRUE}
SYMMETRY Same
INVARIANTS Consistent NoWakeUpLost
PROPERTY Implements
CHECK_DEADLOCK FALSE
