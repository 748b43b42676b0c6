SPECIFICATION Spec
CONSTANTS
  a = a
  b = b
  c = c
  idle = idle
  Idle = idle
  Thread = {a, b, idle}
  Prio = {1, 2, 4}
  InitPrio <- PairPrio
  Slice = 1
  WaitObj = {rcv, snd}
  Fifo = {rcv, snd}
  rcv = rcv
  snd = snd
  Receivers = rcv
  Senders = snd
  Size = 2
  Mail = {1, 2}
  NoMail = 0
  Ops = {"send", "recv", "urgent", "reset", "isr", "detach"}
  Timed = {TRUE, FALSE}
INVARIANTS Consistent NoWakeUpLost
PROPERTY Implements
CHECK_DEADLOCK FALSE
