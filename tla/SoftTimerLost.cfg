SPECIFICATION Spec
CONSTANTS
  t1 = t1
  t2 = t2
  Timer = {t1, t2}
  TickMod = 10
  Times = {1, 3}
  Preempting = TRUE
  MaxLate = 1
INVARIANT SleepsForTheFirst
