SPECIFICATION FairSpec
CONSTANTS
  t1 = t1
  t2 = t2
  Timer = {t1, t2}
  TickMod = 10
  Times = {1, 3}
  Preempting = FALSE
  MaxLate = 1
INVARIANTS Consistent SleepsForTheFirst
PROPERTIES FiresInTime
