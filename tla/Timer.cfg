SPECIFICATION Spec
CONSTANTS
  t1 = t1
  t2 = t2
  t3 = t3
  Timer = {t1, t2, t3}
  TickMod = 8
  Times = {0, 1, 2}
SYMMETRY Same
INVARIANTS Consistent
PROPERTY OnTime
