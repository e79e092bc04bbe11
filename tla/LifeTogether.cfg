CONSTANTS
  a = a
  b = b
  t1 = t1
  t2 = t2
  mon = mon
  rc = rc
  NoVM = NoVM
  VM = {a, b}
  Thread = {t1, t2, mon}
  Worker = {t1, t2}
  Monitor = mon
  HardMax = 2
  Root <- OneFamily
  SuspendableChoices = {FALSE}
  SlowOps = {}
SPECIFICATION Spec
SYMMETRY Goroutines
INVARIANTS NeverTogether
