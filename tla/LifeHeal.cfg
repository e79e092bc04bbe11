CONSTANTS
  a = a
  b = b
  t1 = t1
  t2 = t2
  mon = mon
  rc = rc
  NoVM = NoVM
  VM = {a}
  Thread = {t1, t2, mon}
  Worker = {t1, t2}
  Monitor = mon
  HardMax = 1
  Root <- Alone
  SuspendableChoices = {TRUE}
  SlowOps = {"run", "stop", "suspend"}
SPECIFICATION FairSpec
INVARIANTS NoOrphanBusy
PROPERTIES WedgedHeals Converges
