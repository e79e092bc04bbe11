CONSTANTS
  b1 = b1
  r = r
  mon = mon
  Batch = {b1}
  Renamer = {r}
  Monitor = mon
  MaxName = 2
  Keep = 1
  Existing <- SomeExist
  Request <- Two
SPECIFICATION FairSpec
INVARIANTS NamesApart NameInv
PROPERTIES CancelledStops BatchEnds Shown
