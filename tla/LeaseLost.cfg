CONSTANTS
  a = a
  VM = {a}
  Slots = 1
  MaxOthers = 0
  Actor = {}
  MaxRestarts = 0
SPECIFICATION Spec
INVARIANTS LeaseKept
