CONSTANTS
  a = a
  VM = {a}
  Slots = 1
  MaxOthers = 1
  Actor = {"caller"}
  MaxRestarts = 1
SPECIFICATION Spec
INVARIANTS NeverReapedEarly LeaseInv
PROPERTIES ViewSpec
