CONSTANTS
  Base = {"web"}
  MaxNum = 1
  Op = {"take", "delete", "restore"}
  Onward = FALSE
  MaxRestarts = 0
SPECIFICATION Spec
  
PROPERTIES NoneLost
