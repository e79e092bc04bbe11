CONSTANTS
  Base = {"web", "api"}
  MaxNum = 1
  Op = {"rename"}
  Onward = TRUE
  MaxRestarts = 1
SPECIFICATION FairSpec
PROPERTIES Listed
