CONSTANTS
  a = a
  VM = {a}
  Slots = 1
  MaxOthers = 0
  Actor = {"user"}
  MaxRestarts = 0
SPECIFICATION FairSpec
INVARIANTS CloneProtected
PROPERTIES Reaped ProvisioningEnds
