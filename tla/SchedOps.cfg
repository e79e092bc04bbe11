CONSTANTS
  loop = loop
  tk = tk
  VM = {1, 2}
  HardMax = 2
  Root <- TwoIsSnapshotOfOne
  Ticker = {loop, tk}
  Loop = loop
  Template = {}
  Leased = {}
  Cap = {1}
  Mode = {"sequential"}
  Exclusions <- NoneExcluded
  Host <- Always
  Outside = TRUE
SPECIFICATION FairSpec
INVARIANTS JobsInFlight
PROPERTIES ShownSpec ExpiredStops
