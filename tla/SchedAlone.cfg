CONSTANTS
  loop = loop
  tk = tk
  VM = {1, 2, 3}
  HardMax = 2
  Root <- Apart
  Ticker = {loop}
  Loop = loop
  Template = {}
  Leased = {}
  Cap = {1}
  Mode = {"sequential", "random"}
  Exclusions <- OneExcluded
  Host <- AnyHost
  Outside = FALSE
SPECIFICATION FairSpec
PROPERTIES StartsUnderCap EveryOneRuns
