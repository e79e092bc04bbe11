CONSTANTS
  g1 = g1
  g2 = g2
  a1 = a1
  Caller = {g1, g2}
  Admin = {a1}
  NoCaller = nobody
  Job <- Jobs
  MaxWrites = 2
  Reader = {r1, r2}
  MaxFetches = 2
  MaxStarts = 1
  Subscriber = {s1}
  Changer = {c1, c2}
  Ticker = tick
  QueueLen = 2
  MaxChanges = 3
  Machine = {n1}
  MaxBoots = 2
  MaxArms = 1
  MaxRestarts = 1
  Field <- Sample
  Saver = {p1, p2}
  MaxPosts = 2
  MaxReloads = 1
  MaxSigns = 2
  Editor = {e1}
  MaxGuestBoots = 1
  MaxNames = 2
SPECIFICATION ServicesSpec
INVARIANTS ServicesInv SignedOut OneDownload NewerList EnrollOnce AppliedTrue
PROPERTIES TakesEffect LastShown StaleClosed SettingsKept CheckedPair NameLands
CHECK_DEADLOCK FALSE
