SPECIFICATION Spec
CONSTANTS
  a1 = a1
  a2 = a2
  a3 = a3
  h1 = h1
  h2 = h2
  Alerts = {a1, a2, a3}
  Ignored = {a3}
  Threads = {h1, h2}
  MaxQueue = 2
  Length <- ShortAndLong
  MaxLength = 3
  MaxRequests = 3
  MaxPost = 1
  MaxClock = 2
  MaxFaults = 1
  MaxCrashes = 1
SYMMETRY Symmetry
INVARIANTS
  TypeOK
  TableMatchesStory
  StoryMakesSense
  EveryPushFits
  DiskFollows
PROPERTIES
  ImplementsFeed
CHECK_DEADLOCK FALSE
