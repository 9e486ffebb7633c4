SPECIFICATION FairSpec
CONSTANTS
  a1 = a1
  a2 = a2
  a3 = a3
  h1 = h1
  h2 = h2
  Alerts = {a1, a2}
  Ignored = {}
  Threads = {h1}
  MaxQueue = 1
  Length <- ShortAndLong
  MaxLength = 3
  MaxRequests = 2
  MaxPost = 2
  MaxClock = 1
  MaxFaults = 0
  MaxCrashes = 0
PROPERTIES
  ImplementsFairFeed
  EveryPostAnswered
