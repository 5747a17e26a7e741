\* Two workers, three urls on two hosts and a malformed one, and the clock.
CONSTANTS
  NumUrls = 4
  MaxWorkers = 2
  h1 = h1
  h2 = h2
  Hosts = {h1, h2}
  HostOf <- MCHostOf
  Delay = 2
  NoHost = NoHost
  NoThread = NoThread
  MaxTime = 1
SPECIFICATION PoliteFairSpec
INVARIANTS OneSlotPerUrl PaceIsKept
PROPERTIES ImplementsPool
CHECK_DEADLOCK FALSE
