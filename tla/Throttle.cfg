\* Three threads and two hosts, every interleaving; time may stand still.
CONSTANTS
  Threads = {t1, t2, t3}
  Hosts = {h1, h2}
  NoThread = NoThread
  Interval = 2
  MaxCalls = 3
  MaxTime = 2
SPECIFICATION FrozenSpec
INVARIANTS TypeOK SlotsSpaced NeverEarly WaitsBehindOwnHost
PROPERTIES CallersGetThrough
CHECK_DEADLOCK FALSE
