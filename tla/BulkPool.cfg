\* Four urls, fetched by the plain loop or by up to three threads.
CONSTANTS
  NumUrls = 4
  MaxWorkers = 3
SPECIFICATION FairSpec
INVARIANTS TypeOK LinesFollowTheFile ExitTellsFailures QuietAtExit
PROPERTIES KeepsContract
CHECK_DEADLOCK FALSE
