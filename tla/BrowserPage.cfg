\* Three attempts, every combination of recordings, actions, waits and screenshots.
CONSTANTS
  MaxAttempts = 3
  Recordings = {"video", "har"}
  MaxActions = 2
  MaxWaits = 2
  MaxShots = 2
SPECIFICATION PageFairSpec
INVARIANTS PageTypeOK NothingRunsOn NoOrphans ActionsRunOnce ResponseShowsOnePage
PROPERTIES PathsReadInTime ImplementsTier
CHECK_DEADLOCK FALSE
