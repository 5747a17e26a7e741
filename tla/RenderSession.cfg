\* Every combination of recordings; every call may raise, and the browser may die.
CONSTANTS
  Recordings = {"video", "har"}
SPECIFICATION Spec
INVARIANTS TypeOK SessionEndsClean RecordingsAreHandedOver
PROPERTIES PathsReadInTime
CHECK_DEADLOCK FALSE
