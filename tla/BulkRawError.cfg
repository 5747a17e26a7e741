\* An exception other than FetchError costs its url, and all later ones, their lines.
CONSTANTS
  NumUrls = 2
  MaxWorkers = 2
SPECIFICATION Spec
INVARIANTS FailuresHaveLines
CHECK_DEADLOCK FALSE
