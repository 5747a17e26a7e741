\* The chain and its retry loops: every order of replies, 2 attempts per tier, 3 on one.
CONSTANTS
  Calls <- MCCalls
  Attempts = {0, 1, 2, 3}
  RetryOn <- MCRetryOn
  Statuses = {200, 202, 204, 302, 403, 404, 407, 410, 451, 999}
  RetryAfters = {7}
  BackoffInitial = 1
  BackoffFactor = 2
  RetryAfterCap = 3
SPECIFICATION FairSpec
INVARIANTS TypeOK EscalationIsFingerprintOnly RetriesKeepToPolicy
INVARIANTS RequestsAreAllowed ResultMatchesLastExchange SleepBounded
PROPERTIES KeepsContract
CHECK_DEADLOCK FALSE
