\* A TLS error of the curl_cffi tier ends the call.
CONSTANTS
  Calls <- MCCalls
  Attempts = {0, 1, 2, 3}
  RetryOn <- MCRetryOn
  Statuses = {200, 403}
  RetryAfters = {0}
  BackoffInitial = 1
  BackoffFactor = 2
  RetryAfterCap = 3
SPECIFICATION Spec
INVARIANTS TlsErrorIsABlock
CHECK_DEADLOCK FALSE
