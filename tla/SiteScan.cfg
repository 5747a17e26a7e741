\* Every tool, on seeds of every kind, with redirects, failures and documents of every kind.
CONSTANTS
  Calls <- MCCalls
  Paths <- MCPaths
  Redirects <- MCRedirects
  Documents <- MCDocuments
  SitemapPaths <- MCSitemapPaths
  LlmsPaths <- MCLlmsPaths
  Failures = {0, 404, 503}
SPECIFICATION Spec
INVARIANTS TypeOK GuardHolds SeedsAreTrusted HuntIsComplete SitemapLimit RobotsFollowsStatus
CHECK_DEADLOCK FALSE
