\* A payload that cannot be read ends the call.
CONSTANTS
  Calls <- MCCalls
  Paths <- MCPaths
  Redirects <- MCRedirects
  Documents <- MCDocuments
  SitemapPaths <- MCSitemapPaths
  LlmsPaths <- MCLlmsPaths
  Failures = {0, 404, 503}
SPECIFICATION Spec
INVARIANTS UnparseableIsEmpty
CHECK_DEADLOCK FALSE
