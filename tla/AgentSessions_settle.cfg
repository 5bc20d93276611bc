\* With MCP clients and overlapping evictions; the system may come to rest.
CONSTANTS
  s1 = s1
  s2 = s2
  p1 = p1
  p2 = p2
  p3 = p3
  Server <- TwoServers
  Prompt <- ThreePrompts
  MaxSessions = 3
  MaxCrashes = 1
  MaxEvictions = 2
  McpConnected = TRUE
SPECIFICATION FairSpec
CHECK_DEADLOCK FALSE
INVARIANT LockIsReturned
PROPERTY SubmitsSettle
