\* Expected to fail: a submit arrives while evict() closes MCP clients.
CONSTANTS
  s1 = s1
  s2 = s2
  p1 = p1
  p2 = p2
  p3 = p3
  Server <- TwoServers
  Prompt <- ThreePrompts
  MaxSessions = 2
  MaxCrashes = 0
  MaxEvictions = 1
  McpConnected = TRUE
SPECIFICATION Spec
CHECK_DEADLOCK FALSE
INVARIANT OneWorkingAgent
