\* Without MCP clients eviction is one step; the system may come to rest.
CONSTANTS
  s1 = s1
  s2 = s2
  p1 = p1
  p2 = p2
  p3 = p3
  Server <- TwoServers
  Prompt <- ThreePrompts
  MaxSessions = 3
  MaxCrashes = 2
  MaxEvictions = 0
  McpConnected = FALSE
SPECIFICATION Spec
CHECK_DEADLOCK FALSE
INVARIANT TypeOK
INVARIANT OneWorkingAgent
