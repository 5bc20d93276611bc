\* Two projects compete for one block, with the clean-up of orphans; calls end.
CONSTANTS
  p1 = p1
  p2 = p2
  c1 = c1
  c2 = c2
  c3 = c3
  Project <- TwoProjects
  Call <- TwoCalls
  ProjectOf <- TwoCallsOf
  Blocks = 1
  Faults = FALSE
  MaxOutages = 0
  MaxRestarts = 0
SPECIFICATION FairPodsSpec
CHECK_DEADLOCK FALSE
INVARIANT PodsTypeOK
INVARIANT BlocksDisjoint
PROPERTY CallsEnd
