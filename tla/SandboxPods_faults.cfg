\* Two calls of one project and one of another, with faults; calls end.
CONSTANTS
  p1 = p1
  p2 = p2
  c1 = c1
  c2 = c2
  c3 = c3
  Project <- TwoProjects
  Call <- ThreeCalls
  ProjectOf <- ThreeCallsOf
  Blocks = 1
  Faults = TRUE
  MaxOutages = 1
  MaxRestarts = 1
SPECIFICATION UseSpec
CHECK_DEADLOCK FALSE
PROPERTY HandedOutPodsAreWhole
