\* Expected to fail: a control prompt was folded, and the session is made again.
CONSTANTS
  RecentKeep = 2
  MaxMessages = 7
  MaxCalls = 2
  MaxLost = 0
  MaxRestarts = 1
  Crashes = FALSE
SPECIFICATION Spec
CHECK_DEADLOCK FALSE
INVARIANT NothingForgotten
