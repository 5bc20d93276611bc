\* Expected to fail: the question of the second round is edited.
CONSTANTS
  NumGens = 1
  CallCounts = {2}
  MaxIterations = 1
  OldRounds = 2
  MaxEvents = 1
SPECIFICATION Spec
CHECK_DEADLOCK FALSE
PROPERTY ContextIsWhatStandsAbove
