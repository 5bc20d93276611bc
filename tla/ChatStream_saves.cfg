\* Two requests to a new thread; requests end.
CONSTANTS
  NumGens = 2
  CallCounts = {2}
  MaxIterations = 1
  OldRounds = 0
  MaxEvents = 1
SPECIFICATION Spec
CHECK_DEADLOCK FALSE
INVARIANT TypeOK
INVARIANT SavedInOrder
INVARIANT SelectionIsComplete
INVARIANT CallsAnswered
INVARIANT NewestIsStoppable
INVARIANT SavedWhenDone
