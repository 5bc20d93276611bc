\* Plan mode; events with a client, or with crashes; history. All may come to rest.
CONSTANTS
  MaxTurns = 2
  MaxSteps = 3
  Files = {f1, f2}
  MaxAnswers = 2
  None = None
  Unknown = Unknown
  RecentKeep = 2
  MaxMessages = 6
  MaxCalls = 2
  MaxLost = 1
  MaxRestarts = 1
SPECIFICATION PartsSpec
CHECK_DEADLOCK FALSE
INVARIANT TypesOK
INVARIANT ViewFollows
INVARIANT StoredStateWas
INVARIANT ConsentBeforeChange
INVARIANT WaitIsHeard
INVARIANT ProgressIsShown
INVARIANT SummaryStandsForRest
