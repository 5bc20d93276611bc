\* Settings, artifacts, decisions and the desktop, each on its own; all may come to rest.
CONSTANTS
  NumRequests = 2
  Names = {n1, n2}
  Packages = {s1, s2}
  Entries = {k1}
  Pictures = {i1}
  Requests = {r1, r2}
  MaxPolls = 1
  MaxStops = 2
  MaxAsked = 3
  MaxFaults = 1
  Approvals = {a1, a2}
  Questions = {q1}
  MaxNotes = 3
  None = None
SPECIFICATION PartsSpec
CHECK_DEADLOCK FALSE
INVARIANT TypesOK
INVARIANT NothingLost
PROPERTY CleaningEnds
INVARIANT ReferencesResolve
INVARIANT RowsHaveFiles
INVARIANT CardsAreLive
INVARIANT ConsentBeforeRun
PROPERTY FirstDecisionStands
PROPERTY WaitsEnd
INVARIANT StatusIsTrue
PROPERTY RequestsAreAnswered
