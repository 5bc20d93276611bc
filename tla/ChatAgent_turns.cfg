\* The coding agent's options, and the command-line host; an agent rests when nobody calls, so it may stop.
CONSTANTS
  NumPrompts = 3
  MaxAborts = 2
  Forced <- MCForced
  ToolBatches <- MCToolBatches
  Coalesce = FALSE
  DrainAtToolBoundary = TRUE
  AutoContinueOnEmpty = 1
  MaxNudges = 1
  MaxToolIterations = 3
  NudgeThreshold = 2
  HardLimit = 3
  Restorable = TRUE
SPECIFICATION HostsSpec
CHECK_DEADLOCK FALSE
INVARIANT TypeOK
INVARIANT NoStrandedPrompt
INVARIANT PromptAccounted
INVARIANT NoOvertaking
INVARIANT CallsAnswered
PROPERTY AbortStopsTurn
PROPERTY PromptsSettle
PROPERTY CliServesPrompts
