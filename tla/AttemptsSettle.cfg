SPECIFICATION FairSpec
CONSTANTS
  MaxAttempts = 1
  Dispatchers = {d1, d2}
  Provider <- MCProvider
  Limits <- OneOfP
  MaxRunning = 1
  Kinds = {"review", "done", "hard"}
  Tools = {"agent-supervisor", "peer-delegate"}
  Stalls = TRUE
  MaxFaults = 2
INVARIANT CancelBeforeStart
INVARIANT AgreesWhenQuiet
PROPERTY AttemptSettles
CHECK_DEADLOCK FALSE
