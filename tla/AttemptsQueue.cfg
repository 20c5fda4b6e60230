SPECIFICATION Spec
CONSTANTS
  MaxAttempts = 2
  Dispatchers = {d1, d2}
  Provider <- MCProvider
  Limits <- OneOfPOrAny
  MaxRunning = 2
  Kinds = {"review", "hard"}
  Tools = {"agent-supervisor"}
  Stalls = FALSE
  MaxFaults = 1
INVARIANT Capacity
INVARIANT ClosedMeansStopped
INVARIANT ResumeIsExclusive
PROPERTY TerminalIsFinal
SYMMETRY DispatcherSymmetry
CHECK_DEADLOCK FALSE
