\* Fair plan-runs without kills on two tasks, the second depending on the
\* first: a claim is always handed on or freed, and the dependent waits.
SPECIFICATION FairSpec
CONSTANTS
  d1 = d1
  d2 = d2
  t1 = t1
  t2 = t2
  Runners = {d1, d2}
  NoOne = NoOne
  Tasks = {t1, t2}
  Depends <- Chain
  Modes = {"park", "land"}
  OperatorVerbs = {}
  MaxEpoch = 2
  MaxCrashes = 0
  Prompt = TRUE
INVARIANT DependentsWait
PROPERTY ClaimIsFreed
