\* Two plan-runs and an operator who types any verb at any time.
SPECIFICATION Spec
CONSTANTS
  d1 = d1
  d2 = d2
  t1 = t1
  t2 = t2
  Runners = {d1, d2}
  NoOne = NoOne
  Tasks = {t1}
  Depends <- OneTask
  Modes = {"park", "land"}
  OperatorVerbs = {"claim", "block", "release", "reopen", "cancel",
                   "reclaim", "finish", "touch", "delegate"}
  MaxEpoch = 2
  MaxCrashes = 0
  Prompt = FALSE
SYMMETRY Symmetry
INVARIANT LeaseMarksActive
 
PROPERTY LeaseNeverReused
