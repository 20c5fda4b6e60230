\* Two plan-runs on one task, with and without --land; kills, TTLs and gc.
SPECIFICATION Spec
CONSTANTS
  d1 = d1
  d2 = d2
  t1 = t1
  t2 = t2
  Runners = {d1, d2}
  NoOne = NoOne
  Tasks = {t1}
  Depends <- OneTask
  Modes = {"park", "land"}
  OperatorVerbs = {}
  MaxEpoch = 3
  MaxCrashes = 2
  Prompt = TRUE
SYMMETRY Symmetry
INVARIANT TypeOK
 
INVARIANT FenceHolds
