\* Two plan-runs that may repair a failed landing; one kill.
SPECIFICATION Spec
CONSTANTS
  d1 = d1
  d2 = d2
  t1 = t1
  t2 = t2
  Runners = {d1, d2}
  NoOne = NoOne
  Tasks = {t1}
  Depends <- OneTask
  Modes = {"park", "land", "auto"}
  OperatorVerbs = {}
  MaxEpoch = 2
  MaxCrashes = 1
  Prompt = TRUE
SYMMETRY Symmetry
INVARIANT OneWorkerPerLease
INVARIANT OnePatchPerLease
INVARIANT DoneMeansApplied
PROPERTY RepairOnce
