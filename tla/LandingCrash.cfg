SPECIFICATION Spec
CONSTANTS
  p1 = p1
  p2 = p2
  Runners = {p1, p2}
  NoOne = NoOne
  PlanVerbs = {}
  TreeMoves = {"restore"}
  Required = FALSE
  Expiry = TRUE
  MaxLandings = 3
  MaxGrants = 2
  MaxEpoch = 1
  MaxHead = 0
  MaxFaults = 3
SYMMETRY Symmetry
INVARIANT TypeOK
INVARIANT CompleteMeansRecorded
 
PROPERTY InboxImplemented
