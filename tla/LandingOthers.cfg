SPECIFICATION Spec
CONSTANTS
  p1 = p1
  p2 = p2
  Runners = {p1, p2}
  NoOne = NoOne
  PlanVerbs = {"claim", "review", "repair", "release", "block", "reopen"}
  TreeMoves = {"commit", "advance", "restore", "edit"}
  Required = FALSE
  Expiry = FALSE
  MaxLandings = 2
  MaxGrants = 0
  MaxEpoch = 2
  MaxHead = 1
  MaxFaults = 1
SYMMETRY Symmetry
INVARIANT LandingExplained
INVARIANT AppliedAccounted
INVARIANT DoneExplained
