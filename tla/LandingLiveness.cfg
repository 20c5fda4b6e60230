SPECIFICATION FairSpec
CONSTANTS
  p1 = p1
  p2 = p2
  Runners = {p1, p2}
  NoOne = NoOne
  PlanVerbs = {"review", "repair"}
  TreeMoves = {"edit"}
  Required = FALSE
  Expiry = FALSE
  MaxLandings = 3
  MaxGrants = 0
  MaxEpoch = 1
  MaxHead = 0
  MaxFaults = 3
PROPERTY LandingSettles
PROPERTY IntentsClose
