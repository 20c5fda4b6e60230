\* Two commands, each a retirement, an init or (p1) an acceptance by itself, with
\* one kill, while the operator works on the plan, commits and copies archives
\* back.  Nobody has to type anything: the system may stop.
SPECIFICATION FairSpec
CONSTANTS
  p1 = p1
  p2 = p2
  Processes = {p1, p2}
  NoOne = NoOne
  Commands = {"retire", "accept", "init", "work", "restore", "commit"}
  Returns = FALSE
  MaxGen = 3
  MaxPlans = 2
  MaxHead = 1
  MaxProofs = 2
  Manual = {p1}
  MaxFaults = 1
INVARIANT AcceptedAsRetired
INVARIANT RetiredOnce
PROPERTY PlanKept
PROPERTY ReceiptedIsFrozen
PROPERTY RetirementFinishes
CHECK_DEADLOCK FALSE
