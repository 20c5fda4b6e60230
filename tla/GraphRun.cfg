\* Three graphs, one of them twice: each run by one process at a time, the smallest by two.
SPECIFICATION Spec
CONSTANTS
  t1 = t1
  t2 = t2
  r1 = r1
  r2 = r2
  Tasks = {t1, t2}
  Runners = {r1, r2}
  Parent = Parent
  Nobody = Nobody
  NoNode = NoNode
  NoTask = NoTask
  MaxWalk = 16
  Specs <- Graphs
  Overlaps = {}
  Jobs = 2
  Patient = TRUE
  Requeued <- Ungated
  Contended <- OneStep
  MaxDecisions = 1
  MaxFaults = 1
SYMMETRY Swaps
INVARIANT GatedLanding
INVARIANT RepeatsPaid
PROPERTY OutcomeStable
CHECK_DEADLOCK FALSE
