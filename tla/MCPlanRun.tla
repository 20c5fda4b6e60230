------------------------------ MODULE MCPlanRun -----------------------------
(* Instances of PlanRun for TLC. *)
EXTENDS PlanRun, TLC

CONSTANTS d1, d2, t1, t2

\* One task, and a chain of two.
OneTask == t1 :> {}
Chain == (t1 :> {}) @@ (t2 :> {t1})

\* Runners are interchangeable: no definition tells them apart.
Symmetry == Permutations(Runners)

=============================================================================
