--------------------------- MODULE MCPatchLanding ---------------------------
(***************************************************************************)
(* Instances of PatchLanding for TLC: one reviewed task and two processes, *)
(* each of which lands it or runs --recover.                               *)
(***************************************************************************)
EXTENDS PatchLanding, TLC

CONSTANTS p1, p2

\* Processes are interchangeable: no definition tells them apart.
Symmetry == Permutations(Runners)

=============================================================================
