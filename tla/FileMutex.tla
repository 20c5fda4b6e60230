------------------------------ MODULE FileMutex ------------------------------
(***************************************************************************)
(* What the holders of a file lock are promised: at most one process is   *)
(* inside at any time, and it leaves when it releases the lock or dies.    *)
(* PlanRun and PatchLanding take exactly this of the locks they hold; the  *)
(* directory protocol of FileLock is shown to implement it.                *)
(***************************************************************************)
EXTENDS Naturals

CONSTANT Proc          \* processes that use the lock

VARIABLE inside        \* the processes in their critical section

Init == inside = {}

\* The lock is taken only when nobody is inside.
Enter(p) ==
  /\ inside = {}
  /\ inside' = {p}

\* Released, or freed by the death of its holder.
Exit(p) ==
  /\ p \in inside
  /\ inside' = inside \ {p}

Next == \E p \in Proc: Enter(p) \/ Exit(p)

Spec == Init /\ [][Next]_inside

=============================================================================
