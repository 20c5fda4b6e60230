---------------------------- MODULE ApprovalInbox ----------------------------
(***************************************************************************)
(* What the approval inbox of lib/agent-events.py promises: the life of a  *)
(* one-use approval, from its request to the one result of its one use.    *)
(*                                                                         *)
(* Every command is a compare-and-set under the inbox lock: it names the   *)
(* version it has read, and a row of the ledger moves one approval to its  *)
(* next version.  Each move changes the state, so the state stands for the *)
(* version.  PatchLanding implements this specification.                   *)
(***************************************************************************)
CONSTANTS
  Approvals,   \* approval ids
  Action       \* [Approvals -> {"patch-land", "other"}]

VARIABLE inbox \* the projected ledger

Moves ==
  [none      |-> {"requested"},
   requested |-> {"approved", "denied", "expired"},
   approved  |-> {"consuming", "expired"},
   consuming |-> {"consumed", "failed", "interrupted"}]
Undecided == {"requested", "approved"}
States == DOMAIN Moves \cup {"denied", "expired", "consumed", "failed", "interrupted"}

\* late: expires_at has passed.
Approval == [state : States, late : BOOLEAN]

Init == inbox \in [Approvals -> [state : {"none", "requested"}, late : {FALSE}]]

Move(a, to) ==
  /\ inbox[a].state \in DOMAIN Moves /\ to \in Moves[inbox[a].state]
  /\ inbox' = [inbox EXCEPT ![a].state = to]

\* approval_effective_state: an undecided approval that is late is expired.
Usable(a) == ~(inbox[a].state \in Undecided /\ inbox[a].late)

Request(a) == Move(a, "requested")
Decide(a) == Usable(a) /\ (Move(a, "approved") \/ Move(a, "denied"))
BeginConsume(a) == Usable(a) /\ Move(a, "consuming")
FinishConsume(a) == Move(a, "consumed") \/ Move(a, "failed")

\* `expire --apply` records what is already so.
Expire(a) == ~Usable(a) /\ Move(a, "expired")

\* Only patch-land's own recovery, which has an intent and a tree to look at,
\* may settle a reservation of patch-land.
Reconcile(a) == Action[a] # "patch-land" /\ Move(a, "interrupted")

RunsOut(a) == ~inbox[a].late /\ inbox' = [inbox EXCEPT ![a].late = TRUE]

Next ==
  \E a \in Approvals :
    \/ Request(a) \/ Decide(a) \/ BeginConsume(a) \/ FinishConsume(a)
    \/ Expire(a) \/ Reconcile(a) \/ RunsOut(a)

Spec == Init /\ [][Next]_inbox

=============================================================================
