------------------------------ MODULE PlanTask ------------------------------
(***************************************************************************)
(* One row of .oms/plan/tasks.json and the verbs of `oms agent-plan` on    *)
(* it, as agent_plan_core.py applies them.  The module has no variables: a *)
(* verb is a guard (Can...) and the row it leaves, and the modules that    *)
(* EXTEND this one say which process runs it and when.                     *)
(*                                                                         *)
(* A lease id (lease_<32 hex>) is minted together with the lease epoch and *)
(* never chosen by a caller, so a lease is named by the epoch that minted  *)
(* it; 0 is the empty string.                                              *)
(***************************************************************************)
EXTENDS Naturals

CONSTANTS
  Runners,   \* processes that may author a patch (a plan-run and its worker)
  NoOne      \* nobody: the author of no patch, the owner of a dead marker

ASSUME NoOneAssumption == NoOne \notin Runners

States == {"ready", "claimed", "running", "review", "landing",
           "done", "blocked", "cancelled"}

\* The states whose verbs are fenced by the lease.
Active == {"claimed", "running", "review", "landing"}

\* A patch is told apart by who wrote it, under which lease, and whether it
\* answers a failed landing (repair 1).
Patches == [by : Runners \cup {NoOne}, lease : Nat, repair : {0, 1}]
NoPatch == [by |-> NoOne, lease |-> 0, repair |-> 0]

\* aged: the clock claim_anchor() reads has run past its TTL.
\* cancelled: the row carries cancellation evidence.
Row == [state       : States,
        epoch       : Nat,
        lease       : Nat,
        reviewLease : Nat,
        patch       : Patches,
        repair      : {0, 1},
        cancelled   : BOOLEAN,
        aged        : BOOLEAN]

\* `add`
Added == [state |-> "ready", epoch |-> 0, lease |-> 0, reviewLease |-> 0,
          patch |-> NoPatch, repair |-> 0, cancelled |-> FALSE, aged |-> FALSE]

-----------------------------------------------------------------------------
\* require_current_lease: a supplied lease must be the current one, and a
\* caller outside a harness child may supply none.
Holds(r, l) == l \in {0, r.lease}

\* The digest a landing binds: every field but state, updated and the
\* fields a read computes.
Receipt(r) == [epoch |-> r.epoch, lease |-> r.lease, reviewLease |-> r.reviewLease,
               patch |-> r.patch, repair |-> r.repair]

Receipts == [epoch : Nat, lease : Nat, reviewLease : Nat,
             patch : Patches, repair : {0, 1}]

\* load() refuses the whole plan when evidence and state of a row disagree.
WellFormed(r) == r.cancelled <=> r.state = "cancelled"

-----------------------------------------------------------------------------
(* The verbs.  The operators marked "Slip" are broken variants of the one   *)
(* that follows; no specification uses them, they show what each property   *)
(* would catch.                                                             *)

\* issue_lease and the claim it is issued for (claim, next --claim).
CanClaim(r) == r.state = "ready"
Claimed(r) == [r EXCEPT !.state = "claimed", !.epoch = @ + 1,
                        !.lease = r.epoch + 1, !.aged = FALSE]

\* Slip: the lease survives the claim.
ClearClaimButLease(r) == [r EXCEPT !.state = "ready", !.aged = FALSE]

\* clear_claim keeps the review evidence, the epoch and the repair counter.
ClearClaim(r) == [r EXCEPT !.state = "ready", !.lease = 0, !.aged = FALSE]

\* Slip: a second `start` on the same claim succeeds.
CanStartTwice(r, l) == r.state \in {"claimed", "running"} /\ Holds(r, l)

CanStart(r, l) == r.state = "claimed" /\ Holds(r, l)
Started(r) == [r EXCEPT !.state = "running"]

\* `touch` restarts the clock the TTL of a claimed or running row runs on.
CanTouch(r, l) == r.state \in {"claimed", "running"} /\ Holds(r, l)
Touched(r) == [r EXCEPT !.aged = FALSE]

CanReview(r, l) == r.state \in {"claimed", "running"} /\ Holds(r, l)
Reviewed(r, p) == [r EXCEPT !.state = "review", !.patch = p,
                            !.reviewLease = r.lease, !.aged = FALSE]

\* The lease that produced a review, and no other, names it to a verb.
NamesReview(r, l) == /\ r.state = "review"
                     /\ l # 0
                     /\ l = r.lease
                     /\ l = r.reviewLease
                     /\ r.patch # NoPatch

\* Slip: the repair counter is not looked at.
CanRepairAgain(r, l) == NamesReview(r, l)
\* Slip: a task on its way through the landing gate is taken as reviewed.
CanRepairLate(r, l) == /\ r.state \in {"review", "landing"}
                       /\ l # 0 /\ l = r.lease /\ l = r.reviewLease
                       /\ r.repair = 0

CanRepair(r, l) == NamesReview(r, l) /\ r.repair = 0
Repaired(r) == [r EXCEPT !.state = "claimed", !.repair = 1, !.aged = FALSE]

CanLand(r, l, p) == NamesReview(r, l) /\ r.patch = p
Fenced(r) == [r EXCEPT !.state = "landing", !.aged = FALSE]

CanFinish(r, l, receipt) ==
  r.state = "landing" /\ Holds(r, l) /\ Receipt(r) = receipt
\* Slip: the verb's own name is stored as the state.
FinishedUnlisted(r) == [r EXCEPT !.state = "finish", !.aged = FALSE]

Finished(r) == [r EXCEPT !.state = "done", !.aged = FALSE]

\* finish --landed-commit closes a review with the proof of a pushed commit;
\* it asks for evidence, not for the lease the evidence was written under.
CanFinishCommit(r, l) == r.state = "review" /\ r.patch # NoPatch /\ Holds(r, l)

\* `block` is fenced by the lease in the active states only.
CanBlock(r, l) == r.state \in Active => Holds(r, l)
Blocked(r) == [r EXCEPT !.state = "blocked", !.aged = FALSE]

\* Slip: `release` does not ask for the lease.
CanReleaseUnfenced(r, l) == r.state \in Active

CanRelease(r, l) == r.state \in Active /\ Holds(r, l)
CanReopen(r) == r.state = "blocked"

CanRecover(r, l) == l # 0 /\ r.lease = l /\ r.state \in {"claimed", "running"}

CanCancel(r) == r.state \in {"ready", "blocked"} /\ ~r.cancelled
Cancelled(r) == [r EXCEPT !.state = "cancelled", !.cancelled = TRUE]

-----------------------------------------------------------------------------
(* What a delegated worker does when its frozen copy of the row no longer  *)
(* matches the plan: the claim cycle is put back only under an unchanged   *)
(* lease, authority and evidence fields always.                            *)

\* A heartbeat (claimed_at, updated) is no violation.
Violates(r, frozen) == Touched(r) # Touched(frozen)

\* Slip: the review lease is not put back with its patch.
RestoredPatchOnly(r, frozen) ==
  [r EXCEPT !.patch = frozen.patch, !.repair = frozen.repair,
            !.cancelled = frozen.cancelled]

RestoredEvidence(r, frozen) ==
  [r EXCEPT !.reviewLease = frozen.reviewLease, !.patch = frozen.patch,
            !.repair = frozen.repair, !.cancelled = frozen.cancelled]

\* Slip: the frozen row is written back whatever lease is current.
RestoredWholesale(r, frozen) == frozen

Restored(r, frozen) ==
  IF r.lease = frozen.lease /\ r.state # "blocked"
  THEN [RestoredEvidence(r, frozen) EXCEPT !.state = frozen.state,
                                           !.epoch = frozen.epoch]
  ELSE RestoredEvidence(r, frozen)

=============================================================================
