---------------------------- MODULE PatchLanding ----------------------------
(***************************************************************************)
(* `oms patch-land` and `oms patch-land --recover` on one plan task: the   *)
(* landings journal, the one-use approval, the working tree, the lineage   *)
(* rows and the plan row, written one after the other by processes that    *)
(* may die between any two of these writes.  PlanRun takes all of this as  *)
(* one fence, one apply and one finish; here every durable write is a step *)
(* and so is every read that a later write relies on.                      *)
(*                                                                         *)
(* A landing id is its position in the journal, and stands for the frozen  *)
(* copy .oms/landing-patches/<id>.patch as well.                           *)
(***************************************************************************)
EXTENDS PlanTask, Sequences, FiniteSets

CONSTANTS
  PlanVerbs,    \* verbs others apply to the row: subset of AllPlanVerbs
  TreeMoves,    \* what an operator does with git: subset of AllTreeMoves
  Required,     \* TRUE: OMS_REQUIRE_LANDING_APPROVAL, no landing without one
  Expiry,       \* TRUE: an approval may run out before it is used
  MaxLandings,  \* bound: intents in the journal
  MaxGrants,    \* bound: approvals
  MaxEpoch,     \* bound: claims of the task
  MaxHead,      \* bound: commits
  MaxFaults     \* bound: kills, failed writes and torn applies

AllPlanVerbs == {"claim", "review", "repair", "release", "block", "reopen"}
AllTreeMoves == {"commit", "advance", "restore", "edit"}

ASSUME LandingConstants ==
  /\ PlanVerbs \subseteq AllPlanVerbs
  /\ TreeMoves \subseteq AllTreeMoves
  /\ Required \in BOOLEAN
  /\ Expiry \in BOOLEAN
  /\ {MaxLandings, MaxGrants, MaxEpoch, MaxHead, MaxFaults} \subseteq Nat

VARIABLES
  row,      \* the plan row of the task
  frozen,   \* the landing whose frozen copy the row names as its patch; 0 none
  tree,     \* the repository landed into
  journal,  \* .oms/landings.jsonl: its intents and the terminals that match
  grants,   \* the approvals of this task
  lineage,  \* landings with a patch-land row in the artifact index
  lock,     \* holder of the landings lock, NoOne when free
  proc,     \* [Runners -> Process]: the patch-land each runner executes
  faults,   \* kills and failed writes so far
  landed,   \* history: landings whose patch went into the tree
  closed    \* history: landings whose done receipt was published

vars == <<row, frozen, tree, journal, grants, lineage, lock, proc, faults,
          landed, closed>>

-----------------------------------------------------------------------------
\* What the receipt of a row binds: the review evidence, the path it is
\* stored under, and the reason a `block` writes.
Digest(r, path) == [evidence |-> Receipt(r), path |-> path,
                    reason |-> r.state \in {"blocked", "cancelled"}]
Digests == [evidence : Receipts, path : Nat, reason : BOOLEAN]

\* committed and work: patches contained in HEAD and in the working tree.
\* edited: somebody changed the same lines, so the patch applies neither
\* forward nor in reverse.
Tree == [head : Nat, committed : SUBSET Patches, work : SUBSET Patches,
         edited : BOOLEAN]

Clean == tree.work = tree.committed /\ ~tree.edited
\* `git apply --check`, forward and --reverse.
Forward(p) == tree.work = {} /\ ~tree.edited
Reverse(p) == p \in tree.work /\ ~tree.edited

GrantStates == {"approved", "consuming", "consumed", "failed", "expired"}
\* late: expires_at has passed, whether or not `expire --apply` recorded it.
Grant == [state : GrantStates, patch : Patches, lease : Nat, base : Nat,
          late : BOOLEAN]

\* grant 0: the landing asks for no approval.
Intent == [patch : Patches, lease : Nat, receipt : Digests, base : Nat,
           grant : Nat, ended : SUBSET {"complete", "abandoned"}]

LandPcs == {"idle", "lock", "admit", "fence", "reserve", "apply", "consume",
            "record", "finish", "complete"}
SettlePcs == {"settleGrant", "settleShow", "settleRelease", "settleClose"}
RecoverPcs == {"decide", "superseded", "recFinish", "recLineage", "recGrant",
               "recClose"}

\* seen: the intent as it will be, or was, written.  ok: receipts_ok.
\* keep: PRESERVE_PLAN.
Process == [pc : LandPcs \cup SettlePcs \cup RecoverPcs, recover : BOOLEAN,
            id : Nat, seen : Intent, ok : BOOLEAN, keep : BOOLEAN]

NoIntent == [patch |-> NoPatch, lease |-> 0, receipt |-> Digest(Added, 0),
             base |-> 0, grant |-> 0, ended |-> {}]
Idle == [pc |-> "idle", recover |-> FALSE, id |-> 0, seen |-> NoIntent,
         ok |-> TRUE, keep |-> FALSE]

\* What a worker leaves in review: one patch per lease and repair round.
PatchOf(r) == [by |-> NoOne, lease |-> r.lease, repair |-> r.repair]

TypeOK ==
  /\ row \in Row
  /\ frozen \in Nat
  /\ tree \in Tree
  /\ journal \in Seq(Intent)
  /\ grants \in Seq(Grant)
  /\ lineage \subseteq Nat
  /\ lock \in Runners \cup {NoOne}
  /\ proc \in [Runners -> Process]
  /\ faults \in Nat
  /\ landed \subseteq Nat
  /\ closed \subseteq Nat

\* A reviewed task in a clean tree.
Init ==
  /\ row = Reviewed(Claimed(Added), PatchOf(Claimed(Added)))
  /\ frozen = 0
  /\ tree = [head |-> 0, committed |-> {}, work |-> {}, edited |-> FALSE]
  /\ journal = << >>
  /\ grants = << >>
  /\ lineage = {}
  /\ lock = NoOne
  /\ proc = [p \in Runners |-> Idle]
  /\ faults = 0
  /\ landed = {}
  /\ closed = {}

-----------------------------------------------------------------------------
\* Steps of one process.
Go(p, pc) == proc' = [proc EXCEPT ![p].pc = pc]
GoOk(p, pc, ok) == proc' = [proc EXCEPT ![p].pc = pc, ![p].ok = @ /\ ok]

\* The process exits and its EXIT trap releases the lock.
Exit(p) == proc' = [proc EXCEPT ![p] = Idle] /\ lock' = NoOne

\* --recover goes on with the next intent; a landing exits.
NextIntent(p) ==
  IF proc[p].recover /\ proc[p].id < Len(journal)
  THEN /\ proc' = [proc EXCEPT ![p] = [Idle EXCEPT !.pc = "decide", !.recover = TRUE,
                                                   !.id = proc[p].id + 1]]
       /\ lock' = lock
  ELSE Exit(p)

Mine(p) == journal[proc[p].id]
MayFail == faults < MaxFaults
Fault == MayFail /\ faults' = faults + 1

-----------------------------------------------------------------------------
(* A landing.                                                              *)

\* The review is read without a lock; the operator may name an approval.
Snapshot(p) ==
  /\ proc[p].pc = "idle" /\ Len(journal) < MaxLandings
  /\ NamesReview(row, row.lease)
  /\ \E g \in {0} \cup DOMAIN grants :
       proc' = [proc EXCEPT ![p].pc = "lock",
                            ![p].seen = [patch |-> row.patch, lease |-> row.lease,
                                         receipt |-> Digest(row, frozen), base |-> 0,
                                         grant |-> g, ended |-> {}]]
  /\ UNCHANGED <<row, frozen, tree, journal, grants, lineage, lock, faults,
                 landed, closed>>

\* The approval names this exact landing; whether it ran out is not looked at.
Approves(g, seen) ==
  \/ g = 0 /\ ~Required
  \/ /\ g # 0
     /\ grants[g].state = "approved"
     /\ grants[g].patch = seen.patch
     /\ grants[g].lease = seen.lease
     /\ grants[g].base = tree.head

\* Exit 75 when the lock is held; else capture, base, approval, clean tree.
Lock(p) ==
  /\ proc[p].pc = "lock"
  /\ IF lock = NoOne /\ Approves(proc[p].seen.grant, proc[p].seen) /\ Clean
     THEN /\ lock' = p
          /\ proc' = [proc EXCEPT ![p] =
                        [@ EXCEPT !.pc = "admit",
                                  !.seen = [proc[p].seen EXCEPT !.base = tree.head]]]
     ELSE /\ lock' = lock
          /\ proc' = [proc EXCEPT ![p] = Idle]
  /\ UNCHANGED <<row, frozen, tree, journal, grants, lineage, faults, landed, closed>>

\* Rejected by the gate, or the tree moved meanwhile, or no intent could be
\* written.
Refuse(p) ==
  /\ proc[p].pc = "admit"
  /\ Exit(p)
  /\ UNCHANGED <<row, frozen, tree, journal, grants, lineage, faults, landed, closed>>

\* The patch applies to HEAD and verifies there; against an unmoved, clean
\* tree the intent goes to the journal.
Admit(p) ==
  /\ proc[p].pc = "admit"
  /\ tree.committed = {}
  /\ tree.head = proc[p].seen.base /\ Clean
  /\ Len(journal) < MaxLandings
  /\ journal' = Append(journal, proc[p].seen)
  /\ proc' = [proc EXCEPT ![p].pc = "fence", ![p].id = Len(journal) + 1]
  /\ UNCHANGED <<row, frozen, tree, grants, lineage, lock, faults, landed, closed>>

\* `land`: the exact review, or nothing.
Fence(p) ==
  LET seen == proc[p].seen
      can == CanLand(row, seen.lease, seen.patch) /\ frozen = seen.receipt.path
  IN /\ proc[p].pc = "fence"
     /\ row' = IF can THEN Fenced(row) ELSE row
     /\ proc' = [proc EXCEPT ![p] =
          IF ~can THEN [@ EXCEPT !.pc = "settleGrant", !.keep = TRUE]
          ELSE [@ EXCEPT !.pc = IF seen.grant = 0 THEN "apply" ELSE "reserve"]]
     /\ UNCHANGED <<frozen, tree, journal, grants, lineage, lock, faults, landed,
                    closed>>

\* Slip: the approval was looked at before the intent and is not looked at again.
ReserveUnchecked(p) ==
  /\ proc[p].pc = "reserve"
  /\ grants' = [grants EXCEPT ![proc[p].seen.grant].state = "consuming"]
  /\ Go(p, "apply")
  /\ UNCHANGED <<row, frozen, tree, journal, lineage, lock, faults, landed, closed>>

\* approval-inbox begin-consume.
Reserve(p) ==
  LET g == proc[p].seen.grant
      can == grants[g].state = "approved" /\ ~grants[g].late
  IN /\ proc[p].pc = "reserve"
     /\ grants' = IF can THEN [grants EXCEPT ![g].state = "consuming"] ELSE grants
     /\ Go(p, IF can THEN "apply" ELSE "settleGrant")
     /\ UNCHANGED <<row, frozen, tree, journal, lineage, lock, faults, landed, closed>>

\* The patch that was admitted goes into the tree as it is now.
Apply(p) ==
  LET i == proc[p].id
      x == proc[p].seen.patch
  IN /\ proc[p].pc = "apply"
     /\ IF Forward(x)
        THEN /\ tree' = [tree EXCEPT !.work = @ \cup {x}]
             /\ landed' = landed \cup {i}
             /\ Go(p, IF proc[p].seen.grant = 0 THEN "record" ELSE "consume")
        ELSE /\ UNCHANGED <<tree, landed>>
             /\ Go(p, "settleGrant")
     /\ UNCHANGED <<row, frozen, journal, grants, lineage, lock, faults, closed>>

\* The captured bytes were changed, so they are not applied.
ApplyRefused(p) ==
  /\ proc[p].pc = "apply"
  /\ Fault
  /\ Go(p, "settleGrant")
  /\ UNCHANGED <<row, frozen, tree, journal, grants, lineage, lock, landed, closed>>

\* approval-inbox finish-consume --result consumed.
Consume(p) ==
  LET g == proc[p].seen.grant
      can == grants[g].state = "consuming"
  IN /\ proc[p].pc = "consume"
     /\ grants' = IF can THEN [grants EXCEPT ![g].state = "consumed"] ELSE grants
     /\ GoOk(p, "record", can)
     /\ UNCHANGED <<row, frozen, tree, journal, lineage, lock, faults, landed, closed>>

\* record_landing_lineage_once
Record(p) ==
  /\ proc[p].pc = "record"
  /\ lineage' = lineage \cup {proc[p].id}
  /\ Go(p, "finish")
  /\ UNCHANGED <<row, frozen, tree, journal, grants, lock, faults, landed, closed>>

\* `finish` compares the receipt and stores the frozen copy as the patch.
CanFinishLanding(r, path, seen) ==
  CanFinish(r, seen.lease, Receipt(r)) /\ Digest(r, path) = seen.receipt

FinishRow(i) ==
  row' = Finished(row) /\ frozen' = i /\ closed' = closed \cup {i}

Finish(p) ==
  LET can == CanFinishLanding(row, frozen, proc[p].seen)
  IN /\ proc[p].pc = "finish"
     /\ IF can THEN FinishRow(proc[p].id) ELSE UNCHANGED <<row, frozen, closed>>
     /\ GoOk(p, "complete", can)
     /\ UNCHANGED <<tree, journal, grants, lineage, lock, faults, landed>>

\* Slip: a not-applied-pending-receipt row counts as a terminal.
EndedByAnyRow(i, how) == journal' = [journal EXCEPT ![i].ended = @ \cup {how, "pending"}]

Ended(i, how) == journal' = [journal EXCEPT ![i].ended = @ \cup {how}]

\* Slip: a receipt that could not be written is only a warning.
CompleteAnyway(p) ==
  /\ proc[p].pc = "complete"
  /\ Ended(proc[p].id, "complete")
  /\ Exit(p)
  /\ UNCHANGED <<row, frozen, tree, grants, lineage, faults, landed, closed>>

\* Complete only if every receipt was written.
Complete(p) ==
  /\ proc[p].pc = "complete"
  /\ IF proc[p].ok THEN Ended(proc[p].id, "complete") ELSE journal' = journal
  /\ Exit(p)
  /\ UNCHANGED <<row, frozen, tree, grants, lineage, faults, landed, closed>>

-----------------------------------------------------------------------------
(* finish_not_applied_receipts, on behalf of a landing or of a recovery.   *)

\* approval_recover_finish failed: only a reserved grant is settled, and one
\* that expired before it was reserved is an error.
SettleGrant(p) ==
  LET g == Mine(p).grant
  IN /\ proc[p].pc = "settleGrant"
     /\ grants' = IF g # 0 /\ grants[g].state = "consuming"
                  THEN [grants EXCEPT ![g].state = "failed"] ELSE grants
     /\ GoOk(p, IF proc[p].keep THEN "settleClose" ELSE "settleShow",
             g # 0 => grants[g].state \in {"failed", "approved", "consuming"})
     /\ UNCHANGED <<row, frozen, tree, journal, lineage, lock, faults, landed, closed>>

\* Slip: only a row in review is released, one in landing is left alone.
SettleShowReviewOnly(p) ==
  LET exact == Digest(row, frozen) = Mine(p).receipt
  IN /\ proc[p].pc = "settleShow"
     /\ IF row.state = "review" /\ exact
        THEN Go(p, "settleRelease")
        ELSE GoOk(p, "settleClose", row.state # "done")
     /\ UNCHANGED <<row, frozen, tree, journal, grants, lineage, lock, faults, landed,
                    closed>>

\* plan_release_recover reads the row: the exact review is released, a later
\* receipt is kept.
SettleShow(p) ==
  LET exact == Digest(row, frozen) = Mine(p).receipt
  IN /\ proc[p].pc = "settleShow"
     /\ IF row.state \in {"review", "landing"} /\ exact
        THEN Go(p, "settleRelease")
        ELSE GoOk(p, "settleClose",
               \/ row.state = "ready" /\ row.lease = 0
               \/ row.state \in {"review", "landing"}
               \/ row.state \in {"claimed", "running", "blocked"} /\ ~exact)
     /\ UNCHANGED <<row, frozen, tree, journal, grants, lineage, lock, faults, landed,
                    closed>>

\* Its `release` names the lease, not the receipt.
SettleRelease(p) ==
  LET can == CanRelease(row, Mine(p).lease)
  IN /\ proc[p].pc = "settleRelease"
     /\ row' = IF can THEN ClearClaim(row) ELSE row
     /\ GoOk(p, "settleClose", can)
     /\ UNCHANGED <<frozen, tree, journal, grants, lineage, lock, faults, landed, closed>>

\* abandoned, or not-applied-pending-receipt.
SettleClose(p) ==
  /\ proc[p].pc = "settleClose"
  /\ IF proc[p].ok THEN Ended(proc[p].id, "abandoned") ELSE journal' = journal
  /\ NextIntent(p)
  /\ UNCHANGED <<row, frozen, tree, grants, lineage, faults, landed, closed>>

-----------------------------------------------------------------------------
(* --recover, under the landings lock, one intent after the other.         *)

Recover(p) ==
  /\ proc[p].pc = "idle" /\ lock = NoOne /\ journal # << >>
  /\ lock' = p
  /\ proc' = [proc EXCEPT ![p].pc = "decide", ![p].recover = TRUE, ![p].id = 1]
  /\ UNCHANGED <<row, frozen, tree, journal, grants, lineage, faults, landed, closed>>

DoneReceipt(i) == [journal[i].receipt EXCEPT !.path = i]

\* Slip: the receipt of the done row is expected before the row is done.
LandingByDoneReceipt(i) ==
  /\ row.state = "landing" /\ row.lease = journal[i].lease
  /\ Digest(row, frozen) = DoneReceipt(i)

\* Slip: a done row is compared with the receipt the intent was written with.
SupersededByAnyDone(i) ==
  /\ row.lease = journal[i].lease
  /\ row.state \in {"done", "landing"} /\ Digest(row, frozen) # journal[i].receipt

\* Slip: only a landing in progress supersedes.
SupersededByLanding(i) ==
  /\ row.lease = journal[i].lease
  /\ row.state = "landing" /\ Digest(row, frozen) # journal[i].receipt

\* plan_complete_, plan_landing_ and plan_superseding_receipt_converged.
DoneBy(i) == /\ row.state = "done" /\ row.lease = journal[i].lease
             /\ Digest(row, frozen) = DoneReceipt(i)
LandingBy(i) == /\ row.state = "landing" /\ row.lease = journal[i].lease
                /\ Digest(row, frozen) = journal[i].receipt
Superseded(i) ==
  /\ row.lease = journal[i].lease
  /\ \/ row.state = "done" /\ Digest(row, frozen) # DoneReceipt(i)
     \/ row.state = "landing" /\ Digest(row, frozen) # journal[i].receipt

GrantIn(i, states) == journal[i].grant = 0 \/ grants[journal[i].grant].state \in states
GrantDropped(i) == GrantIn(i, {"failed", "approved", "consumed", "expired"})

CompleteConverged(i) == i \in lineage /\ DoneBy(i) /\ GrantIn(i, {"consumed"})
AbandonedConverged(i) ==
  /\ \/ row.state = "ready" /\ row.lease = 0
     \/ /\ row.state \in {"review", "landing", "claimed", "running", "blocked"}
        /\ Digest(row, frozen) # journal[i].receipt
     \/ row.state = "done" /\ Superseded(i)
  /\ GrantDropped(i)

\* The terminals of the journal are hints: they count when the receipts agree.
Settled(i) == \/ "complete" \in journal[i].ended /\ CompleteConverged(i)
              \/ "abandoned" \in journal[i].ended /\ AbandonedConverged(i)

\* Slip: a patch that does not apply must be there already.
VerdictByElimination(i) ==
  CASE Settled(i) -> "skip"
    [] ~Settled(i) /\ Superseded(i) -> "superseded"
    [] OTHER -> IF Forward(journal[i].patch) THEN "absent" ELSE "applied"

\* Slip: once HEAD moved, a landing without a lineage row never happened.
VerdictMovedIsAbsent(i) ==
  CASE Settled(i) -> "skip"
    [] ~Settled(i) /\ Superseded(i) -> "superseded"
    [] ~Settled(i) /\ ~Superseded(i) /\ tree.head # journal[i].base ->
         IF i \notin lineage THEN "absent" ELSE "manual"
    [] OTHER -> IF Reverse(journal[i].patch) THEN "applied"
                ELSE IF Forward(journal[i].patch) THEN "absent" ELSE "manual"

\* What the tree says, once no newer receipt of the lease decides; nothing
\* is undone or redone when HEAD moved, unless the patch is provably absent.
Verdict(i) ==
  CASE Settled(i) -> "skip"
    [] ~Settled(i) /\ Superseded(i) -> "superseded"
    [] ~Settled(i) /\ ~Superseded(i) /\ tree.head # journal[i].base ->
         IF Forward(journal[i].patch) /\ i \notin lineage THEN "absent" ELSE "manual"
    [] OTHER -> IF Reverse(journal[i].patch) THEN "applied"
                ELSE IF Forward(journal[i].patch) THEN "absent" ELSE "manual"

Decide(p) ==
  LET i == proc[p].id
      verdict == Verdict(i)
      at(pc) == proc' = [proc EXCEPT ![p].pc = pc]
                /\ lock' = lock
  IN /\ proc[p].pc = "decide"
     /\ \/ verdict = "superseded" /\ at("superseded")
        \/ verdict = "absent" /\ at("settleGrant")
        \/ verdict = "applied" /\ DoneBy(i) /\ at("recLineage")
        \/ verdict = "applied" /\ LandingBy(i) /\ at("recFinish")
        \/ /\ verdict \in {"skip", "manual", "applied"}
           /\ verdict = "applied" => ~DoneBy(i) /\ ~LandingBy(i)
           /\ NextIntent(p)
     /\ UNCHANGED <<row, frozen, tree, journal, grants, lineage, faults, landed, closed>>

\* finish_superseded_plan_receipts settles the approval and leaves the plan.
Supersede(p) ==
  LET i == proc[p].id
      reserved == ~GrantDropped(i) /\ grants[journal[i].grant].state = "consuming"
  IN /\ proc[p].pc = "superseded"
     /\ grants' = IF reserved THEN [grants EXCEPT ![journal[i].grant].state = "failed"]
                  ELSE grants
     /\ GoOk(p, "settleClose", GrantDropped(i) \/ reserved)
     /\ UNCHANGED <<row, frozen, tree, journal, lineage, lock, faults, landed, closed>>

RecFinish(p) ==
  LET i == proc[p].id
  IN /\ proc[p].pc = "recFinish"
     /\ IF CanFinishLanding(row, frozen, journal[i])
        THEN FinishRow(i) /\ Go(p, "recLineage") /\ lock' = lock
        ELSE UNCHANGED <<row, frozen, closed>> /\ NextIntent(p)
     /\ UNCHANGED <<tree, journal, grants, lineage, faults, landed>>

RecLineage(p) ==
  /\ proc[p].pc = "recLineage"
  /\ lineage' = lineage \cup {proc[p].id}
  /\ Go(p, "recGrant")
  /\ UNCHANGED <<row, frozen, tree, journal, grants, lock, faults, landed, closed>>

\* approval_recover_finish ... consumed: a retry finds it consumed.
RecGrant(p) ==
  LET g == Mine(p).grant
  IN /\ proc[p].pc = "recGrant"
     /\ grants' = IF g # 0 /\ grants[g].state = "consuming"
                  THEN [grants EXCEPT ![g].state = "consumed"] ELSE grants
     /\ IF g # 0 => grants[g].state \in {"consuming", "consumed"}
        THEN Go(p, "recClose") /\ lock' = lock
        ELSE NextIntent(p)
     /\ UNCHANGED <<row, frozen, tree, journal, lineage, faults, landed, closed>>

RecClose(p) ==
  /\ proc[p].pc = "recClose"
  /\ Ended(proc[p].id, "complete")
  /\ NextIntent(p)
  /\ UNCHANGED <<row, frozen, tree, grants, lineage, faults, landed, closed>>

-----------------------------------------------------------------------------
(* Failures.                                                               *)

\* A write fails; the process reports it and goes on as the script does.
WriteFails(p) ==
  /\ Fault
  /\ \/ proc[p].pc = "consume" /\ GoOk(p, "record", FALSE) /\ lock' = lock
     \/ proc[p].pc = "record" /\ GoOk(p, "finish", FALSE) /\ lock' = lock
     \/ proc[p].pc = "finish" /\ GoOk(p, "complete", FALSE) /\ lock' = lock
     \/ /\ proc[p].pc = "settleGrant"
        /\ GoOk(p, IF proc[p].keep THEN "settleClose" ELSE "settleShow", FALSE)
        /\ lock' = lock
     \/ /\ proc[p].pc \in {"settleRelease", "superseded"}
        /\ GoOk(p, "settleClose", FALSE) /\ lock' = lock
     \/ /\ proc[p].pc \in {"recFinish", "recLineage", "recGrant", "recClose", "settleClose"}
        /\ NextIntent(p)
     \/ proc[p].pc = "complete" /\ Exit(p)
  /\ UNCHANGED <<row, frozen, tree, journal, grants, lineage, landed, closed>>

\* A process dies: its lock has a dead owner and is free.
Kill(p) ==
  /\ Fault
  /\ lock = p /\ Exit(p)
  /\ UNCHANGED <<row, frozen, tree, journal, grants, lineage, landed, closed>>

\* It dies while git writes the files of the patch, or just after.
KillInApply(p) ==
  /\ Fault
  /\ proc[p].pc = "apply" /\ Forward(proc[p].seen.patch)
  /\ \/ /\ tree' = [tree EXCEPT !.work = @ \cup {proc[p].seen.patch}]
        /\ landed' = landed \cup {proc[p].id}
     \/ tree' = [tree EXCEPT !.edited = TRUE] /\ landed' = landed
  /\ Exit(p)
  /\ UNCHANGED <<row, frozen, journal, grants, lineage, closed>>

-----------------------------------------------------------------------------
(* Everybody else.                                                         *)

PlanVerb(verb, can, r) ==
  /\ verb \in PlanVerbs /\ can
  /\ row' = r
  /\ UNCHANGED <<tree, journal, grants, lineage, lock, proc, faults, landed, closed>>

\* Verbs of plan-runs, workers and operators on the row; `start` makes no
\* difference here.
Others ==
  \/ PlanVerb("claim", CanClaim(row) /\ row.epoch < MaxEpoch, Claimed(row))
       /\ frozen' = frozen
  \/ PlanVerb("review", CanReview(row, row.lease), Reviewed(row, PatchOf(row)))
       /\ frozen' = 0
  \/ PlanVerb("repair", CanRepair(row, row.lease), Repaired(row)) /\ frozen' = frozen
  \/ PlanVerb("release", CanRelease(row, 0), ClearClaim(row)) /\ frozen' = frozen
  \/ PlanVerb("block", row.state # "blocked", Blocked(row)) /\ frozen' = frozen
  \/ PlanVerb("reopen", CanReopen(row), ClearClaim(row)) /\ frozen' = frozen

\* commit: what is in the tree.  advance: something unrelated.  restore: back
\* to HEAD.  edit: the lines a patch touches.
Git ==
  /\ \/ /\ "commit" \in TreeMoves /\ ~Clean /\ ~tree.edited /\ tree.head < MaxHead
        /\ tree' = [tree EXCEPT !.head = @ + 1, !.committed = tree.work]
     \/ /\ "advance" \in TreeMoves /\ tree.head < MaxHead
        /\ tree' = [tree EXCEPT !.head = @ + 1]
     \/ /\ "restore" \in TreeMoves /\ ~Clean
        /\ tree' = [tree EXCEPT !.work = tree.committed, !.edited = FALSE]
     \/ /\ "edit" \in TreeMoves /\ ~tree.edited
        /\ tree' = [tree EXCEPT !.edited = TRUE]
  /\ UNCHANGED <<row, frozen, journal, grants, lineage, lock, proc, faults, landed,
                 closed>>

\* An operator approves the landing of the review at the current HEAD.
Approve ==
  /\ Len(grants) < MaxGrants
  /\ NamesReview(row, row.lease)
  /\ grants' = Append(grants, [state |-> "approved", patch |-> row.patch,
                               lease |-> row.lease, base |-> tree.head, late |-> FALSE])
  /\ UNCHANGED <<row, frozen, tree, journal, lineage, lock, proc, faults, landed,
                 closed>>

\* An unused approval runs out; `expire --apply` records it.
Expire ==
  /\ Expiry
  /\ \E g \in DOMAIN grants :
       /\ grants[g].state = "approved"
       /\ grants' = IF grants[g].late THEN [grants EXCEPT ![g].state = "expired"]
                    ELSE [grants EXCEPT ![g].late = TRUE]
  /\ UNCHANGED <<row, frozen, tree, journal, lineage, lock, proc, faults, landed,
                 closed>>

-----------------------------------------------------------------------------
Landing(p) == \/ Snapshot(p) \/ Lock(p) \/ Refuse(p) \/ Admit(p) \/ Fence(p)
              \/ Reserve(p) \/ Apply(p) \/ ApplyRefused(p) \/ Consume(p)
              \/ Record(p) \/ Finish(p) \/ Complete(p)
Settling(p) == SettleGrant(p) \/ SettleShow(p) \/ SettleRelease(p) \/ SettleClose(p)
Recovering(p) == \/ Recover(p) \/ Decide(p) \/ Supersede(p) \/ RecFinish(p)
                 \/ RecLineage(p) \/ RecGrant(p) \/ RecClose(p)
Failing(p) == WriteFails(p) \/ Kill(p) \/ KillInApply(p)

Next == \/ \E p \in Runners : Landing(p) \/ Settling(p) \/ Recovering(p) \/ Failing(p)
        \/ Others \/ Git \/ Approve \/ Expire

Spec == Init /\ [][Next]_vars

-----------------------------------------------------------------------------
(* Properties.                                                             *)

Open(i) == i \in DOMAIN journal /\ journal[i].ended = {}

\* A row in landing always has an open intent with its exact receipt behind
\* it, so that recovery can close it: the intent is durable before the fence
\* and outlives every way the landing can end early.
LandingExplained ==
  row.state = "landing" =>
    \E i \in DOMAIN journal : Open(i) /\ journal[i].receipt = Digest(row, frozen)

\* A patch in the tree has an intent that is open or complete: no crash and no
\* recovery leaves a change in the tree that the journal calls not applied.
AppliedAccounted ==
  \A x \in tree.work : \E i \in DOMAIN journal :
    journal[i].patch = x /\ (Open(i) \/ "complete" \in journal[i].ended)

\* A done row names a landing whose intent is open or complete, and its patch
\* went into the tree.
DoneExplained ==
  row.state = "done" /\ frozen # 0 =>
    /\ Open(frozen) \/ "complete" \in journal[frozen].ended
    /\ \E k \in landed : journal[k].patch = row.patch

\* complete is written last: lineage row, done receipt and approval are there
\* and the patch was applied, by this landing or by another one of its review.
CompleteMeansRecorded ==
  \A i \in DOMAIN journal : "complete" \in journal[i].ended =>
    /\ i \in lineage /\ i \in closed
    /\ GrantIn(i, {"consumed"})
    /\ \E k \in landed : journal[k].patch = journal[i].patch

\* An approval lets one patch into the tree once, whatever dies and is retried,
\* and is recorded as consumed only if it did.
OneApplyPerGrant ==
  /\ \A i, k \in landed :
       journal[i].grant # 0 /\ journal[i].grant = journal[k].grant => i = k
  /\ \A g \in DOMAIN grants : grants[g].state = "consumed" =>
       \E k \in landed : journal[k].patch = grants[g].patch

\* An approval recorded as failed let nothing into the tree: recovery tells
\* consumed from failed by the intent and the tree.
FailedGrantUnused ==
  \A i \in landed : journal[i].grant # 0 => grants[journal[i].grant].state # "failed"

\* What lands is what was admitted: the patch goes onto the commit its
\* verification ran on.
AdmittedBaseLands ==
  [][\A i \in landed' \ landed : tree.head = journal[i].base]_vars

\* Releasing an unapplied landing never takes a row that has moved past the
\* receipt of its intent.
NewerReceiptSurvives ==
  [][\A p \in Runners : proc[p].pc = "settleRelease" /\ row' # row /\ proc'[p] # proc[p]
       => Digest(row, frozen) = Mine(p).receipt]_vars

\* The approvals as the inbox projects them; one not yet approved is requested.
InboxOf ==
  [g \in 1..MaxGrants |->
     IF g \in DOMAIN grants THEN [state |-> grants[g].state, late |-> grants[g].late]
     ELSE [state |-> "requested", late |-> FALSE]]

Inbox == INSTANCE ApprovalInbox WITH
  Approvals <- 1..MaxGrants, inbox <- InboxOf,
  Action <- [g \in 1..MaxGrants |-> "patch-land"]

\* Landings and recoveries, however they interleave, die and retry, use the
\* approvals only as the inbox allows: nothing that ran out is reserved, nothing
\* is reserved twice, settled twice, or settled without a reservation.
InboxImplemented == Inbox!Spec

-----------------------------------------------------------------------------
\* Live processes go on, and somebody runs --recover again and again.
Steps(p) ==
  \/ Lock(p) \/ Refuse(p) \/ Admit(p) \/ Fence(p) \/ Reserve(p) \/ Apply(p)
  \/ Consume(p) \/ Record(p) \/ Finish(p) \/ Complete(p) \/ Settling(p)
  \/ Decide(p) \/ Supersede(p) \/ RecFinish(p) \/ RecLineage(p) \/ RecGrant(p)
  \/ RecClose(p)

FairSpec == /\ Spec
            /\ \A p \in Runners : WF_vars(Steps(p))
            /\ SF_vars(\E p \in Runners : Recover(p))

\* A row in landing leaves it, unless a torn apply leaves the tree for a human.
LandingSettles == row.state = "landing" ~> row.state # "landing" \/ tree.edited

\* Every intent is closed, unless a torn apply leaves the tree for a human.
IntentsClose ==
  \A i \in 1 .. MaxLandings :
    Open(i) ~> ~Open(i) \/ tree.edited

\* An intent whose patch never went in is closed as not applied.
UnappliedCloses ==
  \A i \in 1 .. MaxLandings :
    Open(i) /\ landed = {} ~> ~Open(i) \/ landed # {} \/ tree.edited

=============================================================================
