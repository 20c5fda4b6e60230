------------------------------ MODULE PlanRun -------------------------------
(***************************************************************************)
(* The plan under concurrent use.  Every runner is one `oms plan-run`      *)
(* process and the one `peer-delegate` worker it starts; runners share the *)
(* plan file (one step per locked verb or per unlocked read), the worker   *)
(* markers in .oms/delegations, the landings lock and the working tree.    *)
(* Garbage collection of dead markers, the TTL clocks and an operator at   *)
(* the command line act on the same state.                                 *)
(***************************************************************************)
EXTENDS PlanTask, FiniteSets

CONSTANTS
  Tasks,          \* task ids of the plan
  Depends,        \* [Tasks -> SUBSET Tasks], the `depends` of each task
  Modes,          \* how plan-run may be called: subset of AllModes
  OperatorVerbs,  \* verbs an operator may type: subset of AllOperatorVerbs
  MaxEpoch,       \* bound: claims of one task
  MaxCrashes,     \* bound: processes killed without their traps
  Prompt          \* TRUE: no TTL runs out while its claimant is still starting

\* --id or --next without --land; with --land; with --land --auto-repair.
AllModes == {"park", "land", "auto"}

AllOperatorVerbs == {"claim", "block", "release", "reopen", "cancel",
                     "reclaim", "finish", "touch", "delegate"}

ASSUME ConstantsAssumption ==
  /\ Tasks # {}
  /\ Depends \in [Tasks -> SUBSET Tasks]
  /\ Modes \subseteq AllModes
  /\ OperatorVerbs \subseteq AllOperatorVerbs
  /\ MaxEpoch \in Nat
  /\ MaxCrashes \in Nat
  /\ Prompt \in BOOLEAN

VARIABLES
  plan,      \* [Tasks -> Row]: .oms/plan/tasks.json
  markers,   \* worker markers: who is working on which task and lease
  drv,       \* [Runners -> Driver]: the plan-run of each runner
  wrk,       \* [Runners -> Worker]: the peer-delegate it started
  lander,    \* the runner holding the landings lock, NoOne when free
  applied,   \* [Tasks -> SUBSET Patches]: patches applied to the tree
  crashes    \* processes killed so far

vars == <<plan, markers, drv, wrk, lander, applied, crashes>>

-----------------------------------------------------------------------------
DriverPcs == {"idle", "pick", "claim", "adopt", "checks", "wait", "termShow",
              "termBlock", "land", "lock", "admit", "fence", "apply", "finish",
              "repair", "block", "stopping", "cleanup", "release"}

\* Which delivery of the task this is: the first, a repair this run asked
\* for, or an interrupted repair it resumed (RESUME_REPAIR).
Rounds == {"first", "repair", "resume"}

\* owns: CLAIMED=1 and KEEP_CLAIM=0.  seen: the review receipt the landing
\* was admitted for.
Driver == [pc : DriverPcs, mode : AllModes, task : Tasks, lease : Nat,
           owns : BOOLEAN, round : Rounds, seen : Receipts]

WorkerPcs == {"none", "boot", "snapped", "marked", "started", "working",
              "restoring", "publishing", "failing", "retrying", "exiting", "exited"}

\* term: --terminalize-resumed-repair.  frozen: the row as the provider's
\* operation snapshot took it.  ok: the exit status is zero.
Worker == [pc : WorkerPcs, task : Tasks, lease : Nat, term : BOOLEAN,
           frozen : Row, ok : BOOLEAN]

Marker == [task : Tasks, lease : Nat, by : Runners \cup {NoOne}]

NoTask == CHOOSE t \in Tasks : TRUE

\* A runner between two plan-runs, and one without a delegate.
IdleDriver == [pc |-> "idle", mode |-> "park", task |-> NoTask, lease |-> 0,
               owns |-> FALSE, round |-> "first", seen |-> Receipt(Added)]
NoWorker == [pc |-> "none", task |-> NoTask, lease |-> 0, term |-> FALSE,
             frozen |-> Added, ok |-> FALSE]

TypeOK ==
  /\ plan \in [Tasks -> Row]
  /\ markers \subseteq Marker
  /\ drv \in [Runners -> Driver]
  /\ wrk \in [Runners -> Worker]
  /\ lander \in Runners \cup {NoOne}
  /\ applied \in [Tasks -> SUBSET Patches]
  /\ crashes \in Nat

Init ==
  /\ plan = [t \in Tasks |-> Added]
  /\ markers = {}
  /\ drv = [d \in Runners |-> IdleDriver]
  /\ wrk = [d \in Runners |-> NoWorker]
  /\ lander = NoOne
  /\ applied = [t \in Tasks |-> {}]
  /\ crashes = 0

-----------------------------------------------------------------------------
(* Reading and writing the plan.                                           *)

\* Every command loads the whole plan first and dies on a malformed row.
Loads == \A t \in Tasks : WellFormed(plan[t])

DepsDone(t) == \A x \in Depends[t] : plan[x].state = "done"

\* A worker is live from its boot to its exit; its marker outlives a kill.
WorkerLive(d) == wrk[d].pc \notin {"none", "exited"}
LiveMarker(t, l) == \E m \in markers : m.task = t /\ m.lease = l /\ m.by # NoOne

\* Slip: the live worker is no veto.
ClaimExpiredByAge(t) == plan[t].state = "claimed" /\ plan[t].aged

\* claim_expired: TTL and anchor, with the exact live worker as a veto.
ClaimExpired(t) == /\ plan[t].state = "claimed"
                   /\ plan[t].aged
                   /\ ~LiveMarker(t, plan[t].lease)

\* Slip: an expired claim is offered whatever it depends on, and so is a ready
\* row.
ActionableEarly(t) == plan[t].state = "ready" \/ ClaimExpired(t)

Actionable(t) == DepsDone(t) /\ (plan[t].state = "ready" \/ ClaimExpired(t))

SetRow(t, r) == plan' = [plan EXCEPT ![t] = r]

DrvGo(d, pc) == drv' = [drv EXCEPT ![d].pc = pc]
WrkGo(d, pc) == wrk' = [wrk EXCEPT ![d].pc = pc]

\* plan-run leaves: through its EXIT trap when it may still own the claim.
Leave(d) == IF drv[d].owns THEN [drv[d] EXCEPT !.pc = "cleanup"] ELSE IdleDriver

-----------------------------------------------------------------------------
(* plan-run: pre-flight and claim.                                         *)

\* The pre-flight `reclaim`: every claimed row whose TTL ran out unprotected.
Begin(d) ==
  /\ drv[d].pc = "idle" /\ ~WorkerLive(d)
  /\ plan' = IF Loads
             THEN [t \in Tasks |-> IF ClaimExpired(t) THEN ClearClaim(plan[t])
                                   ELSE plan[t]]
             ELSE plan
  /\ \E m \in Modes : drv' = [drv EXCEPT ![d].pc = "pick", ![d].mode = m]
  /\ UNCHANGED <<markers, wrk, lander, applied, crashes>>

\* --next: `next --claim` offers an expired claim as well and mints the
\* lease that fences its holder.
ClaimNext(d, t) ==
  /\ drv[d].pc = "pick"
  /\ Loads /\ Actionable(t)
  /\ plan[t].epoch < MaxEpoch
  /\ SetRow(t, Claimed(plan[t]))
  /\ drv' = [drv EXCEPT ![d].pc = "checks", ![d].task = t, ![d].owns = TRUE,
                        ![d].lease = plan[t].epoch + 1]
  /\ UNCHANGED <<markers, wrk, lander, applied, crashes>>

\* A repair a killed plan-run left behind: one claimed row that still names
\* the lease of its own review.
InterruptedRepair(r) ==
  r.state = "claimed" /\ r.repair = 1 /\ r.lease # 0 /\ r.reviewLease = r.lease

\* --id: one `show` decides between claiming, continuing a review and
\* resuming a repair; anything else is refused.
LookUp(d, t) ==
  /\ drv[d].pc = "pick"
  /\ LET r == plan[t]
         go(pc, round) == [drv[d] EXCEPT !.pc = pc, !.task = t, !.lease = r.lease,
                                         !.round = round]
     IN drv' = [drv EXCEPT ![d] =
          CASE ~Loads -> IdleDriver
            [] Loads /\ r.state = "ready" -> [go("claim", "first") EXCEPT !.lease = 0]
            [] Loads /\ r.state = "review" /\ drv[d].mode # "park"
                 /\ r.lease # 0 /\ r.patch # NoPatch -> go("land", "first")
            [] Loads /\ InterruptedRepair(r) /\ drv[d].mode = "auto"
                 /\ r.patch # NoPatch -> go("checks", "resume")
            [] OTHER -> IdleDriver]
  /\ UNCHANGED <<plan, markers, wrk, lander, applied, crashes>>

\* Nothing actionable, or a caller that gives up before claiming.
GiveUp(d) ==
  /\ drv[d].pc = "pick"
  /\ drv' = [drv EXCEPT ![d] = IdleDriver]
  /\ UNCHANGED <<plan, markers, wrk, lander, applied, crashes>>

ClaimId(d) ==
  LET t == drv[d].task
      can == Loads /\ CanClaim(plan[t]) /\ DepsDone(t) /\ plan[t].epoch < MaxEpoch
  IN /\ drv[d].pc = "claim"
     /\ plan' = IF can THEN [plan EXCEPT ![t] = Claimed(@)] ELSE plan
     /\ drv' = [drv EXCEPT ![d] = IF can THEN [@ EXCEPT !.pc = "adopt", !.owns = TRUE]
                                  ELSE IdleDriver]
     /\ UNCHANGED <<markers, wrk, lander, applied, crashes>>

\* The lease of a --id claim is read back by a second, unlocked `show`.
Adopt(d) ==
  LET r == plan[drv[d].task]
      resumes == InterruptedRepair(r)
  IN /\ drv[d].pc = "adopt"
     /\ drv' = [drv EXCEPT ![d] =
          IF ~Loads THEN Leave(d)
          ELSE IF resumes /\ (drv[d].mode # "auto" \/ r.patch = NoPatch)
          THEN [@ EXCEPT !.pc = "cleanup", !.lease = r.lease]
          ELSE [@ EXCEPT !.pc = "checks", !.lease = r.lease,
                         !.round = IF resumes THEN "resume" ELSE "first"]]
     /\ UNCHANGED <<plan, markers, wrk, lander, applied, crashes>>

\* Scope, verifier precondition or the failure ledger refuses the run.
ChecksFail(d) ==
  /\ drv[d].pc = "checks"
  /\ drv' = [drv EXCEPT ![d] = Leave(d)]
  /\ UNCHANGED <<plan, markers, wrk, lander, applied, crashes>>

Boot(t, term) == [NoWorker EXCEPT !.pc = "boot", !.task = t, !.term = term]

\* The delegate gets the task id, never the lease.
Delegate(d) ==
  /\ drv[d].pc = "checks"
  /\ wrk' = [wrk EXCEPT ![d] = Boot(drv[d].task, drv[d].round = "resume")]
  /\ DrvGo(d, "wait")
  /\ UNCHANGED <<plan, markers, lander, applied, crashes>>

\* `wait` returns: a delivered task lands or parks in review; a failed one
\* leaves through the trap, a failed repair is parked by its one-shot rule.
Reap(d) ==
  /\ drv[d].pc = "wait" /\ wrk[d].pc = "exited"
  /\ drv' = [drv EXCEPT ![d] =
       IF wrk[d].ok
       THEN IF @.mode = "park" THEN IdleDriver
            ELSE [@ EXCEPT !.pc = "land", !.owns = FALSE]
       ELSE CASE @.round = "first"  -> Leave(d)
              [] @.round = "resume" -> [@ EXCEPT !.pc = "termShow"]
              [] @.round = "repair" -> [@ EXCEPT !.pc = "block"]]
  /\ wrk' = [wrk EXCEPT ![d] = NoWorker]
  /\ UNCHANGED <<plan, markers, lander, applied, crashes>>

\* terminalize_resumed_repair_failure reads the row and blocks it under the
\* exact lease; a ready row is refused, a blocked one is already converged.
TermShow(d) ==
  LET r == plan[drv[d].task]
  IN /\ drv[d].pc = "termShow"
     /\ drv' = [drv EXCEPT ![d] =
          IF /\ Loads /\ r.repair = 1 /\ r.reviewLease = @.lease
             /\ r.state \in Active /\ r.lease = @.lease
          THEN [@ EXCEPT !.pc = "termBlock"]
          ELSE IF Loads /\ r.repair = 1 /\ r.reviewLease = @.lease /\ r.state = "blocked"
          THEN IdleDriver ELSE Leave(d)]
     /\ UNCHANGED <<plan, markers, wrk, lander, applied, crashes>>

\* `block --lease-id LEASE_ID` of this process, whatever happened since it
\* read the lease.
BlockByLease(d, next) ==
  LET t == drv[d].task
      can == Loads /\ CanBlock(plan[t], drv[d].lease)
  IN /\ plan' = IF can THEN [plan EXCEPT ![t] = Blocked(@)] ELSE plan
     /\ drv' = [drv EXCEPT ![d] = next]
     /\ UNCHANGED <<markers, wrk, lander, applied, crashes>>

TermBlock(d) == drv[d].pc = "termBlock" /\ BlockByLease(d, Leave(d))
ParkFailedRepair(d) == drv[d].pc = "block" /\ BlockByLease(d, IdleDriver)

\* Slip: the trap frees a claim its worker never started, and no other.
CleanupShowClaimed(d) ==
  LET r == plan[drv[d].task]
  IN /\ drv[d].pc = "cleanup"
     /\ drv' = [drv EXCEPT ![d] =
          IF Loads /\ r.state = "claimed" /\ r.lease = @.lease
          THEN [@ EXCEPT !.pc = "release"] ELSE IdleDriver]
     /\ UNCHANGED <<plan, markers, wrk, lander, applied, crashes>>

\* release_claim: `show`, then `release` under the lease of this run.
CleanupShow(d) ==
  LET r == plan[drv[d].task]
  IN /\ drv[d].pc = "cleanup"
     /\ drv' = [drv EXCEPT ![d] =
          IF Loads /\ r.state \in {"claimed", "running"} /\ r.lease = @.lease
          THEN [@ EXCEPT !.pc = "release"] ELSE IdleDriver]
     /\ UNCHANGED <<plan, markers, wrk, lander, applied, crashes>>

CleanupRelease(d) ==
  LET t == drv[d].task
      can == Loads /\ CanRelease(plan[t], drv[d].lease)
  IN /\ drv[d].pc = "release"
     /\ plan' = IF can THEN [plan EXCEPT ![t] = ClearClaim(@)] ELSE plan
     /\ drv' = [drv EXCEPT ![d] = IdleDriver]
     /\ UNCHANGED <<markers, wrk, lander, applied, crashes>>

\* HUP, INT or TERM: the trap stops the worker, then releases the claim.
Signal(d) ==
  /\ drv[d].pc \in {"adopt", "checks", "wait"}
  /\ drv' = [drv EXCEPT ![d] = IF @.pc = "wait" THEN [@ EXCEPT !.pc = "stopping"]
                               ELSE Leave(d)]
  /\ UNCHANGED <<plan, markers, wrk, lander, applied, crashes>>

Stopped(d) ==
  /\ drv[d].pc = "stopping" /\ ~WorkerLive(d)
  /\ drv' = [drv EXCEPT ![d] = Leave(d)]
  /\ wrk' = [wrk EXCEPT ![d] = NoWorker]
  /\ UNCHANGED <<plan, markers, lander, applied, crashes>>

-----------------------------------------------------------------------------
(* plan-run --land: patch-land, and the one bounded repair.                *)

\* patch-land exits nonzero.  A first failure buys one repair under the
\* lease of the review; later ones leave the review parked.
LandFails(d) ==
  IF drv[d].mode = "auto" /\ drv[d].round = "first"
  THEN [drv[d] EXCEPT !.pc = "repair"] ELSE IdleDriver

\* The review is read once; the fence and the finish compare with this copy.
LandSnapshot(d) ==
  LET r == plan[drv[d].task]
  IN /\ drv[d].pc = "land"
     /\ drv' = [drv EXCEPT ![d] =
          IF Loads /\ NamesReview(r, r.lease)
          THEN [@ EXCEPT !.pc = "lock", !.seen = Receipt(r)] ELSE LandFails(d)]
     /\ UNCHANGED <<plan, markers, wrk, lander, applied, crashes>>

\* A busy lock is exit 75, one more failed landing to plan-run.
LandLock(d) ==
  /\ drv[d].pc = "lock"
  /\ IF lander = NoOne
     THEN lander' = d /\ DrvGo(d, "admit")
     ELSE lander' = lander /\ drv' = [drv EXCEPT ![d] = LandFails(d)]
  /\ UNCHANGED <<plan, markers, wrk, applied, crashes>>

\* patch-admit verifies the captured patch on a throwaway worktree.
Admit(d) ==
  /\ drv[d].pc = "admit"
  /\ \/ DrvGo(d, "fence") /\ lander' = lander
     \/ drv' = [drv EXCEPT ![d] = LandFails(d)] /\ lander' = NoOne
  /\ UNCHANGED <<plan, markers, wrk, applied, crashes>>

\* Slip: the task is finished before the patch is applied.
FenceThenFinish(d) ==
  LET t == drv[d].task
      can == Loads /\ CanLand(plan[t], drv[d].seen.lease, drv[d].seen.patch)
  IN /\ drv[d].pc = "fence" /\ can
     /\ SetRow(t, Fenced(plan[t]))
     /\ DrvGo(d, "finish")
     /\ UNCHANGED <<markers, wrk, lander, applied, crashes>>

\* `land`: review -> landing, compared with the admitted review.
Fence(d) ==
  LET t == drv[d].task
      can == Loads /\ CanLand(plan[t], drv[d].seen.lease, drv[d].seen.patch)
  IN /\ drv[d].pc = "fence"
     /\ plan' = IF can THEN [plan EXCEPT ![t] = Fenced(@)] ELSE plan
     /\ drv' = [drv EXCEPT ![d] = IF can THEN [@ EXCEPT !.pc = "apply"] ELSE LandFails(d)]
     /\ lander' = IF can THEN lander ELSE NoOne
     /\ UNCHANGED <<markers, wrk, applied, crashes>>

\* git apply refuses: the row goes back to ready if it is still the one the
\* intent froze (plan_release_recover), and the landing fails.
ApplyFails(d) ==
  LET t == drv[d].task
      can == /\ Loads /\ plan[t].state \in {"review", "landing"}
             /\ Receipt(plan[t]) = drv[d].seen
  IN /\ drv[d].pc = "apply"
     /\ plan' = IF can THEN [plan EXCEPT ![t] = ClearClaim(@)] ELSE plan
     /\ drv' = [drv EXCEPT ![d] = LandFails(d)]
     /\ lander' = NoOne
     /\ UNCHANGED <<markers, wrk, applied, crashes>>

Apply(d) ==
  /\ drv[d].pc = "apply"
  /\ applied' = [applied EXCEPT ![drv[d].task] = @ \cup {drv[d].seen.patch}]
  /\ DrvGo(d, "finish")
  /\ UNCHANGED <<plan, markers, wrk, lander, crashes>>

\* `finish` under the receipt of the snapshot; a refusal leaves the
\* transaction pending for --recover and is a failed landing.
Finish(d) ==
  LET t == drv[d].task
      can == Loads /\ CanFinish(plan[t], drv[d].seen.lease, drv[d].seen)
  IN /\ drv[d].pc = "finish"
     /\ plan' = IF can THEN [plan EXCEPT ![t] = Finished(@)] ELSE plan
     /\ drv' = [drv EXCEPT ![d] = IF can THEN IdleDriver ELSE LandFails(d)]
     /\ lander' = NoOne
     /\ UNCHANGED <<markers, wrk, applied, crashes>>

\* `repair` reuses the review's lease; the delegate is told to park the task
\* itself if it fails.
Repair(d) ==
  LET t == drv[d].task
      can == Loads /\ CanRepair(plan[t], drv[d].lease)
  IN /\ drv[d].pc = "repair"
     /\ plan' = IF can THEN [plan EXCEPT ![t] = Repaired(@)] ELSE plan
     /\ drv' = [drv EXCEPT ![d] = IF can THEN [@ EXCEPT !.pc = "wait", !.round = "repair"]
                                  ELSE [@ EXCEPT !.pc = "block"]]
     /\ wrk' = IF can THEN [wrk EXCEPT ![d] = Boot(t, TRUE)] ELSE wrk
     /\ UNCHANGED <<markers, lander, applied, crashes>>

-----------------------------------------------------------------------------
(* peer-delegate: one worker attempt on a plan task.                       *)

\* The delegate reads its lease from the plan.  A repair delegate demands
\* the exact one-shot receipt and exits without touching the row otherwise.
Snapshot(d) ==
  LET r == plan[wrk[d].task]
  IN /\ wrk[d].pc = "boot"
     /\ wrk' = [wrk EXCEPT ![d] =
          IF Loads /\ (@.term => InterruptedRepair(r))
          THEN [@ EXCEPT !.pc = "snapped", !.lease = r.lease]
          ELSE [@ EXCEPT !.pc = "exited"]]
     /\ UNCHANGED <<plan, markers, drv, lander, applied, crashes>>

MyMarker(d) == [task |-> wrk[d].task, lease |-> wrk[d].lease, by |-> d]

\* The liveness marker is durable before the row says running.
Register(d) ==
  /\ wrk[d].pc = "snapped"
  /\ markers' = markers \cup {MyMarker(d)}
  /\ WrkGo(d, "marked")
  /\ UNCHANGED <<plan, drv, lander, applied, crashes>>

\* `start`; a refusal ends the script before there is anything to undo.
Start(d) ==
  LET t == wrk[d].task
      can == Loads /\ CanStart(plan[t], wrk[d].lease)
  IN /\ wrk[d].pc = "marked"
     /\ plan' = IF can THEN [plan EXCEPT ![t] = Started(@)] ELSE plan
     /\ WrkGo(d, IF can THEN "started" ELSE "exiting")
     /\ UNCHANGED <<markers, drv, lander, applied, crashes>>

\* The operation snapshot: the row under this lease, or no provider call.
Freeze(d) ==
  LET r == plan[wrk[d].task]
  IN /\ wrk[d].pc = "started"
     /\ wrk' = [wrk EXCEPT ![d] =
          IF @.lease # 0 /\ r.lease = @.lease
          THEN [@ EXCEPT !.pc = "working", !.frozen = r]
          ELSE [@ EXCEPT !.pc = "failing"]]
     /\ UNCHANGED <<plan, markers, drv, lander, applied, crashes>>

\* The provider is done.  A row that moved is an authority violation; else
\* the attempt passed its verifier or it did not.
Guard(d) ==
  /\ wrk[d].pc = "working"
  /\ IF Violates(plan[wrk[d].task], wrk[d].frozen)
     THEN WrkGo(d, "restoring")
     ELSE \/ WrkGo(d, "publishing")
          \/ WrkGo(d, "failing")
  /\ UNCHANGED <<plan, markers, drv, lander, applied, crashes>>

\* oms_worker_operation_restore, under the plan lock.
Restore(d) ==
  LET t == wrk[d].task
  IN /\ wrk[d].pc = "restoring"
     /\ SetRow(t, Restored(plan[t], wrk[d].frozen))
     /\ WrkGo(d, "failing")
     /\ UNCHANGED <<markers, drv, lander, applied, crashes>>

MyPatch(d) == [by |-> d, lease |-> wrk[d].lease, repair |-> wrk[d].frozen.repair]

\* A rejected transition of a repair delegate is tried again by its cleanup.
AfterFailure(d) == IF wrk[d].term /\ wrk[d].pc # "retrying" THEN "retrying" ELSE "exiting"

\* plan_publish_review.
Publish(d) ==
  LET t == wrk[d].task
      can == Loads /\ CanReview(plan[t], wrk[d].lease)
  IN /\ wrk[d].pc = "publishing"
     /\ plan' = IF can THEN [plan EXCEPT ![t] = Reviewed(@, MyPatch(d))] ELSE plan
     /\ wrk' = [wrk EXCEPT ![d].pc = IF can THEN "exiting" ELSE AfterFailure(d),
                           ![d].ok = can]
     /\ UNCHANGED <<markers, drv, lander, applied, crashes>>

\* plan_failure_transition: a failed attempt releases the claim, a failed
\* repair parks it; --lease-id is omitted when the snapshot had no lease.
Fail(d) ==
  LET t == wrk[d].task
      l == wrk[d].lease
      can == Loads /\ IF wrk[d].term THEN CanBlock(plan[t], l) ELSE CanRelease(plan[t], l)
      to(r) == IF wrk[d].term THEN Blocked(r) ELSE ClearClaim(r)
  IN /\ wrk[d].pc \in {"failing", "retrying"}
     /\ plan' = IF can THEN [plan EXCEPT ![t] = to(@)] ELSE plan
     /\ WrkGo(d, IF can THEN "exiting" ELSE AfterFailure(d))
     /\ UNCHANGED <<markers, drv, lander, applied, crashes>>

\* `fail` or a signal anywhere before the outcome: only a repair delegate
\* that has started runs the failure transition on its way out.
Abort(d) ==
  /\ wrk[d].pc \in {"boot", "snapped", "marked", "started", "working"}
  /\ WrkGo(d, IF wrk[d].term /\ wrk[d].pc \in {"started", "working"}
              THEN "retrying" ELSE "exiting")
  /\ UNCHANGED <<plan, markers, drv, lander, applied, crashes>>

\* cleanup removes the marker last.
Exit(d) ==
  /\ wrk[d].pc = "exiting"
  /\ markers' = markers \ {MyMarker(d)}
  /\ wrk' = [wrk EXCEPT ![d] = [NoWorker EXCEPT !.pc = "exited", !.ok = wrk[d].ok]]
  /\ UNCHANGED <<plan, drv, lander, applied, crashes>>

-----------------------------------------------------------------------------
(* Crashes and recovery.                                                   *)

\* A plan-run killed without its trap leaves its worker running; the
\* landings lock of a dead process is reclaimed.
KillDriver(d) ==
  /\ crashes < MaxCrashes
  /\ drv[d].pc # "idle"
  /\ drv' = [drv EXCEPT ![d] = IdleDriver]
  /\ lander' = IF lander = d THEN NoOne ELSE lander
  /\ crashes' = crashes + 1
  /\ UNCHANGED <<plan, markers, wrk, applied>>

\* A killed worker leaves its marker behind with a dead pid.
KillWorker(d) ==
  /\ crashes < MaxCrashes
  /\ WorkerLive(d)
  /\ wrk' = [wrk EXCEPT ![d] = [NoWorker EXCEPT !.pc = "exited"]]
  /\ markers' = {IF m.by = d THEN [m EXCEPT !.by = NoOne] ELSE m : m \in markers}
  /\ crashes' = crashes + 1
  /\ UNCHANGED <<plan, drv, lander, applied>>

\* gc on a dead marker: recover-lease frees the claim it names unless a live
\* worker holds the same lease; the marker goes either way.
CollectMarker(m) ==
  LET r == plan[m.task]
      can == CanRecover(r, m.lease) /\ ~LiveMarker(m.task, m.lease)
  IN /\ m.by = NoOne
     /\ Loads
     /\ plan' = IF can THEN [plan EXCEPT ![m.task] = ClearClaim(@)] ELSE plan
     /\ markers' = markers \ {m}
     /\ UNCHANGED <<drv, wrk, lander, applied, crashes>>

\* A process between two of its own steps on the row's current lease, with no
\* marker to protect it.
Holding(t) ==
  \E d \in Runners :
    \/ drv[d].pc = "adopt" /\ drv[d].task = t
    \/ drv[d].pc # "idle" /\ drv[d].task = t /\ drv[d].lease = plan[t].lease
    \/ wrk[d].pc \in {"boot", "snapped"} /\ wrk[d].task = t

\* Time passes: the TTL of a row runs out.
Age(t) ==
  /\ ~plan[t].aged
  /\ plan[t].state \in {"claimed"} \cup
       (IF "reclaim" \in OperatorVerbs THEN {"running", "review"} ELSE {})
  /\ Prompt => ~Holding(t)
  /\ SetRow(t, [plan[t] EXCEPT !.aged = TRUE])
  /\ UNCHANGED <<markers, drv, wrk, lander, applied, crashes>>

-----------------------------------------------------------------------------
(* An operator at the command line: no lease is supplied.                  *)

\* claim, block, release, reopen, touch.
OperatorRow(t) ==
  LET r == plan[t]
  IN /\ Loads
     /\ \/ /\ "claim" \in OperatorVerbs /\ CanClaim(r) /\ DepsDone(t)
           /\ r.epoch < MaxEpoch /\ SetRow(t, Claimed(r))
        \/ "block" \in OperatorVerbs /\ SetRow(t, Blocked(r))
        \/ "release" \in OperatorVerbs /\ CanRelease(r, 0) /\ SetRow(t, ClearClaim(r))
        \/ "reopen" \in OperatorVerbs /\ CanReopen(r) /\ SetRow(t, ClearClaim(r))
        \/ "touch" \in OperatorVerbs /\ CanTouch(r, 0) /\ SetRow(t, Touched(r))
     /\ UNCHANGED <<markers, drv, wrk, lander, applied, crashes>>

\* cancel: inactive rows only, and no live worker on the task.
OperatorCancel(t) ==
  /\ "cancel" \in OperatorVerbs
  /\ Loads /\ CanCancel(plan[t])
  /\ \A m \in markers : m.task = t => m.by = NoOne
  /\ SetRow(t, Cancelled(plan[t]))
  /\ UNCHANGED <<markers, drv, wrk, lander, applied, crashes>>

\* reclaim --include-running --include-review: one aged row at a time here,
\* since the rows are independent.
OperatorReclaim(t) ==
  /\ "reclaim" \in OperatorVerbs
  /\ Loads /\ plan[t].aged
  /\ \/ plan[t].state = "review"
     \/ plan[t].state \in {"claimed", "running"} /\ ~LiveMarker(t, plan[t].lease)
  /\ SetRow(t, ClearClaim(plan[t]))
  /\ UNCHANGED <<markers, drv, wrk, lander, applied, crashes>>

\* The operator commits the reviewed patch and finishes with that commit.
OperatorFinish(t) ==
  /\ "finish" \in OperatorVerbs
  /\ Loads /\ CanFinishCommit(plan[t], 0)
  /\ applied' = [applied EXCEPT ![t] = @ \cup {plan[t].patch}]
  /\ SetRow(t, Finished(plan[t]))
  /\ UNCHANGED <<markers, drv, wrk, lander, crashes>>

\* `oms delegate --plan-task t` typed without a plan-run around it.
OperatorDelegate(d, t) ==
  /\ "delegate" \in OperatorVerbs
  /\ drv[d].pc = "idle" /\ ~WorkerLive(d)
  /\ wrk' = [wrk EXCEPT ![d] = Boot(t, FALSE)]
  /\ UNCHANGED <<plan, markers, drv, lander, applied, crashes>>

-----------------------------------------------------------------------------
DriverStep(d) ==
  \/ Begin(d) \/ GiveUp(d) \/ ClaimId(d) \/ Adopt(d) \/ ChecksFail(d)
  \/ Delegate(d) \/ Reap(d) \/ TermShow(d) \/ TermBlock(d)
  \/ ParkFailedRepair(d) \/ CleanupShow(d) \/ CleanupRelease(d)
  \/ Signal(d) \/ Stopped(d)
  \/ \E t \in Tasks : ClaimNext(d, t) \/ LookUp(d, t)

LandStep(d) ==
  \/ LandSnapshot(d) \/ LandLock(d) \/ Admit(d) \/ Fence(d) \/ ApplyFails(d)
  \/ Apply(d) \/ Finish(d) \/ Repair(d)

WorkerStep(d) ==
  \/ Snapshot(d) \/ Register(d) \/ Start(d) \/ Freeze(d) \/ Guard(d)
  \/ Restore(d) \/ Publish(d) \/ Fail(d) \/ Abort(d) \/ Exit(d)

OperatorStep ==
  \/ \E t \in Tasks : \/ OperatorRow(t) \/ OperatorCancel(t)
                      \/ OperatorReclaim(t) \/ OperatorFinish(t)
  \/ \E d \in Runners, t \in Tasks : OperatorDelegate(d, t)

Next ==
  \/ \E d \in Runners : \/ DriverStep(d) \/ LandStep(d) \/ WorkerStep(d)
                        \/ KillDriver(d) \/ KillWorker(d)
  \/ \E m \in markers : CollectMarker(m)
  \/ \E t \in Tasks : Age(t)
  \/ OperatorStep

Spec == Init /\ [][Next]_vars

\* Processes that are not killed keep running, gc and the clock keep coming
\* back.  Nothing makes a process fail, get a signal or die, and no operator
\* is assumed.
Fairness ==
  /\ \A d \in Runners : /\ WF_vars(DriverStep(d))
                        /\ WF_vars(LandStep(d))
                        /\ WF_vars(WorkerStep(d))
  /\ \A t \in Tasks : SF_vars(Age(t))
  /\ WF_vars(\E m \in markers : CollectMarker(m))

FairSpec == Spec /\ Fairness

-----------------------------------------------------------------------------
(* Properties of every configuration.                                      *)

\* The lease fences the claim cycle: an active row carries the lease its
\* epoch minted, a ready row carries none, and no row ever carries an older
\* one (issue_lease, clear_claim, the worker's restore).
LeaseMarksActive ==
  \A t \in Tasks :
    /\ plan[t].lease \in {0, plan[t].epoch}
    /\ plan[t].state \in Active => plan[t].lease # 0
    /\ plan[t].state = "ready" => plan[t].lease = 0

\* Once a lease has left a row it never comes back, however late its holder
\* writes: epochs only grow and a new lease is newer than all before it.
LeaseNeverReused ==
  [][\A t \in Tasks :
       /\ plan'[t].epoch >= plan[t].epoch
       /\ \/ plan'[t].lease \in {0, plan[t].lease}
          \/ plan'[t].lease > plan[t].epoch]_vars

\* Patch and review lease are written, kept and restored as a pair: a row
\* never offers to the landing gate a patch under another lease than the one
\* its worker wrote it under.
PatchNamesItsLease ==
  \A t \in Tasks : plan[t].reviewLease = plan[t].patch.lease

\* `done` is a landing receipt, not a worker's report: the tree holds a patch
\* written under the lease the task was finished with.
DoneMeansApplied ==
  \A t \in Tasks : plan[t].state = "done" =>
    \E p \in applied[t] : p.lease = plan[t].lease

\* However many plan-runs drive a task, one lease has at most one worker
\* between its `start` and its outcome: `start` is what a second delegate on
\* the same claim loses.
OneWorkerPerLease ==
  \A c, d \in Runners :
    /\ wrk[c].pc \in {"started", "working", "publishing"}
    /\ wrk[d].pc \in {"started", "working", "publishing"}
    /\ wrk[c].task = wrk[d].task
    /\ wrk[c].lease = wrk[d].lease /\ wrk[c].lease # 0
    => c = d

\* The tree takes at most one patch per lease: a repaired patch is landed
\* instead of, never on top of, the patch it repairs.
OnePatchPerLease ==
  \A t \in Tasks : \A p, q \in applied[t] : p.lease = q.lease => p = q

-----------------------------------------------------------------------------
(* Properties of plan-runs without --auto-repair, no operator verb.        *)

\* A worker that has registered never loses its claim to another process:
\* not to a pre-flight reclaim, an expired-claim takeover, gc, or the
\* cleanup of a plan-run it does not belong to.
LiveWorkKept ==
  \A d \in Runners : wrk[d].pc \in {"marked", "started", "working", "publishing"} =>
    LET r == plan[wrk[d].task]
    IN r.lease = wrk[d].lease /\ r.state \in {"claimed", "running"}

\* From the fence to the finish nothing moves the row under the lander, so a
\* patch that was applied is also finished.
FenceHolds ==
  \A d \in Runners : drv[d].pc \in {"apply", "finish"} =>
    LET r == plan[drv[d].task]
    IN r.state = "landing" /\ Receipt(r) = drv[d].seen

\* No task is in work, in review or landing before all it depends on is
\* done, and none of those is taken back meanwhile.
DependentsWait ==
  \A t \in Tasks : plan[t].state \in Active => DepsDone(t)

-----------------------------------------------------------------------------
(* Properties of the bounded repair.                                       *)

\* A task is repaired once: the counter never falls, and a review that used
\* its repair never goes back to a worker under the same lease.
RepairOnce ==
  [][\A t \in Tasks : plan[t].repair = 1 =>
       /\ plan'[t].repair = 1
       /\ plan[t].state = "review" => plan'[t].state # "claimed"]_vars

\* A claim is not held for ever: the process that took it hands the task on,
\* or its trap, the TTL or gc frees it.
ClaimIsFreed ==
  \A t \in Tasks : plan[t].state \in {"claimed", "running"} ~>
                     plan[t].state \notin {"claimed", "running"}

-----------------------------------------------------------------------------
(* What comments of the code say and the code does not keep.               *)

\* agent_plan_core.py, next: "A fresh lease is the fence: whatever the
\* previous holder does next fails the lease check instead of racing this
\* worker."
PreviousHolderFenced ==
  [][\A d \in Runners :
       LET t == drv[d].task
       IN /\ DriverStep(d) \/ LandStep(d)
          /\ drv[d].lease # 0
          /\ plan[t].epoch > drv[d].lease
          => plan'[t] = plan[t]]_vars

\* agent-plan.sh usage: "Cancelled tasks are closed".
CancelledIsClosed ==
  [][\A t \in Tasks : plan[t].state = "cancelled" => plan'[t].state = "cancelled"]_vars

\* peer-delegate.sh: "Failures release the claim so the task never sticks in
\* claimed/running when the worker dies or is rejected."
NeverSticks ==
  \A t \in Tasks : plan[t].state = "running" ~> plan[t].state # "running"

\* oms-common.sh: "Authority and evidence fields have no legitimate mid-run
\* writer under any lease", so putting them back would never undo a review.
ReviewEvidenceKept ==
  [][\A t \in Tasks :
       plan[t].state \in {"review", "landing", "done"} /\ plan'[t].state = plan[t].state
       => /\ plan'[t].patch = plan[t].patch
          /\ plan'[t].reviewLease = plan[t].reviewLease]_vars

\* plan-run.sh: a failed resumed repair "may leave the original active lease,
\* which is still safe to block here".
TerminalizeSparesLiveWork ==
  [][\A c, d \in Runners :
       LET t == drv[d].task
       IN /\ TermBlock(d) /\ plan'[t] # plan[t]
          /\ wrk[c].task = t
          => wrk[c].pc \notin {"started", "working", "publishing"}]_vars

\* peer-delegate.sh on a failed repair: "exposing a ready row here lets
\* another runner mint a lease and call the provider a second time".
RepairNeverExposed ==
  [][\A t \in Tasks :
       /\ plan[t].state \in {"claimed", "running"}
       /\ plan[t].repair = 1 /\ plan[t].reviewLease = plan[t].lease
       => plan'[t].state # "ready"]_vars

\* patch-land.sh to a caller that finds the landings lock taken: "another
\* landing or recovery is in progress ...; retry when it finishes".
BusyLandingSpared ==
  [][\A c, d \in Runners :
       LET t == drv[d].task
       IN /\ ParkFailedRepair(d) /\ plan'[t] # plan[t]
          /\ drv[c].task = t
          => drv[c].pc \notin {"apply", "finish"}]_vars

=============================================================================
