# Verification of oh-my-setting's plan and landing protocol

oh-my-setting (`oms`) is a harness for coding agents: shell and Python commands
that share files under `.oms/` of a repository.  Its own core logic is a
protocol between processes that know nothing of each other but those files:
a plan of tasks (`.oms/plan/tasks.json`), workers that claim a task under a
lease, write a patch in an isolated worktree and put it in review, and a landing
gate that applies a reviewed patch to the tree, until the whole plan is accepted
and retired.  Beside it a supervisor queues and runs attempts of the same
workers, an engine runs graphs of such work with gates between, and everything
leans on one lock library.  This directory holds TLA+
models of these protocols, the TLC runs that check them on small instances, and
theorems the TLA+ proof system checks for every instance.

## 1. Inventory

| component | source | state it keeps | operations | what is hard about it |
|---|---|---|---|---|
| plan rows and verbs | `lib/agent_plan_core.py`, `lib/plan-receipt.py` | one JSON row per task: state, lease and its epoch, review evidence, repair counter, cancellation, TTL anchor | `claim start touch review repair land finish block release reopen cancel recover-lease reclaim next show` | each verb is atomic; no two verbs of a caller are. Leases are optional on the command line |
| plan command dispatch | `agent-plan.sh` | the plan lock | one locked verb, or one unlocked read, per command | reads are not locked |
| plan-run | `plan-run.sh` | `LEASE_ID`, `CLAIMED`, `KEEP_CLAIM`, `RESUME_REPAIR` in shell variables | claim, delegate, land, one repair, release in a trap | stale variables; traps; kills; exit codes of children |
| peer-delegate | `peer-delegate.sh`, `lib/oms-common.sh` | a marker in `.oms/delegations`, a frozen copy of the row | snapshot, register, start, provider call, guard/restore, review or failure | its lease is read, not passed; its marker is what protects the claim |
| delegation gc | `gc.sh` | none | frees claims of dead workers by `recover-lease` | a retry under the same lease |
| patch-land | `patch-land.sh` | the landings journal, captured patches | snapshot, lock, admit, intent, fence, apply, lineage, finish, complete; `--recover` | a crash between any two of these |
| approval inbox | `approval-inbox.sh`, `lib/agent-events.py` | a ledger of one-use approvals with versions | request, decide, begin-consume, finish-consume, expire, reconcile | single use across crashes; an approval that runs out at any point |
| retirement and acceptance | `lib/plan-retire.py`, `agent-plan.sh` | archives, intents, the retirement ledger, acceptance rows of the progress log | `accept`, `retire` (preflight, acceptance, finalize), `init` over a plan, the guard of every verb | the acceptance command runs for minutes outside the plan lock; four durable writes and their replay |
| file lock | `lib/file-lock.sh` | a directory with owner, pid and started; a queue of reclaim claims | acquire, reclaim of a dead owner, release | everything is a path: files are written, moved and removed by name while others do the same |
| push | `land.sh`, `lib/land_receipts.py` | receipts of pushed ranges | commit, push, receipt | partial failure |
| goal loops | `goal-drive.sh`, `autopilot.sh` | reservations, budgets, receipts | loops over plan-run | parallel reservations, restart |
| execution graph | `lib/oms_graph/` | a frozen graph and an event log per run; everything else is projected from them | `exec run`, `resume`, `decide`; route evaluation, waves of agents and tools, commit | outcomes are read off a plan others change; killed coordinators whose children work on; a log read before its locked append |
| durable JSONL | `lib/durable-jsonl.py` | append-only files | append, torn-tail recovery | crash in an append |
| agent events and supervisor | `lib/agent-events.py`, `lib/attempt-runner.py` | a lifecycle stream and a runtime job per attempt, each under a lock of its own | submit, resume, dispatch, run, cancel, two reconcilers, two collectors | two stores that are never written together; pids that outlive their process |
| dispatch supervisor | `lib/dispatch_supervisor.py` | one council dispatch | spawn, watch, stop | process groups |
| rooms and panel | `lib/room.py`, `lib/panel_*.py` | room logs, a dispatch queue | post, dispatch, review | mostly presentation |
| memory, journal, ledgers | `lib/agent-memory-db.py`, `lib/work_journal.py`, `fail-ledger.sh`, `run-ledger.sh` | append-only stores | record, query | little concurrency of their own |
| providers | `lib/peer-common.sh`, `peer-ask.sh` ... | none that the plan reads | call a vendor CLI | external |
| install, doctor, MCP, runtime | `install.sh`, `doctor.sh`, `oms-mcp-server.py`, `lib/oms_runtime/` | machine state | sequential | no shared protocol state |

How they interact: `plan-run` runs `agent-plan` verbs as child processes,
starts one `peer-delegate` child and waits for it, then runs `patch-land` as a
child.  The delegate runs verbs of its own, and never receives the lease: it
reads it from the row.  `patch-land` runs `agent-plan land` and `finish`.
`gc` and the pre-flight `reclaim` of every plan-run free claims of processes
they believe dead.  An operator may type any verb at any time, without a lease.
All of it runs concurrently: two terminals, a `goal-drive` with parallel
children, a cron `gc`.

What makes each of the main components correct:

* plan rows: a lease fences the claim cycle and never comes back; review
  evidence belongs to the lease it was written under.
* plan-run and peer-delegate: one worker per lease; a live worker keeps its
  claim; every claim is eventually handed on or freed; one repair per task.
* patch-land: what was admitted is what is applied; an applied patch is
  finished; one patch per lease reaches the tree; `done` means applied.
* gc and reclaim: only claims of dead workers are freed.
* approvals: an approval is reserved once, while it is good, and settled once.
* retirement: a plan leaves only archived and receipted, once, on a verdict of
  its own acceptance command; an interrupted retirement is finished.
* supervisor: no more attempts than the caps; a cancelled one does not start;
  a closed one has no process left; every attempt settles.
* execution graph: only work the parent approved is landed; work is done again
  only where a repeat was paid for; a recorded outcome does not change.
* file lock: one process inside; a lock of the living stays, one of the dead is
  cleared.

The hazards, at their lines, are in `PROJECT.json` under "hazards".

## 2. Modules

* `PlanTask` - one row of the plan, no variables.  Each verb is a guard
  `CanVerb(row, lease ...)` and the row it leaves.  A lease id is random and
  minted together with an increment of `lease_epoch`, so the model names a lease
  by its epoch; 0 is "no lease".  A patch is told apart by author, lease and
  whether it answers a failed landing.  `Receipt` is the part of the row the
  landing digest binds (everything but `state` and `updated`).  The TTL clock is
  one bit, `aged`: the clock that `claim_anchor()` reads has run out.  The two
  functions that compare and put back a worker's frozen row
  (`oms_worker_operation_violations`, `oms_worker_operation_restore_plan`) are
  `Violates` and `Restored`.  Operators marked "Slip" are broken variants that
  show what a property would catch; no specification uses them.
* `PlanRun` - the whole system around the rows:

| variable | code |
|---|---|
| `plan` | `.oms/plan/tasks.json` |
| `markers` | `.oms/delegations/*.json`; `by` is the live process, `NoOne` a dead pid |
| `drv[d]` | the shell variables and the control point of one plan-run process |
| `wrk[d]` | the same for the one peer-delegate it started |
| `lander` | the landings lock |
| `applied[t]` | patches in the working tree |
| `crashes` | processes killed without their traps |

  One action is one locked verb, or one unlocked read, with all the code between
  it and the next: the code between two commands touches only the process's
  own variables.  `DriverStep` is plan-run from pre-flight to traps, `LandStep`
  is patch-land and the bounded repair, `WorkerStep` the delegate.  `KillDriver`
  and `KillWorker` are SIGKILL; `CollectMarker` is gc on a dead marker; `Age`
  lets a TTL run out; the `Operator` actions are verbs typed by hand.  Every
  command first loads the plan and dies if a row is malformed (`Loads`).
* `MCPlanRun` - instances for TLC: one task, or a chain of two, two runners.
* `PatchLanding` - one landing is a single fence, apply and finish in `PlanRun`;
  this module opens it up.  It follows `patch-land` on one reviewed task from its
  unlocked snapshot to the complete row, and `--recover` over every intent of the
  journal, with one action per durable write and per read that a later write
  relies on:

| variable | code |
|---|---|
| `row`, `frozen` | the plan row; which landing's frozen copy its `patch` field names |
| `tree` | HEAD, the patches contained in it and in the working tree, an edit of the patched lines |
| `journal` | `.oms/landings.jsonl`: intents in order, with the terminals written for each |
| `grants` | the approvals of this task |
| `lineage` | `patch-land` rows of the artifact index |
| `lock` | the landings lock |
| `proc[p]` | one patch-land process: control point, intent, `receipts_ok`, `PRESERVE_PLAN` |
| `landed`, `closed` | history: applied patches, published done receipts |

  `Snapshot`, `Lock`, `Admit`/`Refuse`, `Fence`, `Reserve`, `Apply`/`ApplyRefused`,
  `Consume`, `Record`, `Finish` and `Complete` are the landing in the order of the
  script; `SettleGrant`, `SettleShow`, `SettleRelease` and `SettleClose` are
  `finish_not_applied_receipts`, shared with recovery; `Recover`, `Decide`,
  `Supersede` and `RecFinish` ... `RecClose` are the recovery loop, whose decision
  is the operator `Verdict`.  `WriteFails`, `Kill` and `KillInApply` are the
  failures, `Others` the plan verbs of other processes, `Git`, `Approve` and
  `Expire` the operator.  The landing id stands for the frozen copy as well, so a
  row names the landing that finished it.  Patches of one task change the same
  lines: one applies only where no other is.
* `MCPatchLanding` - instances for TLC: one reviewed task, two processes.
* `ApprovalInbox` - the inbox as its users may rely on it: the states of one
  approval, the moves between them and which command makes which, with an
  approval's expiry.  A command is a compare-and-set on the version it has read;
  every move changes the state, so the state stands for the version.
  `PatchLanding` is shown to implement it: `InboxImplemented` is
  `Inbox!Spec` with the approvals of the landing (`InboxOf`) for the inbox.
* `PlanRetire` - how a plan leaves `tasks.json`: `agent-plan retire` write by
  write, an acceptance by itself, `init` over a plan, and the guard that every
  writing verb passes first:

| variable | code |
|---|---|
| `plan` | `tasks.json`: lineage, revision, whether work is open, busy or closed, and the generation (inode) of the file |
| `archives`, `ledger`, `intents` | content-addressed archives, `retirements.jsonl`, retire-intent files |
| `progress` | passing acceptance rows, with what really ran beside what the row says |
| `head` | HEAD, which an acceptance is bound to |
| `lock`, `proc[p]` | the plan lock; the commands that take several steps |

  `Preflight`, `AcceptGuard`, `ReadCommand`, `Freeze`, `RunCommand`, `Record` and
  `Finalize`, `WriteIntent`, `WriteArchive`, `WriteReceipt`, `Unlink`, `Clear` are
  the retirement in the order of the code; only the acceptance command runs
  without the plan lock.  `InitOver` ... `InitSave` replace a plan, `WorkOn` is any
  other verb, `Restore` copies an archive back.
* `MCPlanRetire` - instances for TLC: two commands.
* `AttemptRunner` - the supervisor over the lifecycle stream.  One action is one
  durable write or one locked section:

| variable | code |
|---|---|
| `att` | the projected lifecycle stream of `agent-events` |
| `job` | runtime job files, under the queue lock |
| `tree` | the worker's process group: its leader, whether other members live, whether the pid belongs to somebody else by now |
| `run[a]` | the runner of an attempt, or the `peer-delegate` that reports one itself |
| `disp`, `can`, `sub` | dispatchers; cancel and submit commands past their first write |
| `hold` | who holds the queue lock between a job write and its event |
| `early`, `torn`, `strays` | history for the properties |

  `Submit`, `Resume`, `Publish`; `Reserve`, `DispatchCheck`, `Spawn`, `Record`;
  `RunnerBoot` to `CloseJob`, `Settle` and `Abort`; `CancelQueued`,
  `CancelReserved`, `CancelSignal`, `CancelEvent`; `RecOrphan` and
  `HeartbeatExpires` (`agent-events reconcile`), `RecJob` (`agent-supervisor
  reconcile`); `GcRuntime` and `Compact`; `DelegateOpen`, `DelegateEvent`,
  `DelegateRecover` are the operations; kills, failed calls and reused pids the
  faults.
* `MCAttemptRunner` - instances for TLC.
* `FileMutex`, `FileLock` - `FileMutex` is what `PlanRun`, `PatchLanding`,
  `PlanRetire` and `AttemptRunner` take from a lock: at most one process inside.
  `FileLock` is the lock that `file-lock.sh` builds from a directory where there
  is no flock, one action per file-system call that another process can see:

| variable | code |
|---|---|
| `dir` | the directory at the lock's path: inode, `owner`, `pid`, `started`, whether its clock has run out |
| `claim[p]` | a claim in `reclaim-queue`: ticket and choosing |
| `proc[p]` | control point, the directory it made, the one its `rm -rf` opened, `generation`, `max_ticket`, the rest of its loop |
| `up[p]` | alive; pid and start token name a process for good |

  `Mkdir`, `WriteOwner`, `WritePid`, `WriteStarted` take it, `Release`, `Unlink`
  and `Rmdir` give it back; `Look` ... `Move`, `Unclaim` are the reclaim: staleness,
  generation, a ticket of the bakery, election, generation and staleness once
  more, `mv`.  Every write and `mv` goes to whatever directory is at the path by
  then.  The refinement maps the set of processes in their critical section to
  `inside`.
* `GraphRoute` - the route evaluator (`route.py`), without variables: from a graph,
  the projection of its log and the set of nodes whose proof holds now, `Evaluate`
  walks from the entry and answers what may start, which gate waits or why the run
  ends.  The code's recursion is a stack, `todo`, of expansions that still have
  edges to follow: `Expand` and `Follow` push one, `Advance` takes one edge off the top
  and hands it to `Along`, and `Walk` does so `MaxWalk` times, so that the walk is a
  function over the naturals and can be proved about.  `Settle` says which outcomes are proved again,
  `Stale` and `Passed` tell work that is due again from a repeat that has
  happened, `Spent` charges the repeat budget.
* `GraphRun` - a run of one graph (`runner.py`, `events.py`, `scheduler.py`,
  `adapters/plan.py`):

| variable | code |
|---|---|
| `graph` | `graph.json`, frozen at the start |
| `log` | `events.jsonl`, as its readers see it: keys, length, last sequence number, and the projection, folded row by row |
| `proc[p]` | one `exec run`, `resume` or `decide`: control point, rows it still has to append, the route and the wave it works on |
| `subs` | the plan-runs and tools that were started: phase, the claim they hold, exit |
| `plan` | each task: state, epoch of its claim, epoch of its patch, claim expired |
| `tree` | a dirty worktree, the last acceptance |
| `left` | how the last invocation ended, as its operator sees it |
| `ghost`, `spent` | history: patches approved and landed; bounds |

  A row is appended in two actions, `Prepare` (read the log, check the key, take a
  number) and `Write`.  `Resume` and `Reconcile` settle what a kill left active,
  `Step` is one turn of `_loop`, `Stop`, `Plan`, `Launch`, `Record` and `Leave` what
  follows from its route; `Eligible` is the scheduler; `Decide` the gate.
  `Enter`, `Work`, `Land`, `Tool` and `Return` are what was started, `plan-run`
  reduced to what the engine sees of it; `Timeout`, `Crash`, `Expire` and `Other`
  the environment.  `Returns`, `Guarded` and `Branching` are what the theorems ask of a
  graph.  `AgentOutcome`, `ToolOutcome` and `Reconciled` map what is found on the plan
  to an outcome.
* `MCGraphRun` - instances for TLC: `config/graphs/coding-change.json`, a fan-out that
  joins, a single worker; and four more for the findings.  The other graph that ships,
  `goal-drive.json`, is there too, for the theorems' assumptions.
* `PlanTaskProofs`, `PlanRunProofs`, `PlanClaimProofs` (each extends the one
  before), `PatchLandingProofs`, `PlanRetireProofs`, `AttemptRunnerProofs`,
  `FileLockProofs`, `GraphRunProofs` - the theorems (section 5).

## 3. Runs

| run | configuration | states | shows |
|---|---|---|---|
| landing | `PlanRunLanding.cfg` | 312k | `TypeOK`, `LiveWorkKept`, `FenceHolds` |
| repair | `PlanRunRepair.cfg` | 602k | `OneWorkerPerLease`, `OnePatchPerLease`, `DoneMeansApplied`, `RepairOnce` |
| operator | `PlanRunOperator.cfg` | 2.0M | `LeaseMarksActive`, `PatchNamesItsLease`, `LeaseNeverReused` |
| claim_liveness | `PlanRunLiveness.cfg` | 119k | `DependentsWait`; `ClaimIsFreed` under `FairSpec` |
| landing_crash | `LandingCrash.cfg` | 663k | `TypeOK`, `CompleteMeansRecorded`, `OneApplyPerGrant`; refinement `InboxImplemented` |
| landing_others | `LandingOthers.cfg` | 1.1M | `LandingExplained`, `AppliedAccounted`, `DoneExplained` |
| landing_liveness | `LandingLiveness.cfg` | 45k | `LandingSettles`, `IntentsClose` under `FairSpec` |
| attempts_queue | `AttemptsQueue.cfg` | 1.6M | `Capacity`, `ClosedMeansStopped`, `ResumeIsExclusive`, `TerminalIsFinal` with two dispatchers |
| attempts_settle | `AttemptsSettle.cfg` | 19k | `CancelBeforeStart`, `AgreesWhenQuiet`; `AttemptSettles` under `FairSpec` |
| retire | `PlanRetire.cfg` | 386k | `AcceptedAsRetired`, `RetiredOnce`, `PlanKept`, `ReceiptedIsFrozen`; `RetirementFinishes` under `FairSpec` |
| file_lock | `FileLock.cfg` | 124k | `HolderKept`, `OneReclaimer`; refinement `MutexImplemented`; `LoneContenderEnters` under `FairSpec` |
| graph_run | `GraphRun.cfg` | 215k | `GatedLanding`, `RepeatsPaid`, `OutcomeStable` |

`GraphSettles.cfg` is run by hand with `MCGraphRun` (162k states) and passes: every
attempt of the single worker settles (`NodeSettles` under `FairSpec`), whatever two
of kills, surviving processes, spare invocations and steps of others do.  The
type invariants that no run lists are proved.

Which environment a property is claimed for matters, and each run says it:
`LiveWorkKept`, `FenceHolds` and `DependentsWait` are about
plan-runs without `--auto-repair` and without an operator's verbs.  They are
false otherwise: a repair reuses the lease of its review, so a second plan-run
that holds the same lease may release or block the row (findings
`TerminalizeSparesLiveWork`, `RepairNeverExposed`, `BusyLandingSpared`), and `block` or `release`
without a lease is an operator's privilege.  The lease invariants
(`LeaseMarksActive`, `PatchNamesItsLease`, `LeaseNeverReused`) hold against all
nine verbs, and `OneWorkerPerLease` against hand-typed delegates as well
(theorems).

### The findings

Each of these is a sentence a comment, a message or an assertion of the code
says and the code does not keep.  They are not among the runs above: each has a
configuration of its own name to run by hand, `tlc -config CancelledIsClosed.cfg
MCPlanRun` for example (`MCPatchLanding` for the landing's, `MCPlanRetire` for
the retirement's, `FileLock` for the lock's, `MCGraphRun` for the graph's), and TLC answers with the
behaviour.

* `PreviousHolderFenced`: a re-issued lease does not stop a former holder,
  because `block` asks for no lease on an inactive row.
* `CancelledIsClosed`: `block` accepts a cancelled row, and the plan then
  refuses to load (reproduced by running the two commands).
* `NeverSticks`: a delegate typed by hand that fails after `start` leaves the
  row running and removes the marker gc would need.
* `ReviewEvidenceKept`: a worker that lost its claim restores patch and review
  lease over the review of the next worker (reproduced by calling the restore
  on a plan in that state).
* `TerminalizeSparesLiveWork`: a second plan-run takes a repair in progress for
  an interrupted one, loses `start`, and blocks the row under the live worker.
* `RepairNeverExposed`: the cleanup of another plan-run with the same lease
  puts a repairing row back to ready.
* `BusyLandingSpared`: a plan-run that meets a row another run has fenced, or a
  busy landings lock, takes it for a failed gate, is refused its repair, and
  blocks the row while the other is applying the patch; the `finish` of the
  other is then refused.
* `AdmittedBaseLands`: the base is rechecked after admission but not at the
  apply, so a commit in between gets the patch without its verification.
* `FailedGrantUnused`: with two open intents of one review, recovery may record
  the approval that let the patch in as failed.
* `UnappliedCloses`: an approval recorded as expired between the intent and its
  reservation keeps the intent open for ever.
* `NewerReceiptSurvives`: recovery compares the receipt and then releases by
  lease, and a same-lease repair fits in between.

* `LedgerLoads`: when `init` has receipted a plan as replaced and dies before its
  save, the plan is still active and `retire` accepts it.  The ledger then has
  two receipts of the same bytes and every reader of it dies
  (`plan-retire.py:644`; reproduced with the commands).
* `ReplayCompletes`: a commit between an interrupted retirement and its replay
  makes every replay die, because the intent names the old HEAD
  (`plan-retire.py:882`), while the guard keeps every other verb out.
* `AcceptedAsFiled`: the acceptance command is read before the digest it is filed
  against (`agent-plan.sh:926`); an `init` in between files the verdict of the old
  command under the new plan.  A retirement is not fooled (`AcceptedAsRetired`).
  A retired plan that is copied back from its archive is taken for a plan like
  any other once its intent is gone.
* `NothingWedges` (`LockWedges.cfg`): a process killed between `owner` and `pid`, or in the middle
  of its `rm -rf`, leaves a directory with only one of `owner` and `started` and
  no `pid`; no age makes it stale, so nobody ever gets the lock again (reproduced with
  the script: exit 75 for both).  The comment at `file-lock.sh:381` is about reclaimers,
  and for those `LoneContenderEnters` holds.
* `HolderKept` with `Brief = FALSE` (`LockLongHold.cfg`): once the `rm -rf` of a
  release has taken `pid`, the age of `started` decides.  After a hold longer than
  the lock timeout the lock is stale at that moment, a contender is elected, and its
  `mv` may come when the release is over and a third process has the lock.  The
  comment at `file-lock.sh:332` says the timeout "is never a lease expiry".
* `HolderKept` with `MaxLost = 1` (`LockLostWrite.cfg`): of the writes of the identity only the
  status of the last one counts (`file-lock.sh:269-279`); a lock whose `pid` was
  not written is reclaimed under its holder after the timeout.  With `Prompt =
  FALSE` it fails as well; the comment at `file-lock.sh:286` accepts that.
* `GatedLanding` with a requeue (`GraphRequeued.cfg`): when somebody releases an
  approved task before the land node has run, `plan-run --id --land` finds it
  ready, claims it, does it again and lands the new patch under the old approval
  (`plan-run.sh:333`; the engine checks the landing receipt, not which patch).
* `GatedLanding` with a hasty parent (`GraphHasty.cfg`): `decide` asks only that the
  node is a gate (`runner.py:826`), so an approval typed while the worker is still
  at work stands for the review of what it delivers later.
* `JoinWaits` (`GraphRejoin.cfg`): "`all` waits for every incoming source"
  (`docs/GRAPH-ENGINEERING.md:307`), but `join_ready` leaves out a source that is reachable
  from the join (`route.py:233`).  If a failed join may go back above its fan-out,
  that is all of them, and with `--jobs 1` the join starts when the first
  branch has completed (reproduced with `route.evaluate` on a validated graph).
* `OutcomeStable` with a repeat that leads forward (`GraphRepair.cfg`): validation asks
  of a repeat only that it closes a cycle (`validate.py:285`), so `check -> repair`
  may be the repeat edge of `check -> repair -> check`.  A repeat is offered without
  asking whether its target is at work (`route.py:265`): a second invocation starts
  the repair anew, and what the first one left settles it before it has run.
* `RepeatsPaid` with two invocations (`GraphRenumbered.cfg`): attempts are ordered "by
  event `seq`" (`docs/GRAPH-ENGINEERING.md:409`), and a row takes its number from the
  last row of an unlocked read (`events.py:83`).  A row that one invocation prepared
  early and writes late makes the other number its next rows from there once more: a
  step that has completed is then older than its upstream, and runs again with no repeat
  charged (reproduced with `events` and `route`).
* `RepeatsPaid` of an `any` join (`GraphRejoin.cfg` with `OnlyAny` for its graph and
  `RepeatsPaid` for its invariant): `any` waits "for the first"
  (`docs/GRAPH-ENGINEERING.md:307`), and when the next branch completes the join is older
  than its upstream and due again (`route.py:299`): it runs once per branch with no
  repeat charged (reproduced with `route.evaluate` on a validated graph).

What the graph engine does not promise either: two `exec resume` of one run may
both settle and start the same node, since only the writing of a row is locked
(`events.py:66-96`; `OutcomeStable` says that the projection is not fooled by it); a
second decision of a gate runs the nodes behind it again without charging a
repeat, which is why `RepeatsPaid` counts decisions; a tool that writes and died
is settled as `blocked` (`runner.py:778`), for which the shipped graph has no edge,
and as `decide` takes only gates, the run cannot go on; a router is never
recorded, so nothing behind it is ever older than its upstream: after a repeat that
leads above a router the walk passes to the old results behind it, comes round to
the repeat again, and the run ends `blocked` with the repeat paid and its work not
redone (reproduced with `route.evaluate`; no graph that ships has a router).

What the supervisor does not promise, and its properties therefore except: a
process that dies between closing a job and writing the event it owes leaves the
attempt as it is for ever (`torn`); a runner killed after it has started its
worker and before it has recorded the pid leaves a worker nobody knows of
(`strays`); a failed spawn closes the job as interrupted whatever was accepted
meanwhile, a cancellation included; reconcile leaves alone members of a group
whose leader is gone; a `peer-delegate` killed before its first heartbeat is never
settled; after a runner has died and its heartbeat has run out, `resume`
starts a second worker beside the first (`agent-events.py:1471`), until the
supervisor's reconcile has stopped it.

### Bounds

Two runners: every race in this protocol is between two processes that both
believe they hold the claim, and a worker outliving its killed plan-run already
gives three actors.  `MaxEpoch` counts claims of one task: 3 in the landing run
(a holder, its successor, and the successor's), 2 where a run asks about a
holder and its successor.  `MaxCrashes`: 2 in the landing run, so that worker and
plan-run of one runner may both die.  One task, except in the liveness run, which has a chain of two: rows
are independent but for `depends` and `Loads`.  The bounds cut only claims and
kills; no action's outcome depends on them.  Runners are symmetric: no
definition tells them apart.  Deadlock is checked in the runs of `PlanRun` and
`PatchLanding`: an idle plan-run can always start again and a journal with an
intent can always be recovered.  It is not in the others, where the system may
really stop: when all attempts are settled, all plans retired or the lock is
free, nobody has to ask for anything, and `FileLock` stops at its bound on locks
made.

The landing runs have two processes and up to three intents, since what is hard
is several open intents of one review and a recovery beside a landing;
`MaxFaults` counts kills, failed writes and torn applies, and three leave three
intents open.  `landing_others` has one commit and two claims of the task, enough
for a HEAD that moved and a lease that was replaced.  Approvals are enabled in
`landing_crash`, other commands and git in `landing_others`.

Two attempts are a parent and its resumed child, or two jobs that compete for a
provider's limit of one, which the queue run has or has not; two dispatchers; one
fault lets any single process die, call fail or pid be reused, and the liveness
run, with one attempt, has two.  The retirement run has two
commands, one kill, two plans of three writes between them, one commit and two
proofs: a retirement, its replay beside another command, and a plan that
changes, moves or returns in between.  `Returns` is off there, because
`LedgerLoads` fails with it.  The lock run has three processes (a holder, a
reclaimer and one that takes the lock in between, or three that queue), three
locks made one after the other, and two kills, of a holder and of a reclaimer; a
ticket is one more than a live one, so three suffice for three.

The graph run has two tasks and three graphs, of at most eight steps and one
repeat per edge: the shipped one, whose back edge leads behind its gate, a fan-out
with a join that is run once with its named task equal to the one `next` offers
and once not, and a single worker on which two runners may work at a time.  One
decision, and one fault: a kill (with or without what it started), a process
that outlives its timeout, an invocation nobody needed, or a step of others on the
plan.  In the shipped graph nobody requeues a task in review and the parent
decides when no runner is at work (above).  `MaxWalk` is 16, and 2 for the single
worker: no evaluation of these graphs follows more than six edges, or two of that one; the theorems hold for
every `MaxWalk`.  Tasks and runners are symmetric.

`Prompt = TRUE` states an assumption about time: no TTL (an hour by default)
runs out while its claimant is between two of its own steps and has not yet
published its marker.  The operator run and the theorems of section 5 do
without it, unless they say otherwise.

### Fairness

`Fairness` says that a live process keeps running (weak fairness of each
runner's plan-run, landing and worker steps), that time passes (strong fairness
of `Age`: a TTL whose holder is only sometimes between two steps still runs
out) and that gc comes back.  Nothing forces a process to fail, to be signalled
or to be killed, and no operator helps.  Processes are scheduled by the
operating system and their child commands end (every provider call runs under a
timeout), which justifies weak fairness; no strong fairness of a process is used.
In `PatchLanding`, `FairSpec` lets every process that has begun go on (weak
fairness per process) and assumes that somebody who runs `--recover` again and
again gets the landings lock in the end (strong fairness of `Recover`: other
landings may hold the lock whenever one tries, but not for ever).  Nothing is
assumed of landings, failures, other commands or git.  `IntentsClose` is stated
for runs where it can be expected: if a done or released row, or a foreign
commit, hides what the tree would say, the script asks for a human, and so it
does after a torn apply.
In `AttemptRunner` live processes go on and time passes; `tick.sh:297` and
`gc.sh:693` run `agent-events reconcile` again and again, which is the weak
fairness of `RecOrphan` and `HeartbeatExpires`.  No script of the repository runs
`agent-supervisor reconcile`: the strong fairness of `RecJob` says that an
operator repeats it until it gets the queue lock, and that of `Reserve` that a
dispatcher in `serve` does.  In `PlanRetire`, commands go on and an interrupted
retirement is replayed until the plan lock is free (strong fairness of
`Replay`).  In `FileLock`, processes go on and clocks advance; nobody has to
retry for ever, to give up or to die.  Two contenders may refuse each other for
ever in the bakery, where nobody waits, so `LoneContenderEnters` is about a
process that keeps trying while nobody else does.
In `GraphRun`, runners, what they started and clocks go on, and somebody resumes a
run that was interrupted, decided or left with a node that nothing runs.
`ClaimIsFreed` is checked without kills: a task whose worker was killed while
running waits for gc only while its marker survives.

## 4. What a TLC pass does not say

The bounded instances above are exhaustive within their bounds and say nothing
beyond them; that is what the theorems are for.

## 5. Theorems

Of `PlanRun`, for every set of runners, tasks, dependency relation, mode set,
operator verb set and bound, under `ConstantsAssumption` and `NoOneAssumption`
only:

* `TypeCorrect` - `TypeOK` is inductive; one lemma per group of actions.
* `LeaseMarksActiveCorrect`, `LeaseNeverReusedCorrect`,
  `PatchNamesItsLeaseCorrect` (`PlanRunProofs`).  The argument goes through rows:
  `RowMove` lists every way an action may change a row, and `RowsMove` proves
  that every step of `Next` changes every row by a `RowMove` or not at all.  The
  three properties then follow from facts about one row.  `LeaseMarksActive` is
  not inductive alone, because a worker may put back a frozen row: the
  strengthening says that a frozen row is itself one that an older row could be
  (its lease is at most the current epoch, its patch names its review lease).
* `OneWorkerPerLeaseCorrect`.  The strengthening `BusyInv`
  says that a lease in the hands of a worker is no older than the row's epoch,
  and that while the row is claimed under that lease nobody has started: `start`
  is the point where a second worker loses.
* `DoneMeansAppliedCorrect`, assuming the operator does not finish by hand: the
  strengthening `DoneInv` follows the lander from the fence to the finish and
  keeps the patch it was admitted for among the applied ones.  The assumption is
  needed: an operator may finish a review whose evidence a late worker has put back
  from an older lease (finding `ReviewEvidenceKept`).
* `OnePatchPerLeaseCorrect`, without that assumption.  `PatchInv` calls a lease spent
  once its review has passed the fence or has been finished by hand: the row never
  goes back to work or review under it.  That alone is not enough, since copies
  of a patch survive its lease in rows, frozen rows and landings and may be put back;
  so the invariant also says that of all copies of a task's patches (`Shown`) no two
  differ under one lease.  A repair, the one way to write a second patch under
  a lease, finds no other copy left (`PublishedAlone`), because one worker is at
  work under a lease and what others have frozen is older.
* `PlanClaimProofs` is about plan-runs that are left alone, which is where these
  properties hold at all (section 3).  `Alone` says that nobody types a verb and
  that `Prompt` holds; `Quiet` adds that no plan-run has `--auto-repair`.
  `RepairOnceCorrect` is proved under `Alone`; `LiveWorkKeptCorrect`,
  `FenceHoldsCorrect` and `DependentsWaitCorrect` under `Quiet`, for any number of
  runners and tasks, with kills, takeovers and gc at every point.
  The counter of `RepairOnce` is one bit in the row, and the danger is the worker
  that puts back a row it froze before the repair.  To exclude it, `QuietInv` has to
  say who may believe in a claim: as long as a task has not used its repair, at
  most one runner does, its marker is out or the claim is fresh and unaged, a
  delivered lease is over (`Past`), and no worker is on its restore path.
  After the repair nothing of the kind holds any more (finding
  `TerminalizeSparesLiveWork`), but then `RepairInv` suffices: what is frozen was
  frozen with the counter already up.  `OpenInv` (nothing is cancelled, so every
  command loads the plan) is the third part.  Under `Quiet` every task stays in
  its first phase, which gives the other three; `LandingQuiet` adds that a row
  behind the fence is the one the lander saw.

Of `PatchLanding`, for every set of processes, verbs, git moves and bound on
intents, approvals, commits and faults, under `NoOneAssumption` only
(`PatchLandingProofs`):

* `LandingTypeCorrect` - `TypeOK` is inductive.
* `CompleteCorrect` - `Spec => []CompleteMeansRecorded`.  The property is not
  inductive: a `complete` row is written by a process that relies on what it did
  several steps, or one crash and another process, earlier.  The strengthening
  `RecordInv` says where each process stands in terms of durable state (`Done`):
  past the apply its intent is in the history of applied patches, past the
  record there is a lineage row if `ok` still holds, and so on.  For recovery it
  also needs that what recovery infers is true: a patch it finds in the tree was
  put there by a landing (`TreeExplained`, which git moves keep), and a done row
  that names this landing's frozen copy was finished for it (`DoneNamed`).  No step
  of another process takes any of this back, because the journal and the history
  only grow and a consumed approval stays consumed (`JournalAndGrantsGrow`,
  `HistoryStep`, `DoneStays`).  The proof then has one lemma per group of
  actions, one step per action.
* `OneApplyCorrect` - `Spec => []OneApplyPerGrant`.  `UseInv` adds that only the
  holder of the landings lock is inside (`LockHeld`), that an intent's approval is
  for its patch, that one whose patch went in is never approved again, and that
  at the apply it is reserved by this process and unused.
* `InboxCorrect` - `Spec => InboxImplemented`: every step changes at most one
  approval, by a move `ApprovalInbox` has, or none.
* `LandingExplainedCorrect`, `AppliedAccountedCorrect`, `DoneExplainedCorrect` -
  what recovery relies on when it decides from receipts and tree, from one
  invariant, `ExplainedInv`, since none of the three is inductive without
  the others.  `Careful` says what each process may still do to the accounts: until
  it applies, the tree is the one it was admitted against; whoever is about to
  call an intent abandoned leaves a landing row to another open intent with the
  same receipt, and a patch in the tree to another intent that counts; whoever
  is about to call one complete finds no row in landing.  Behind that stands
  that reviews do not come back: receipts are told by patch and lease, so a row
  that has passed a review never shows its receipt again (`RowGoes`), that only a
  landing that was not fenced keeps the plan (`PRESERVE_PLAN`), and that a
  review whose intent was abandoned is not landed again (`AbandonedStays`).
  `Calm` collects the steps that disturb none of this.

Of `FileLock`, for every set of processes (pids, finite or not) and every bound,
under `ConstantsAssumption` (`FileLockProofs`):

* `FileLockTypeCorrect` - `TypeOK` is inductive.
* `OneReclaimerCorrect` - `Spec => []OneReclaimer`, with any number of kills, lost
  writes and stopped processes.  The argument is Lamport's: a process that has
  passed another's claim is in front of it (`Passed`, `InFront`): the other is
  still to see its ticket, has seen it, or has taken a later one.  Two elected
  processes would each be in front of the other, and ticket and pid order them
  strictly.  That nobody waits, and that claims of the dead count for nothing, is
  why the strengthening (`BakeryInv`) speaks of live processes only.
* `HolderKeptCorrect` - `Spec => []HolderKept`, assuming `Quiet`: no live process
  is stopped for a minute between its mkdir and its identity or inside its `rm
  -rf`, none holds the lock beyond the timeout, and no write is lost.  The
  strengthening `HolderInv` says for every process between its mkdir and its
  rmdir what is in the directory by now (`Stage`), that there is only one such
  process, and that none is left when an elected process is about to `mv`; that
  last part rests on `OneReclaimer`, which is why a lock cannot be replaced
  between the second look and the `mv`.
* `MutexCorrect` - under `Quiet`, `Spec => MutexImplemented`: two processes inside
  would both be named in the one directory, so every step maps to an `Enter`,
  an `Exit` or a stutter.

Of `AttemptRunner`, for every number of attempts and dispatchers, every cap, set of
tools and bound on faults, under the assumptions the module states
(`AttemptRunnerProofs`):

* `AttemptTypeCorrect`, `ClosedMeansStoppedCorrect`, `CancelBeforeStartCorrect`,
  `AgreesWhenQuietCorrect`, `TerminalIsFinalCorrect`, all from one invariant.  The
  two stores are written under different locks, so what is true of them at a
  moment depends on who is between two writes.  `RunnerInv` says for each point of
  a runner what job, pid and process group are, `JobInv` what a state of the job
  says of the rest, `DispatchInv` that between its reservation and its runner an
  attempt belongs to one dispatcher, and `DebtInv` that a closed job's
  attempt is settled or somebody owes it the event: its runner, a cancel command, a
  dispatcher or the holder of the queue lock.  One lemma per action shows that it
  keeps the invariant of its own attempt and leaves every other as it was (`Kept`).
* `CapacityCorrect` - `Spec => []Capacity`.  Only `Reserve` raises the number of active
  jobs (`NextKeepsCaps`); `Reservation` describes the set it takes as a
  predicate, the first `n` queued attempts a provider has room for, so that
  the counts follow from cardinality facts without recursion.
* `ResumeIsExclusiveCorrect`, assuming `Stalls = FALSE`: a live writer that misses
  its heartbeats may be declared blocked and be resumed while it runs, which
  the code cannot tell from a dead one.  `ExclusiveInv` adds that a runner that
  may have a worker has a lifecycle that cannot be resumed yet (`BeatInv`), and
  that an attempt once resumed has no such runner and gets none (`ParentInv`).

Of `PlanRetire`, for every set of processes and commands and every bound, under the
assumptions the module states (`PlanRetireProofs`): `RetireTypeCorrect`,
`RetiredOnceCorrect`, `AcceptedAsRetiredCorrect`, `PlanKeptCorrect` and
`ReceiptedIsFrozenCorrect`, from `RetireInv`.  The acceptance runs for minutes
outside the lock, so the invariant follows the operation instead of the process:
an operation, whether a command carries it, an intent announces it or a receipt
states it, is told by its proof and is of one generation of the file with exactly
these bytes (`OperationsNamed`); nothing answers to the proof of an acceptance
still under way (`Unanswered`); `Witnessed` is what the acceptance has seen
so far and holds only while that generation is still the plan; `RetireHolds` and
`InitHolds` are what the holder of the plan lock has checked and written; and a
plan that is receipted and still there has its intent (`StillIntended`), which
is what the guard of every other verb looks at.

Of `GraphRun`, for every set of graphs, tasks and runners, every number of jobs and
bound, `MaxWalk` included, under the assumptions the module states and what each
theorem adds (`GraphRunProofs`):

* `TypeCorrect` - `Spec => []TypeOK`.  `Base` types everything by the graph of the run:
  a log, a row and an invocation are what its nodes, outcomes and edges allow, and
  what the walk returns is a frontier of that graph.  `Numbered` adds the
  sequence numbers.
* `OutcomeStableCorrect` - `Spec => OutcomeStable`, assuming `Returns(g)` of every graph.
  A row is prepared from one reading of the log and written to another, so its
  action says nothing about the log it meets; `Ordered` does.  It speaks of keys,
  which only grow: every attempt below the newest is settled, a prepared start is of an
  attempt whose predecessors are settled, a prepared outcome is of one that
  is open or over.  A row then begins the next attempt, ends the open one, or is
  not folded, since its key is there.  That a start follows settled
  attempts is a fact about the route: no node is offered that is active.
  For a fresh node that is what `expand` asks; for a repeat, which is
  offered unasked, it follows from `Returns`: every path to the edge has passed its
  target, so the walk, which stops at an active node, never came by.  `Walks` is
  the invariant of the walk that says so (every node on its path is idle), and the
  induction is over its steps, edge by edge (`WalkIsSound`).
* `GatedLandingCorrect` - `Spec => []GatedLanding`, assuming that the parent is patient,
  that every graph with a gate is `Guarded`, and that none is requeued.  `Licences`
  says what carries an approval from the decision to the landing: a task whose gate the
  log calls approved is in review or done (`Frozen`) with a patch that was approved, a
  task whose binder has completed is at least frozen, and whatever is routed to, starts
  or carries out a landing has an approved task (`Licensed`).  Nobody moves a frozen task
  but its lander, and a row of a runner comes after every decision because the
  parent decides when no runner is at work.  `Since` tells an approval that is
  newer than its binder's work from a stale one: a back edge runs the worker
  again, and the gate behind it is then no longer passed.

* `RepeatsPaidCorrect` - `Spec => []RepeatsPaid`, assuming that the parent is patient,
  that no run is contended (`Contended = {}`: one invocation at a time) and that every
  graph `Returns` and is `Branching`.  A bound by all repeats together is not inductive:
  a step would have to know which repeat sent it.  `Paid` says it node by node.
  `NodePaid`: a node has run at most as often as each node that leads to it, and
  once more for each repeat that was charged to go back to it (`Count`); one time
  less if that node is `Ahead`, at work or newer, since the walk passes a node only
  when its feeders are older.  Where branches meet a node has several feeders and a
  sum would not do, so `Branching` leaves joins only among nodes that are never done
  again (`OnceNodes`), which run once, after all that feeds them.  `Owed`: who is
  routed to, or has a start prepared, may begin once more.  `Lone`: no two processes are
  under way, so the log a row meets is the one it was prepared from.
  The walk offers only what is owed (`EvaluatePaid`): a normal step because its feeder
  finished after it, a repeat because its budget is charged in the same step and its
  target, which is `Behind` the walk, is idle.  Each kind of row keeps `NodePaid`
  (`FoldPaid`) and what is still owed (`FoldOwed`).  Last, `AllCounted` goes from nodes
  to the whole: by induction on the size of the set before a node, its attempts
  are bounded by the repeats charged to nodes on the way to it, each counted
  once because normal edges close no cycle, and by the decisions of the gates there
  (`PilesApart` adds the disjoint sets).

`Returns`, `Branching`, `Guarded` and the absence of requeues and of a second invocation
are not asked by validation; TLC evaluates `Returns`, `Branching` and `Guarded` on the
graphs of the run (`MCGraphRun`), the one that ships among them, and the configurations of
the findings show why they are there: `GraphRepair` for `Returns`, `GraphHasty` for the
patient parent, `GraphRequeued` for the requeues, `GraphRejoin`, with either graph, for
`Branching`, `GraphRenumbered` for the one invocation.  `RepeatsPaid` of the
smallest graph with two invocations, which the run also checks, is outside the theorem.

Only model-checked: liveness and anything with fairness, out of the prover's reach.
Every invariant and action property of a run is a theorem.  The theorems cover
exactly the assumptions above: what the plan properties are outside `Alone` and `Quiet`, and what an operator's `finish`
does to `DoneMeansApplied`, is what the configurations of the findings show.

## 6. Not modelled

Of landings: those without a plan task, panel acceptance, retired and archived
plans, capture certificates and seals, tampering with a frozen copy after the
intent, the verifier refreeze, git resets to older commits, `interrupted`
approvals.  Of retirements: a dirty worktree (it only refuses), the names a file
has while it is linked into place, research completion, the reuse of an earlier
acceptance.  Of attempts: usage and logs, budget totals, the projection cache.
Of graphs: the read cache, context packs, artifacts, edge priorities and
conditions, node requirements, stop facts, subgraphs, validation, rendering; no
graph that ships uses the conditions.
Of the lock: the flock branch, which is the kernel's, the derivation of its path
and the read-only probe.  Inside the other modelled components: goal-level verbs (`add`, `amend`),
research receipts and autopilot ownership of rows; the `--claimed-lease`
reservations of goal-drive; provider routing, worktrees, scope and verifier
checks of a delegate (one nondeterministic outcome); its `--apply` mode; the
contents of patches.  The components with status "not_modelled" in
`PROJECT.json` say why there.

## 7. Plan

1. Done: `PlanTask`, `PlanRun`, `PatchLanding` and their theorems; `AttemptRunner`;
   `ApprovalInbox` and the refinement; `PlanRetire` (acceptance included);
   `FileLock`, its theorems and the refinement to `FileMutex`; `GraphRoute` and
   `GraphRun`.
2. `OnceLanding`: an abstract specification of a landing (it happens once or not
   at all, and is recorded as what happened) and the refinement from
   `PatchLanding`.
3. The durable log (append and torn-tail recovery); `--claimed-lease` and
   goal-drive; the push of a landed range; the graph engine over `PlanTask` rows
   instead of its own reduced plan.
4. Theorems: done for every module.  Next, `RepeatsPaid` with two invocations that
   never prepare rows from an old reading (see `GraphRenumbered`); `HolderKept`
   for holders that are slow but not stopped.
