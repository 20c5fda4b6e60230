---------------------------- MODULE AttemptRunner ----------------------------
(***************************************************************************)
(* agent-supervisor (lib/attempt-runner.py) over the lifecycle stream of   *)
(* agent-events (lib/agent-events.py).                                     *)
(*                                                                         *)
(* An attempt lives in two stores that are never written together: the     *)
(* append-only lifecycle stream under its own lock, and one runtime job    *)
(* file under the queue lock.  Submitters, dispatchers, runners,           *)
(* cancellers, two reconcilers and two collectors move them, each in its   *)
(* own process, and any of them may die between two writes.  One action    *)
(* is one durable write, or one locked section with a single write.        *)
(***************************************************************************)
EXTENDS Integers, FiniteSets

CONSTANTS
  MaxAttempts,    \* attempts that may be created
  Dispatchers,    \* dispatch and serve processes
  Provider,       \* the provider of each attempt
  Limits,         \* --provider-limit: partial functions of the providers, one of which
                  \* every dispatcher is given
  MaxRunning,     \* --max-running of every dispatcher
  Kinds,          \* kinds of submitted jobs: "review", "done", "hard"
  Tools,          \* "agent-supervisor", "peer-delegate"
  Stalls,         \* may a live writer miss its heartbeats until it expires?
  MaxFaults       \* bound on kills, failed calls and reused pids

Attempts == 1..MaxAttempts

ASSUME AttemptsAssumption == MaxAttempts \in Nat /\ MaxFaults \in Nat
ASSUME RunningAssumption == MaxRunning \in Nat /\ Stalls \in BOOLEAN
ASSUME ToolsAssumption == Tools # {}
ASSUME ProviderAssumption == DOMAIN Provider = Attempts
ASSUME LimitsAssumption == \A l \in Limits : \A q \in DOMAIN l : l[q] \in Nat

-----------------------------------------------------------------------------
(* The lifecycle of one attempt. *)

Terminal == {"done", "failed", "cancelled", "timed_out", "abandoned"}
Beating == {"starting", "working", "verifying"}
Ends == {"blocked", "failed", "timed_out", "cancelled"}

Transitions ==
  [queued    |-> {"starting"} \cup Ends,
   starting  |-> {"working"} \cup Ends,
   working   |-> {"verifying", "review"} \cup Ends,
   verifying |-> {"review", "working"} \cup Ends,
   review    |-> {"done", "working"} \cup (Ends \ {"timed_out"}),
   blocked   |-> {"working", "abandoned"} \cup (Ends \ {"blocked"})]

Live == DOMAIN Transitions

\* "none": not created; "dropped": its rows were compacted away.
Statuses == Live \cup Terminal \cup {"none", "dropped"}
Reasons == {"", "mismatch", "expired", "other"}
Lifecycle == [st : Statuses, why : Reasons, tool : Tools, parent : 0..MaxAttempts]

-----------------------------------------------------------------------------
(* The runtime job, the worker's process group, and the processes.         *)

Reserved == {"launching", "starting", "running", "cancel_requested",
             "cleanup_failed"}
Closed == {"finished", "cancelled", "interrupted"}

\* runner, pid: the record names its runner, its worker's group.
JobStates == {"none", "queued"} \cup Reserved \cup Closed
Job == [rt : JobStates, runner : BOOLEAN, pid : BOOLEAN, kind : Kinds \cup {"none"}]
NoJob == [rt |-> "none", runner |-> FALSE, pid |-> FALSE, kind |-> "none"]

\* The leader of a worker's group, and whether other members are alive.
\* A zombie has exited and is not reaped; "reused": its number is another's.
Tree == [leader : {"none", "run", "zombie", "gone", "reused"}, kids : BOOLEAN]
NoTree == [leader |-> "none", kids |-> FALSE]
Stopped == [leader |-> "gone", kids |-> FALSE]

RunnerPcs == {"boot", "cancelEvent", "hardEvent", "starting", "launch",
              "launchFailed", "launchEvent", "enrol", "working", "watch",
              "stop", "close", "settle", "verifying", "review", "done",
              "abort", "abortJob", "abortEvent"}
DelegatePcs == {"open", "begin", "verify", "judge", "recover"}
Pcs == {"none"} \cup RunnerPcs \cup DelegatePcs
Cuts == {"none", "timed_out", "cancelled", "mismatch"}
\* bad: nonzero exit; in "abortJob", the cleanup failed.
Runner == [pc : Pcs, cut : Cuts, bad : BOOLEAN]
NoRunner == [pc |-> "none", cut |-> "none", bad |-> FALSE]

DispatcherPcs == {"idle", "check", "cancelEvent", "spawn", "record",
                  "spawnFailed", "blockEvent"}
Dispatcher == [pc : DispatcherPcs, todo : SUBSET Attempts]
IdleDispatcher == [pc |-> "idle", todo |-> {}]

\* A queue lock held over a job write and the lifecycle event that follows.
Holds == [by : {"cancel", "reconcile"}, of : Attempts,
          to : {"cancelled", "blocked", "failed"}]
Free == [by |-> "none"]

VARIABLES
  att,      \* the projected lifecycle stream
  job,      \* the runtime job files
  tree,     \* the worker of each attempt
  run,      \* the runner, or the peer-delegate, of each attempt
  disp,     \* the dispatchers
  can,      \* the cancel command of each attempt, past its locked section
  sub,      \* the submit or resume command of each attempt, past its event
  hold,     \* who holds the queue lock between two writes
  faults,   \* kills, failed calls and reused pids so far
  limits,   \* the provider limits of this run
  early,    \* history: cancellations accepted before the runner began
  torn,     \* history: a process died between a job write and its event
  strays    \* history: workers that lost their runner before it recorded them

stores == <<att, job>>
procs == <<run, disp, can, sub, hold>>
history == <<early, torn, strays>>
bounds == <<faults, limits>>
vars == <<stores, tree, procs, bounds, history>>

Init ==
  /\ att = [a \in Attempts |-> [st |-> "none", why |-> "",
                                tool |-> CHOOSE t \in Tools : TRUE, parent |-> 0]]
  /\ job = [a \in Attempts |-> NoJob]
  /\ tree = [a \in Attempts |-> NoTree]
  /\ run = [a \in Attempts |-> NoRunner]
  /\ disp = [d \in Dispatchers |-> IdleDispatcher]
  /\ can = [a \in Attempts |-> "none"]
  /\ sub = [a \in Attempts |-> "none"]
  /\ hold = Free
  /\ limits \in Limits
  /\ faults = 0 /\ early = {} /\ torn = {} /\ strays = {}

-----------------------------------------------------------------------------
(* What the code asks of the stores and of the system. *)

\* append_lifecycle: an event with the same key and content was appended
\* before (only "process-identity-mismatch" is sent by several processes).
Replays(a, to, why) ==
  why = "mismatch" /\ att[a].st = to /\ att[a].why = why
\* Slip: a terminal attempt takes another event.
AcceptsLate(a, to, why) == att[a].st \notin {"none", "dropped"}

Accepts(a, to, why) ==
  \/ Replays(a, to, why)
  \/ att[a].st \in Live /\ to \in Transitions[att[a].st]
Appended(a, to, why) ==
  IF Accepts(a, to, why)
  THEN [att EXCEPT ![a].st = to, ![a].why = why] ELSE att

GroupAlive(a) == tree[a].leader \in {"run", "reused"} \/ tree[a].kids
PidAlive(a) == tree[a].leader \in {"run", "zombie", "reused"}
TreeMatches(a) == tree[a].leader \in {"run", "zombie"}
Mismatch(a) == job[a].pid /\ (PidAlive(a) \/ GroupAlive(a)) /\ ~TreeMatches(a)

RunnerAlive(a) == run[a].pc # "none"
FinishJob(a, rt) ==
  [job EXCEPT ![a].rt = rt, ![a].runner = FALSE, ![a].pid = FALSE]
QueueFree == hold = Free
Active == {a \in Attempts : job[a].rt \in Reserved}

Goto(a, pc) == run' = [run EXCEPT ![a].pc = pc]
Gone(a) == run' = [run EXCEPT ![a] = NoRunner]
\* A leader that has exited is reaped when its runner ends.
Reaped(a) == [tree EXCEPT ![a].leader = IF @ = "zombie" THEN "gone" ELSE @]
Fault == faults < MaxFaults /\ faults' = faults + 1 /\ UNCHANGED limits

-----------------------------------------------------------------------------
(* Submit, resume, and an attempt opened by peer-delegate. *)

Create(a, tool, parent) ==
  /\ att[a].st = "none" /\ tool \in Tools
  /\ \A b \in 1..(a - 1) : att[b].st # "none"
  /\ att' = [att EXCEPT ![a] = [st |-> "queued", why |-> "", tool |-> tool,
                                parent |-> parent]]

Submit(a) ==
  /\ Create(a, "agent-supervisor", 0)
  /\ sub' = [sub EXCEPT ![a] = "publish"]
  /\ UNCHANGED <<job, tree, run, disp, can, hold, bounds, history>>

\* Slip: resume looks at the parent's job only.
ResumeLive(a, p) ==
  /\ job[p].rt # "none" /\ Provider[a] = Provider[p]
  /\ Create(a, "agent-supervisor", p)
  /\ sub' = [sub EXCEPT ![a] = "publish"]
  /\ UNCHANGED <<job, tree, run, disp, can, hold, bounds, history>>

Resume(a, p) ==
  /\ job[p].rt # "none" /\ att[p].st \in Terminal \cup {"blocked"}
  /\ Provider[a] = Provider[p]
  /\ Create(a, "agent-supervisor", p)
  /\ sub' = [sub EXCEPT ![a] = "publish"]
  /\ UNCHANGED <<job, tree, run, disp, can, hold, bounds, history>>

\* save_new_supervisor_job: only while the attempt is queued.
Publish(a, kind) ==
  /\ sub[a] = "publish" /\ QueueFree
  /\ IF att[a].st = "queued"
     THEN /\ job' = [job EXCEPT ![a] = [NoJob EXCEPT !.rt = "queued", !.kind = kind]]
          /\ sub' = [sub EXCEPT ![a] = "none"]
     ELSE sub' = [sub EXCEPT ![a] = "fail"] /\ UNCHANGED job
  /\ UNCHANGED <<att, tree, run, disp, can, hold, bounds, history>>

PublishFails(a) ==
  /\ sub[a] = "publish" /\ Fault
  /\ sub' = [sub EXCEPT ![a] = "fail"]
  /\ UNCHANGED <<stores, tree, run, disp, can, hold, history>>

SubmitIncomplete(a) ==
  /\ sub[a] = "fail"
  /\ att' = Appended(a, "blocked", "other")
  /\ sub' = [sub EXCEPT ![a] = "none"]
  /\ UNCHANGED <<job, tree, run, disp, can, hold, bounds, history>>

-----------------------------------------------------------------------------
(* Dispatch. *)

\* Slip: the jobs that are already active are not counted.
ProviderFullByPass(a, taken) ==
  /\ Provider[a] \in DOMAIN limits
  /\ Cardinality({b \in taken : Provider[b] = Provider[a]}) >= limits[Provider[a]]

ProviderFull(a, taken) ==
  /\ Provider[a] \in DOMAIN limits
  /\ Cardinality({b \in Active \cup taken : Provider[b] = Provider[a]})
       >= limits[Provider[a]]

\* S is what a pass reserves: the queued jobs, in queue order, for which the
\* earlier ones have left room under --max-jobs (n) and the caps.
Reservation(S, n) ==
  /\ S \subseteq Attempts
  /\ \A a \in Attempts :
       LET before == {b \in S : b < a}
       IN  a \in S <=> /\ job[a].rt = "queued"
                      /\ Cardinality(before) < n
                      /\ Cardinality(Active) + Cardinality(before) < MaxRunning
                      /\ ~ProviderFull(a, before)

Reserve(d, n) ==
  /\ disp[d].pc = "idle" /\ QueueFree
  /\ \E S \in SUBSET Attempts :
       /\ S # {} /\ Reservation(S, n)
       /\ job' = [a \in Attempts |-> IF a \in S THEN [job[a] EXCEPT !.rt = "launching"]
                                    ELSE job[a]]
       /\ disp' = [disp EXCEPT ![d] = [pc |-> "check", todo |-> S]]
  /\ UNCHANGED <<att, tree, run, can, sub, hold, bounds, history>>

First(d) == CHOOSE a \in disp[d].todo : \A b \in disp[d].todo : a <= b
DispatchNext(d) ==
  LET rest == disp[d].todo \ {First(d)}
  IN  disp' = [disp EXCEPT ![d] = IF rest = {} THEN IdleDispatcher
                                  ELSE [pc |-> "check", todo |-> rest]]
DispatchGoto(d, pc) == disp' = [disp EXCEPT ![d].pc = pc]

DispatchCheck(d) ==
  /\ disp[d].pc = "check" /\ QueueFree
  /\ IF job[First(d)].rt = "cancel_requested"
     THEN job' = FinishJob(First(d), "cancelled") /\ DispatchGoto(d, "cancelEvent")
     ELSE DispatchGoto(d, "spawn") /\ UNCHANGED job
  /\ UNCHANGED <<att, tree, run, can, sub, hold, bounds, history>>

Spawn(d) ==
  /\ disp[d].pc = "spawn"
  /\ Goto(First(d), "boot")
  /\ DispatchGoto(d, "record")
  /\ UNCHANGED <<stores, tree, can, sub, hold, bounds, history>>

SpawnFails(d) ==
  /\ disp[d].pc = "spawn" /\ Fault
  /\ DispatchGoto(d, "spawnFailed")
  /\ UNCHANGED <<stores, tree, run, can, sub, hold, history>>

\* Slip: the job is saved as it was reserved.
RecordAsReserved(d) ==
  /\ disp[d].pc = "record" /\ QueueFree
  /\ job' = [job EXCEPT ![First(d)].runner = TRUE, ![First(d)].rt = "launching"]
  /\ DispatchNext(d)
  /\ UNCHANGED <<att, tree, run, can, sub, hold, bounds, history>>

Record(d) ==
  /\ disp[d].pc = "record" /\ QueueFree
  /\ job' = IF job[First(d)].rt = "launching"
            THEN [job EXCEPT ![First(d)].runner = TRUE] ELSE job
  /\ DispatchNext(d)
  /\ UNCHANGED <<att, tree, run, can, sub, hold, bounds, history>>

SpawnFailed(d) ==
  /\ disp[d].pc = "spawnFailed" /\ QueueFree
  /\ job' = FinishJob(First(d), "interrupted")
  /\ DispatchGoto(d, "blockEvent")
  /\ UNCHANGED <<att, tree, run, can, sub, hold, bounds, history>>

\* A refused event ends the command; what it had reserved is left launching.
DispatchEvent(d) ==
  /\ disp[d].pc \in {"cancelEvent", "blockEvent"}
  /\ LET to == IF disp[d].pc = "cancelEvent" THEN "cancelled" ELSE "blocked"
     IN  /\ att' = Appended(First(d), to, "other")
         /\ IF Accepts(First(d), to, "other") THEN DispatchNext(d)
            ELSE disp' = [disp EXCEPT ![d] = IdleDispatcher]
  /\ UNCHANGED <<job, tree, run, can, sub, hold, bounds, history>>

-----------------------------------------------------------------------------
(* The runner of a supervised attempt. *)

RunnerBoot(a) ==
  /\ run[a].pc = "boot" /\ QueueFree
  /\ \/ /\ job[a].rt = "cancel_requested"
        /\ job' = FinishJob(a, "cancelled") /\ Goto(a, "cancelEvent")
     \/ /\ job[a].rt \notin {"cancel_requested", "queued", "launching"}
        /\ Gone(a) /\ UNCHANGED job
     \/ /\ job[a].rt \in {"queued", "launching"} /\ job[a].kind = "hard"
        /\ job' = FinishJob(a, "finished") /\ Goto(a, "hardEvent")
     \/ /\ job[a].rt \in {"queued", "launching"} /\ job[a].kind # "hard"
        /\ job' = [job EXCEPT ![a].rt = "starting", ![a].runner = TRUE]
        /\ Goto(a, "starting")
  /\ UNCHANGED <<att, tree, disp, can, sub, hold, bounds, history>>

\* Events outside the runner's try block: a refused one just ends it.
RunnerFirstEvent(a) ==
  /\ run[a].pc \in {"cancelEvent", "hardEvent", "starting", "launchEvent"}
  /\ LET to == CASE run[a].pc = "cancelEvent" -> "cancelled"
                 [] run[a].pc = "starting" -> "starting"
                 [] OTHER -> "failed"
     IN  /\ att' = Appended(a, to, "other")
         /\ IF run[a].pc = "starting" /\ Accepts(a, to, "other")
            THEN Goto(a, "launch") ELSE Gone(a)
  /\ UNCHANGED <<job, tree, disp, can, sub, hold, bounds, history>>

Launch(a) ==
  /\ run[a].pc = "launch"
  /\ tree' = [tree EXCEPT ![a] = [leader |-> "run", kids |-> FALSE]]
  /\ Goto(a, "enrol")
  /\ UNCHANGED <<stores, disp, can, sub, hold, bounds, history>>

LaunchFails(a) ==
  /\ run[a].pc = "launch" /\ Fault
  /\ Goto(a, "launchFailed")
  /\ UNCHANGED <<stores, tree, disp, can, sub, hold, history>>

LaunchFailed(a) ==
  /\ run[a].pc = "launchFailed" /\ QueueFree
  /\ job' = FinishJob(a, "finished")
  /\ Goto(a, "launchEvent")
  /\ UNCHANGED <<att, tree, disp, can, sub, hold, bounds, history>>

Enrol(a) ==
  /\ run[a].pc = "enrol" /\ QueueFree
  /\ \/ /\ job[a].rt = "cancel_requested"
        /\ job' = [job EXCEPT ![a].pid = TRUE]
        /\ run' = [run EXCEPT ![a].pc = "stop", ![a].cut = "cancelled"]
     \/ /\ job[a].rt = "starting"
        /\ job' = [job EXCEPT ![a].pid = TRUE, ![a].rt = "running"]
        /\ Goto(a, "working")
     \/ /\ job[a].rt \notin {"cancel_requested", "starting"}
        /\ Goto(a, "abort") /\ UNCHANGED job
  /\ UNCHANGED <<att, tree, disp, can, sub, hold, bounds, history>>

\* Events inside the try block: a refused one aborts the runner.
RunnerEvent(a) ==
  /\ run[a].pc \in {"working", "verifying", "review", "done"}
  /\ att' = Appended(a, run[a].pc, "other")
  /\ IF ~Accepts(a, run[a].pc, "other") THEN Goto(a, "abort")
     ELSE CASE run[a].pc = "working" -> Goto(a, "watch")
            [] run[a].pc = "verifying" -> Goto(a, "review")
            [] run[a].pc = "review" /\ job[a].kind = "done" -> Goto(a, "done")
            [] OTHER -> Gone(a)
  /\ UNCHANGED <<job, tree, disp, can, sub, hold, bounds, history>>

\* The loop ends with the leader, the wall clock, or what it reads in the job.
Watch(a) ==
  /\ run[a].pc = "watch"
  /\ \/ /\ tree[a].leader = "zombie"
        /\ run' = [run EXCEPT ![a].pc = "stop"]
     \/ run' = [run EXCEPT ![a].pc = "stop", ![a].cut = "timed_out"]
     \/ /\ job[a].rt \in {"cancel_requested", "none"}
        /\ run' = [run EXCEPT ![a].pc = "stop", ![a].cut = "cancelled"]
     \/ /\ job[a].rt = "interrupted"
        /\ run' = [run EXCEPT ![a].pc = "stop", ![a].cut = "mismatch"]
  /\ UNCHANGED <<stores, tree, disp, can, sub, hold, bounds, history>>

\* Slip: after a leader that exited nothing is left to stop.
StopTreeLeaderOnly(a) ==
  /\ run[a].pc = "stop"
  /\ tree' = [tree EXCEPT ![a].leader = "gone"]
  /\ \E bad \in BOOLEAN : run' = [run EXCEPT ![a].pc = "close", ![a].bad = bad]
  /\ UNCHANGED <<stores, disp, can, sub, hold, bounds, history>>

\* stop_process_tree, exit code, usage: the leader is this runner's child, so
\* its number cannot have been reused.
StopTree(a) ==
  /\ run[a].pc = "stop"
  /\ tree' = [tree EXCEPT ![a] = Stopped]
  /\ \E bad \in BOOLEAN : run' = [run EXCEPT ![a].pc = "close", ![a].bad = bad]
  /\ UNCHANGED <<stores, disp, can, sub, hold, bounds, history>>

CloseJob(a) ==
  /\ run[a].pc = "close" /\ QueueFree /\ job[a].rt # "none"
  /\ LET asked == run[a].cut = "cancelled" \/ job[a].rt = "cancel_requested"
     IN  /\ job' = FinishJob(a, CASE run[a].cut = "mismatch" -> "interrupted"
                                  [] run[a].cut # "mismatch" /\ asked -> "cancelled"
                                  [] OTHER -> "finished")
         /\ run' = [run EXCEPT ![a].pc = "settle",
                               ![a].cut = IF asked /\ @ = "none" THEN "cancelled" ELSE @]
  /\ UNCHANGED <<att, tree, disp, can, sub, hold, bounds, history>>

Settle(a) ==
  /\ run[a].pc = "settle"
  /\ IF run[a].cut = "none" /\ ~run[a].bad
     THEN Goto(a, "verifying") /\ UNCHANGED att
     ELSE LET to == IF run[a].cut \in {"none", "mismatch"} THEN "failed" ELSE run[a].cut
              why == IF run[a].cut = "mismatch" THEN "mismatch" ELSE "other"
          IN  /\ att' = Appended(a, to, why)
              /\ IF Accepts(a, to, why) \/ (run[a].cut = "mismatch" /\ att[a].st \notin Live)
                 THEN Gone(a) ELSE Goto(a, "abort")
  /\ UNCHANGED <<job, tree, disp, can, sub, hold, bounds, history>>

\* Any exception once the worker exists: a failed append, a lock timeout, a
\* worker that cannot be identified, a group that does not stop.
RunnerError(a) ==
  /\ run[a].pc \in {"enrol", "working", "watch", "stop", "close", "settle",
                    "verifying", "review", "done"}
  /\ Fault /\ Goto(a, "abort")
  /\ UNCHANGED <<stores, tree, disp, can, sub, hold, history>>

Abort(a) ==
  /\ run[a].pc = "abort"
  /\ \/ /\ tree' = [tree EXCEPT ![a] = Stopped]
        /\ run' = [run EXCEPT ![a].pc = "abortJob", ![a].bad = FALSE]
        /\ UNCHANGED bounds
     \/ /\ tree[a] # Stopped /\ Fault
        /\ run' = [run EXCEPT ![a].pc = "abortJob", ![a].bad = TRUE]
        /\ UNCHANGED tree
  /\ UNCHANGED <<stores, disp, can, sub, hold, history>>

AbortJob(a) ==
  /\ run[a].pc = "abortJob" /\ QueueFree
  /\ job' = IF job[a].rt = "none" THEN job
            ELSE [job EXCEPT ![a].rt = IF run[a].bad THEN "cleanup_failed" ELSE "interrupted",
                             ![a].pid = run[a].bad, ![a].runner = FALSE]
  /\ Goto(a, "abortEvent")
  /\ UNCHANGED <<att, tree, disp, can, sub, hold, bounds, history>>

AbortEvent(a) ==
  /\ run[a].pc = "abortEvent"
  /\ att' = Appended(a, "blocked", "other")
  /\ Gone(a) /\ tree' = Reaped(a)
  /\ UNCHANGED <<job, disp, can, sub, hold, bounds, history>>

-----------------------------------------------------------------------------
(* Cancel: one locked section; for a queued job it holds the lock over the   *)
(* event as well.                                                            *)

Begun(a) == run[a].pc \notin {"none", "boot"} \/ tree[a] # NoTree

CancelQueued(a) ==
  /\ can[a] = "none" /\ QueueFree /\ job[a].rt = "queued"
  /\ job' = FinishJob(a, "cancelled")
  /\ hold' = [by |-> "cancel", of |-> a, to |-> "cancelled"]
  /\ early' = early \cup {a}
  /\ UNCHANGED <<att, tree, run, disp, can, sub, bounds, torn, strays>>

CancelReserved(a) ==
  /\ can[a] = "none" /\ QueueFree /\ job[a].rt \in Reserved
  /\ IF Mismatch(a)
     THEN /\ job' = [job EXCEPT ![a].rt = "interrupted", ![a].pid = FALSE]
          /\ can' = [can EXCEPT ![a] = "event"]
          /\ UNCHANGED early
     ELSE /\ job' = [job EXCEPT ![a].rt = "cancel_requested"]
          /\ can' = [can EXCEPT ![a] = IF job[a].pid /\ TreeMatches(a)
                                       THEN "signal" ELSE "none"]
          /\ early' = IF Begun(a) THEN early ELSE early \cup {a}
  /\ UNCHANGED <<att, tree, run, disp, sub, hold, bounds, torn, strays>>

\* terminate_process_group, and the second look when it refuses.
CancelSignal(a) ==
  /\ can[a] = "signal"
  /\ IF TreeMatches(a) \/ ~(PidAlive(a) \/ GroupAlive(a))
     THEN can' = [can EXCEPT ![a] = "none"] /\ UNCHANGED job
     ELSE /\ QueueFree
          /\ IF job[a].rt = "cancel_requested" /\ job[a].pid
             THEN /\ job' = [job EXCEPT ![a].rt = "interrupted", ![a].pid = FALSE]
                  /\ can' = [can EXCEPT ![a] = "event"]
             ELSE can' = [can EXCEPT ![a] = "none"] /\ UNCHANGED job
  /\ UNCHANGED <<att, tree, run, disp, sub, hold, bounds, history>>

CancelEvent(a) ==
  /\ can[a] = "event"
  /\ att' = Appended(a, "failed", "mismatch")
  /\ can' = [can EXCEPT ![a] = "none"]
  /\ UNCHANGED <<job, tree, run, disp, sub, hold, bounds, history>>

-----------------------------------------------------------------------------
(* agent-supervisor reconcile, one job at a time.  Who starts it anew after  *)
(* each write sees the same stores as one pass over all of them.             *)

\* A queued attempt with no job.  ORPHAN_JOB_GRACE_SECONDS bounds a command
\* that is between its event and its job only if it is not that slow.
RecOrphan(a) ==
  /\ QueueFree
  /\ att[a].st = "queued" /\ att[a].tool = "agent-supervisor"
  /\ job[a].rt = "none"
  /\ att' = Appended(a, "blocked", "other")
  /\ UNCHANGED <<job, tree, procs, bounds, history>>

\* A reserved job whose recorded runner cannot run.  A launching job with no
\* recorded runner may be older than its grace while its runner boots.
Lost(a) == job[a].rt \in Reserved /\ ~(job[a].runner /\ RunnerAlive(a))

RecordAndHold(a, rt, to) ==
  /\ job' = FinishJob(a, rt)
  /\ hold' = [by |-> "reconcile", of |-> a, to |-> to]

RecJob(a) ==
  /\ QueueFree /\ Lost(a)
  /\ IF Mismatch(a)
     THEN RecordAndHold(a, "interrupted", "failed") /\ UNCHANGED <<tree, bounds>>
     ELSE \/ /\ tree' = IF job[a].pid /\ GroupAlive(a)
                        THEN [tree EXCEPT ![a] = Stopped] ELSE tree
             /\ IF job[a].rt = "cancel_requested"
                THEN RecordAndHold(a, "cancelled", "cancelled")
                ELSE RecordAndHold(a, "interrupted", "blocked")
             /\ UNCHANGED bounds
          \/ /\ job[a].pid /\ GroupAlive(a) /\ Fault      \* it does not stop
             /\ job' = [job EXCEPT ![a].rt = "cleanup_failed", ![a].runner = FALSE]
             /\ UNCHANGED <<tree, hold>>
  /\ UNCHANGED <<att, run, disp, can, sub, history>>

\* Slip: only an attempt that had started is told.
HeldEventBeating ==
  /\ hold # Free
  /\ att' = IF att[hold.of].st \in Beating THEN Appended(hold.of, hold.to, "other") ELSE att
  /\ hold' = Free
  /\ UNCHANGED <<job, tree, run, disp, can, sub, bounds, history>>

\* The event of a cancel or of a reconcile that holds the queue lock.
HeldEvent ==
  /\ hold # Free
  /\ LET a == hold.of
         why == IF hold.to = "failed" THEN "mismatch" ELSE "other"
     IN  att' = IF \/ hold.by = "cancel"
                   \/ att[a].st \in Live /\ (att[a].st # "blocked" \/ hold.to = "failed")
                THEN Appended(a, hold.to, why) ELSE att
  /\ hold' = Free
  /\ UNCHANGED <<job, tree, run, disp, can, sub, bounds, history>>

-----------------------------------------------------------------------------
(* agent-events reconcile, compact and the owner's transitions; gc_runtime.  *)

Writing(a) == run[a].pc \notin {"none", "boot"}

\* Slip: only working attempts are expected to beat.
HeartbeatExpiresWorking(a) ==
  /\ att[a].st = "working" /\ (Stalls \/ ~Writing(a))
  /\ att' = Appended(a, "blocked", "expired")
  /\ UNCHANGED <<job, tree, procs, bounds, history>>

\* The heartbeat of a writer that is alive is late only if it may stall.
HeartbeatExpires(a) ==
  /\ att[a].st \in Beating /\ (Stalls \/ ~Writing(a))
  /\ att' = Appended(a, "blocked", "expired")
  /\ UNCHANGED <<job, tree, procs, bounds, history>>

OwnerMoves(a, to) ==
  /\ \/ att[a].st = "review" /\ to \in {"done", "failed"}
     \/ att[a].st = "blocked" /\ to \in {"abandoned", "cancelled"}
  /\ att' = Appended(a, to, "other")
  /\ UNCHANGED <<job, tree, procs, bounds, history>>

Idle(a) ==
  /\ ~RunnerAlive(a) /\ can[a] = "none" /\ sub[a] = "none"
  /\ \A d \in Dispatchers : a \notin disp[d].todo
  /\ ~(hold # Free /\ hold.of = a)

\* Both collectors look only at what has been quiet for days.
GcRuntime(a) ==
  /\ QueueFree /\ Idle(a)
  /\ att[a].st \in Terminal /\ job[a].rt \in {"finished", "cancelled"}
  /\ job' = [job EXCEPT ![a] = NoJob]
  /\ UNCHANGED <<att, tree, procs, bounds, history>>

\* An attempt whose child is kept is kept.
Compact(D) ==
  /\ D # {} /\ \A a \in D : att[a].st \in Terminal /\ Idle(a)
  /\ \A a \in Attempts \ D :
       att[a].st \notin {"none", "dropped"} => att[a].parent \notin D
  /\ att' = [a \in Attempts |-> IF a \in D THEN [att[a] EXCEPT !.st = "dropped"]
                                ELSE att[a]]
  /\ UNCHANGED <<job, tree, procs, bounds, history>>

-----------------------------------------------------------------------------
(* A peer-delegate attempt: one process and no job.                          *)

DelegateOpen(a) ==
  /\ Create(a, "peer-delegate", 0)
  /\ Goto(a, "open")
  /\ UNCHANGED <<job, tree, disp, can, sub, hold, bounds, history>>

\* A refused event is retried as a failure; before "working" nothing is.
DelegateEvent(a) ==
  /\ run[a].pc \in {"open", "begin", "verify", "judge"}
  /\ \E to \in CASE run[a].pc = "open" -> {"starting"}
                 [] run[a].pc = "begin" -> {"working"}
                 [] run[a].pc = "verify" -> {"verifying", "failed"}
                 [] OTHER -> {"review", "failed"} :
       IF Accepts(a, to, "other")
       THEN /\ att' = Appended(a, to, "other")
            /\ CASE to = "starting" -> Goto(a, "begin")
                 [] to = "working" -> Goto(a, "verify")
                 [] to = "verifying" -> Goto(a, "judge")
                 [] OTHER -> Gone(a)
       ELSE IF to = "review" THEN Goto(a, "recover") /\ UNCHANGED att
       ELSE /\ att' = IF to = "verifying" THEN Appended(a, "failed", "other") ELSE att
            /\ Gone(a)
  /\ UNCHANGED <<job, tree, disp, can, sub, hold, bounds, history>>

\* recover-verify-heartbeat: three appends under one lock, for the expired
\* generation only; otherwise the attempt fails.
DelegateRecover(a) ==
  /\ run[a].pc = "recover" /\ Gone(a)
  /\ att' = IF att[a].st = "blocked" /\ att[a].why = "expired"
            THEN [att EXCEPT ![a].st = "review", ![a].why = "other"]
            ELSE Appended(a, "failed", "other")
  /\ UNCHANGED <<job, tree, disp, can, sub, hold, bounds, history>>

\* ... and a crash after the first or the second of them.
DelegateRecoverTorn(a, reached) ==
  /\ run[a].pc = "recover" /\ att[a].st = "blocked" /\ att[a].why = "expired"
  /\ Fault /\ Gone(a)
  /\ att' = [att EXCEPT ![a].st = reached, ![a].why = "other"]
  /\ UNCHANGED <<job, tree, disp, can, sub, hold, history>>

-----------------------------------------------------------------------------
(* The system: workers exit, processes die, numbers are reused.              *)

WorkerExits(a) ==
  /\ tree[a].leader = "run"
  /\ \E kids \in BOOLEAN :
       tree' = [tree EXCEPT ![a] = [leader |-> IF RunnerAlive(a) THEN "zombie" ELSE "gone",
                                    kids |-> kids]]
  /\ UNCHANGED <<stores, procs, bounds, history>>

KidsExit(a) ==
  /\ tree[a].kids
  /\ tree' = [tree EXCEPT ![a].kids = FALSE]
  /\ UNCHANGED <<stores, procs, bounds, history>>

\* A number is reused only once its group is empty.
PidReused(a) ==
  /\ job[a].pid /\ tree[a] = Stopped /\ ~RunnerAlive(a) /\ Fault
  /\ tree' = [tree EXCEPT ![a].leader = "reused"]
  /\ UNCHANGED <<stores, procs, history>>

\* Nobody else will append what the process owes: the event of a job already
\* closed, or the start of an attempt that has no job.
Owes(a) == run[a].pc = "open" \/ (job[a].rt \in Closed /\ Writing(a))

KillRunner(a) ==
  /\ RunnerAlive(a) /\ Fault /\ Gone(a) /\ tree' = Reaped(a)
  /\ torn' = IF Owes(a) THEN torn \cup {a} ELSE torn
  /\ strays' = IF tree[a] \notin {NoTree, Stopped} /\ ~job[a].pid
               THEN strays \cup {a} ELSE strays
  /\ UNCHANGED <<stores, disp, can, sub, hold, early>>

KillDispatcher(d) ==
  /\ disp[d].pc # "idle" /\ Fault
  /\ torn' = IF disp[d].pc \in {"cancelEvent", "blockEvent"} THEN torn \cup {First(d)} ELSE torn
  /\ disp' = [disp EXCEPT ![d] = IdleDispatcher]
  /\ UNCHANGED <<stores, tree, run, can, sub, hold, early, strays>>

KillHolder ==
  /\ hold # Free /\ Fault
  /\ torn' = torn \cup {hold.of} /\ hold' = Free
  /\ UNCHANGED <<stores, tree, run, disp, can, sub, early, strays>>

KillCommand(a) ==
  /\ can[a] # "none" \/ sub[a] # "none"
  /\ Fault
  /\ can' = [can EXCEPT ![a] = "none"] /\ sub' = [sub EXCEPT ![a] = "none"]
  /\ torn' = IF can[a] = "event" THEN torn \cup {a} ELSE torn
  /\ UNCHANGED <<stores, tree, run, disp, hold, early, strays>>

-----------------------------------------------------------------------------
Runs(a) ==
  \/ RunnerBoot(a) \/ RunnerFirstEvent(a) \/ Launch(a) \/ LaunchFailed(a)
  \/ Enrol(a) \/ RunnerEvent(a) \/ Watch(a) \/ StopTree(a) \/ CloseJob(a)
  \/ Settle(a) \/ Abort(a) \/ AbortJob(a) \/ AbortEvent(a)
  \/ DelegateEvent(a) \/ DelegateRecover(a)

Dispatches(d) ==
  \/ DispatchCheck(d) \/ Spawn(d) \/ Record(d) \/ SpawnFailed(d) \/ DispatchEvent(d)

Commands(a) ==
  \/ \E kind \in Kinds : Publish(a, kind)
  \/ SubmitIncomplete(a) \/ CancelSignal(a) \/ CancelEvent(a)

Reconciles(a) == RecOrphan(a) \/ RecJob(a) \/ HeartbeatExpires(a)

Next ==
  \/ \E a \in Attempts :
       \/ Submit(a) \/ DelegateOpen(a) \/ \E p \in Attempts : Resume(a, p)
       \/ Runs(a) \/ Commands(a) \/ Reconciles(a)
       \/ CancelQueued(a) \/ CancelReserved(a)
       \/ \E to \in {"done", "failed", "abandoned", "cancelled"} : OwnerMoves(a, to)
       \/ GcRuntime(a) \/ WorkerExits(a) \/ KidsExit(a)
       \/ PublishFails(a) \/ LaunchFails(a) \/ RunnerError(a)
       \/ \E reached \in {"working", "verifying"} : DelegateRecoverTorn(a, reached)
       \/ PidReused(a) \/ KillRunner(a) \/ KillCommand(a)
  \/ \E d \in Dispatchers :
       \/ \E n \in 1..MaxAttempts : Reserve(d, n)
       \/ Dispatches(d) \/ SpawnFails(d) \/ KillDispatcher(d)
  \/ HeldEvent \/ KillHolder
  \/ \E D \in SUBSET Attempts : Compact(D)

Spec == Init /\ [][Next]_vars

\* A live process takes its next step; tick and gc reconcile the events, and the
\* operator reconciles the jobs again and again, as no script does.  Workers need
\* not exit: the wall clock ends the watch.
Fairness ==
  /\ \A a \in Attempts :
       /\ WF_vars(Runs(a)) /\ WF_vars(Commands(a)) /\ WF_vars(RecOrphan(a))
       /\ SF_vars(RecJob(a)) /\ WF_vars(HeartbeatExpires(a))
  /\ \A d \in Dispatchers :
       WF_vars(Dispatches(d)) /\ SF_vars(\E n \in 1..MaxAttempts : Reserve(d, n))
  /\ WF_vars(HeldEvent)
FairSpec == Spec /\ Fairness

-----------------------------------------------------------------------------
(* Properties. *)

TypeOK ==
  /\ att \in [Attempts -> Lifecycle] /\ job \in [Attempts -> Job]
  /\ tree \in [Attempts -> Tree] /\ run \in [Attempts -> Runner]
  /\ disp \in [Dispatchers -> Dispatcher]
  /\ can \in [Attempts -> {"none", "signal", "event"}]
  /\ sub \in [Attempts -> {"none", "publish", "fail"}]
  /\ hold \in Holds \cup {Free}
  /\ faults \in 0..MaxFaults
  /\ early \subseteq Attempts /\ torn \subseteq Attempts /\ strays \subseteq Attempts

WorkerAlive(a) == tree[a].leader = "run" \/ tree[a].kids

\* However dispatchers, cancellers and reconcilers interleave, no more jobs are
\* active than --max-running, nor more of a provider than its limit.
Capacity ==
  /\ Cardinality(Active) <= MaxRunning
  /\ \A q \in DOMAIN limits : Cardinality({a \in Active : Provider[a] = q}) <= limits[q]

\* A job recorded as finished or cancelled has left no member of its worker's
\* group alive, whichever of runner, canceller and reconcile closed it and
\* whoever died on the way; except a worker whose runner was killed before it
\* had recorded it.
ClosedMeansStopped ==
  \A a \in Attempts \ strays :
    job[a].rt \in {"finished", "cancelled"} => ~WorkerAlive(a)

\* A cancellation accepted before the runner has begun is never followed by
\* the command (tests/supervisor-smoke.sh).
CancelBeforeStart == \A a \in early : tree[a] = NoTree

\* A resumed attempt's command does not run beside its parent's while the
\* parent's runner lives: resume needs a parent that is terminal or blocked,
\* and the runner says so only once its group is stopped.  (A worker that lost
\* its runner is left alive until the supervisor's reconcile.)
ResumeIsExclusive ==
  \A a \in Attempts :
    LET p == att[a].parent
    IN  p # 0 /\ WorkerAlive(a) /\ WorkerAlive(p) => ~RunnerAlive(p)

\* Once nobody works on a supervised attempt and its job is closed or
\* collected, its lifecycle is terminal, blocked or in review, unless a process died
\* between the job and the event it owed.
AgreesWhenQuiet ==
  \A a \in Attempts \ torn :
    (att[a].tool = "agent-supervisor" /\ Idle(a) /\ job[a].rt \in Closed) =>
      att[a].st \in Terminal \cup {"blocked", "review", "dropped"}

\* A terminal attempt never lives again, and a dropped one is never created anew.
TerminalIsFinal ==
  [][\A a \in Attempts :
       att[a].st \in Terminal \cup {"dropped"} => att'[a].st \in {att[a].st, "dropped"}]_vars

\* Every attempt ends in review, blocked or terminal, unless a process died
\* between its job and the event it owed.
AttemptSettles ==
  \A a \in Attempts :
    (att[a].st # "none") ~>
      (a \in torn \/ att[a].st \in Terminal \cup {"blocked", "review", "dropped"})

=============================================================================
