------------------------- MODULE AttemptRunnerProofs -------------------------
(***************************************************************************)
(* What TLAPS proves about AttemptRunner, for any attempts, dispatchers,   *)
(* caps and number of faults.                                              *)
(*                                                                         *)
(* The inductive invariant follows the runner: while it is past its boot   *)
(* and has not closed its job, nobody else can close it, because the job   *)
(* names a runner that is alive and its worker's group still answers to    *)
(* its own number.                                                         *)
(***************************************************************************)
EXTENDS AttemptRunner, FiniteSetTheorems, WellFoundedInduction, TLAPS

-----------------------------------------------------------------------------
(* The inductive invariant. *)

Attached(a) == tree[a].leader \in {"run", "zombie"}
Unlaunched(a) == tree[a] = NoTree /\ ~job[a].pid
Owned(a, states) == job[a].rt \in states /\ job[a].runner

\* What the job and the worker are at each step of the runner.
RunnerInv(a) ==
  /\ run[a].pc \in DelegatePcs => Unlaunched(a) /\ job[a].rt = "none"
  /\ run[a].pc = "boot" =>
       Unlaunched(a) /\ job[a].rt \in {"launching", "cancel_requested"} \cup Closed
  /\ run[a].pc \in {"cancelEvent", "hardEvent", "launchEvent"} =>
       Unlaunched(a) /\ job[a].rt \in Closed
  /\ run[a].pc \in {"starting", "launch", "launchFailed"} =>
       Unlaunched(a) /\ Owned(a, {"starting", "cancel_requested"})
  /\ run[a].pc = "enrol" =>
       Attached(a) /\ ~job[a].pid /\ Owned(a, {"starting", "cancel_requested"})
  /\ run[a].pc \in {"working", "watch", "stop"} =>
       Attached(a) /\ job[a].pid /\ Owned(a, {"running", "cancel_requested"})
  /\ run[a].pc = "close" =>
       tree[a] = Stopped /\ Owned(a, {"running", "cancel_requested"})
  /\ run[a].pc \in {"settle", "verifying", "review", "done"} =>
       tree[a] = Stopped /\ job[a].rt \in Closed
  /\ run[a].pc \in {"abort", "abortJob"} =>
       \/ tree[a] = Stopped /\ job[a].rt \in Closed
       \/ /\ tree[a] = Stopped \/ Attached(a)
          /\ Owned(a, {"starting", "running", "cancel_requested"})
  /\ run[a].pc = "abortJob" =>
       IF run[a].bad THEN Attached(a) ELSE tree[a] = Stopped
  /\ run[a].pc = "abortEvent" =>
       \/ job[a].rt \in Closed /\ ~WorkerAlive(a) /\ tree[a].leader \in {"zombie", "gone"}
       \/ Attached(a) /\ job[a].pid /\ job[a].rt \in {"cleanup_failed", "cancel_requested"}
  /\ run[a].pc = "none" /\ WorkerAlive(a) /\ a \notin strays =>
       \/ job[a].pid /\ job[a].rt \in Reserved
       \/ job[a].rt = "interrupted"

HeldFor(a) == hold # Free /\ hold.of = a

\* What a job's state says of the others.
JobInv(a) ==
  /\ job[a].rt \in {"none", "queued"} \cup Closed => ~job[a].pid
  /\ tree[a] = NoTree => ~job[a].pid
  /\ tree[a].leader = "none" => tree[a] = NoTree
  /\ job[a].rt \in {"queued", "launching"} =>
       att[a].st = "queued" /\ Unlaunched(a) /\ run[a].pc \in {"none", "boot"}
  /\ job[a].rt = "queued" => run[a].pc = "none"
  /\ att[a].st = "none" => job[a].rt = "none" /\ sub[a] = "none" /\ run[a].pc = "none"
  /\ job[a].rt = "none" /\ (att[a].st = "none" \/ sub[a] # "none") =>
       tree[a] = NoTree /\ a \notin early
  /\ sub[a] # "none" => job[a].rt = "none" /\ run[a].pc = "none"
  /\ can[a] = "event" => job[a].rt \in Closed
  /\ HeldFor(a) => job[a].rt \in Closed
  /\ a \in early =>
       /\ job[a].rt \in {"none", "cancel_requested"} \cup Closed
       /\ run[a].pc \in {"none", "boot", "cancelEvent"}
       /\ tree[a] = NoTree

Owing == {"cancelEvent", "blockEvent"}
Waiting(a) ==
  /\ run[a].pc = "none" /\ Unlaunched(a)
  /\ job[a].rt \in {"launching", "cancel_requested"} \cup Closed

\* Between its reservation and its runner an attempt belongs to one dispatcher.
DispatchInv(d) ==
  /\ disp[d].pc = "idle" <=> disp[d].todo = {}
  /\ disp[d].pc \in Owing => job[First(d)].rt \in Closed
  /\ \A a \in disp[d].todo :
       /\ job[a].rt \notin {"none", "queued"}
       /\ disp[d].pc # "record" \/ a # First(d) => Waiting(a)
       /\ \A e \in Dispatchers \ {d} : a \notin disp[e].todo

\* A closed job owes its attempt an event until the attempt is settled.
Settled(a) == att[a].st \in Terminal \cup {"blocked", "review", "dropped"}
DispatcherOwes(a) == \E d \in Dispatchers : disp[d].pc \in Owing /\ First(d) = a
Indebted(a) ==
  \/ run[a].pc \in {"cancelEvent", "hardEvent", "launchEvent", "settle", "verifying",
                    "review", "done", "abort", "abortJob", "abortEvent"}
  \/ can[a] = "event"
  \/ DispatcherOwes(a) \/ HeldFor(a)
DebtInv(a) == job[a].rt \in Closed /\ a \notin torn => Settled(a) \/ Indebted(a)

SafeInv ==
  /\ \A a \in Attempts : RunnerInv(a) /\ JobInv(a) /\ DebtInv(a)
  /\ \A d \in Dispatchers : DispatchInv(d)
IInv == TypeOK /\ SafeInv

CapInv == limits \in Limits /\ Capacity

\* While no live writer misses its heartbeats, the attempt of a runner that may
\* have a worker is not yet blocked or terminal, ...
BeatInv(a) ==
  /\ run[a].pc = "starting" => att[a].st = "queued"
  /\ run[a].pc \in {"launch", "launchFailed", "enrol", "working", "watch", "stop", "close"} =>
       att[a].st \in {"starting", "working"}
  /\ run[a].pc \in {"abort", "abortJob"} /\ Attached(a) => att[a].st \in {"starting", "working"}
  /\ run[a].pc = "abortEvent" /\ job[a].rt \in Reserved => att[a].st \in {"starting", "working"}

\* ... and an attempt that was resumed has no such runner, and gets none.
Resumed(p) == \E a \in Attempts \ {p} : att[a].parent = p
ParentInv(p) ==
  /\ att[p].parent # p
  /\ Resumed(p) =>
       /\ att[p].st # "none" /\ sub[p] = "none"
       /\ job[p].rt \notin {"queued", "launching"}
       /\ run[p].pc \notin {"starting", "launch", "launchFailed", "enrol", "working", "watch",
                           "stop"}
       /\ run[p].pc \in {"abort", "abortJob"} => tree[p] = Stopped
       /\ run[p].pc = "abortEvent" => ~WorkerAlive(p)

ExclusiveInv ==
  /\ IInv
  /\ \A a \in Attempts : BeatInv(a) /\ ParentInv(a)

-----------------------------------------------------------------------------
(* Smallest and largest members of a set of attempts. *)

LEMMA NatLess == IsWellFoundedOn(OpToRel(<, Nat), Nat)
  BY NatLessThanWellFounded

LEMMA HasSmallest ==
  ASSUME NEW S, S \subseteq Nat, S # {}
  PROVE  \E x \in S : \A y \in S : x <= y
<1>1. PICK x \in S : \A y \in S : <<y, x>> \notin OpToRel(<, Nat)
  BY NatLess, WFMin
<1>2. \A y \in S : ~(y < x)
  BY <1>1 DEF OpToRel
<1> QED BY <1>2

LEMMA HasLargest ==
  ASSUME NEW n \in Nat, NEW S, S \subseteq 1..n, S # {}
  PROVE  \E x \in S : \A y \in S : y <= x
<1> DEFINE T == {n - x : x \in S}
<1>1. T \subseteq Nat /\ T # {}
  <2>1. \A x \in S : x \in Nat /\ n - x \in Nat
    OBVIOUS
  <2> QED BY <2>1
<1>2. PICK t \in T : \A u \in T : t <= u
  BY <1>1, HasSmallest
<1>3. PICK x \in S : t = n - x
  BY <1>2
<1>4. ASSUME NEW y \in S PROVE y <= x
  <2>1. n - y \in T /\ x \in Nat /\ y \in Nat
    OBVIOUS
  <2>2. t <= n - y
    BY <1>2, <2>1
  <2> HIDE DEF T
  <2> QED BY <1>3, <2>1, <2>2
<1> QED BY <1>4

-----------------------------------------------------------------------------
(* The operators the actions are built from. *)

LEMMA FirstIn ==
  ASSUME NEW d, disp[d].todo \subseteq Attempts, disp[d].todo # {}
  PROVE  First(d) \in disp[d].todo
<1>1. disp[d].todo \subseteq Nat
  BY AttemptsAssumption DEF Attempts
<1>2. \E a \in disp[d].todo : \A b \in disp[d].todo : a <= b
  BY <1>1, HasSmallest
<1> QED BY <1>2 DEF First

LEMMA LiveIs ==
  Live = {"queued", "starting", "working", "verifying", "review", "blocked"}
  BY DEF Live, Transitions

LEMMA TransitionsAre ==
  /\ \A st \in Live : Transitions[st] \subseteq (Live \cup Terminal) \ {"queued"}
  /\ \A st \in Live : "failed" \in Transitions[st] /\ "cancelled" \in Transitions[st]
  /\ \A st \in Live : st # "blocked" => "blocked" \in Transitions[st]
  /\ \A st \in Live : st # "review" => "timed_out" \in Transitions[st]
<1>1. ASSUME NEW st \in Live
      PROVE  /\ Transitions[st] \subseteq (Live \cup Terminal) \ {"queued"}
             /\ "failed" \in Transitions[st] /\ "cancelled" \in Transitions[st]
             /\ st # "blocked" => "blocked" \in Transitions[st]
             /\ st # "review" => "timed_out" \in Transitions[st]
  <2>1. CASE st = "queued"
    BY <2>1, LiveIs DEF Transitions, Ends, Terminal
  <2>2. CASE st = "starting"
    BY <2>2, LiveIs DEF Transitions, Ends, Terminal
  <2>3. CASE st = "working"
    BY <2>3, LiveIs DEF Transitions, Ends, Terminal
  <2>4. CASE st = "verifying"
    BY <2>4, LiveIs DEF Transitions, Ends, Terminal
  <2>5. CASE st = "review"
    BY <2>5, LiveIs DEF Transitions, Ends, Terminal
  <2>6. CASE st = "blocked"
    BY <2>6, LiveIs DEF Transitions, Ends, Terminal
  <2> QED BY <2>1, <2>2, <2>3, <2>4, <2>5, <2>6, LiveIs
<1> QED BY <1>1

\* An append moves one attempt, to what it was asked or not at all.
LEMMA AppendedIs ==
  ASSUME NEW a \in Attempts, NEW to \in Statuses, NEW why \in Reasons,
         att \in [Attempts -> Lifecycle]
  PROVE  /\ Appended(a, to, why) \in [Attempts -> Lifecycle]
         /\ \A b \in Attempts \ {a} : Appended(a, to, why)[b] = att[b]
         /\ \A b \in Attempts : Appended(a, to, why)[b].parent = att[b].parent
         /\ Appended(a, to, why)[a].st = IF Accepts(a, to, why) THEN to ELSE att[a].st
  BY DEF Appended, Lifecycle

LEMMA AppendMoves ==
  ASSUME NEW a \in Attempts, NEW to \in Statuses, NEW why \in Reasons,
         att \in [Attempts -> Lifecycle], att' = Appended(a, to, why)
  PROVE  /\ \A b \in Attempts \ {a} : att'[b] = att[b]
         /\ att'[a].st = IF Accepts(a, to, why) THEN to ELSE att[a].st
         /\ \A b \in Attempts : att'[b].parent = att[b].parent
  BY AppendedIs

LEMMA AcceptsMeans ==
  ASSUME NEW a, NEW to, NEW why
  PROVE  Accepts(a, to, why) =>
           att[a].st = to \/ (att[a].st \in Live /\ to \in Transitions[att[a].st])
  BY DEF Accepts, Replays

\* An event that ends an attempt is refused only when it is settled already.
LEMMA EndSettles ==
  ASSUME NEW a \in Attempts, att \in [Attempts -> Lifecycle], att[a].st # "none",
         NEW to \in {"failed", "cancelled", "blocked", "timed_out"}, NEW why
  PROVE  IF Accepts(a, to, why) THEN to \in Terminal \cup {"blocked"} ELSE Settled(a)
  BY TransitionsAre DEF Accepts, Settled, Lifecycle, Statuses, Terminal

LEMMA FinishJobIs ==
  ASSUME NEW a \in Attempts, NEW rt, job \in [Attempts -> Job]
  PROVE  /\ \A b \in Attempts \ {a} : FinishJob(a, rt)[b] = job[b]
         /\ FinishJob(a, rt)[a] = [rt |-> rt, runner |-> FALSE, pid |-> FALSE,
                                  kind |-> job[a].kind]
         /\ rt \in JobStates => FinishJob(a, rt) \in [Attempts -> Job]
  BY ZenonT(60) DEF FinishJob, Job

LEMMA FinishMoves ==
  ASSUME NEW a \in Attempts, NEW rt, job \in [Attempts -> Job], job' = FinishJob(a, rt)
  PROVE  /\ \A b \in Attempts \ {a} : job'[b] = job[b]
         /\ job'[a].rt = rt /\ job'[a].pid = FALSE
  BY DEF FinishJob, Job

LEMMA CreateIs ==
  ASSUME NEW a \in Attempts, NEW tool, NEW parent \in 0..MaxAttempts,
         att \in [Attempts -> Lifecycle], Create(a, tool, parent)
  PROVE  /\ att' \in [Attempts -> Lifecycle]
         /\ att[a].st = "none" /\ att'[a].st = "queued" /\ att'[a].parent = parent
         /\ \A b \in Attempts \ {a} : att'[b] = att[b]
<1>1. "queued" \in Statuses /\ "" \in Reasons
  BY LiveIs DEF Statuses, Reasons
<1> QED BY <1>1 DEF Create, Lifecycle

LEMMA RunnerMoves ==
  ASSUME NEW a \in Attempts, run \in [Attempts -> Runner]
  PROVE  /\ \A pc \in Pcs : Goto(a, pc) =>
              /\ run' \in [Attempts -> Runner]
              /\ run'[a].pc = pc /\ run'[a].bad = run[a].bad
              /\ \A b \in Attempts \ {a} : run'[b] = run[b]
         /\ Gone(a) =>
              /\ run' \in [Attempts -> Runner] /\ run'[a].pc = "none"
              /\ \A b \in Attempts \ {a} : run'[b] = run[b]
<1>1. ASSUME NEW pc \in Pcs, Goto(a, pc)
      PROVE  /\ run' \in [Attempts -> Runner]
             /\ run'[a].pc = pc /\ run'[a].bad = run[a].bad
             /\ \A b \in Attempts \ {a} : run'[b] = run[b]
  BY <1>1 DEF Goto, Runner
<1>2. NoRunner \in Runner /\ NoRunner.pc = "none"
  BY DEF NoRunner, Runner, Pcs, Cuts
<1>3. ASSUME Gone(a)
      PROVE  /\ run' \in [Attempts -> Runner] /\ run'[a].pc = "none"
             /\ \A b \in Attempts \ {a} : run'[b] = run[b]
  BY <1>2, <1>3 DEF Gone
<1> QED BY <1>1, <1>3

-----------------------------------------------------------------------------
(* Types. *)

LEMMA PcNames ==
  {"none", "boot", "cancelEvent", "hardEvent", "starting", "launch", "launchFailed",
   "launchEvent", "enrol", "working", "watch", "stop", "close", "settle",
   "verifying", "review", "done", "abort", "abortJob", "abortEvent", "open",
   "begin", "verify", "judge", "recover"} \subseteq Pcs
  BY DEF Pcs, RunnerPcs, DelegatePcs

LEMMA JobStateNames ==
  {"none", "queued", "launching", "starting", "running", "cancel_requested",
   "cleanup_failed", "finished", "cancelled", "interrupted"} \subseteq JobStates
  BY DEF JobStates, Reserved, Closed

LEMMA StatusNames ==
  {"none", "queued", "starting", "working", "verifying", "review", "blocked",
   "done", "failed", "cancelled", "timed_out", "abandoned", "dropped"} \subseteq
   Statuses
  BY LiveIs DEF Statuses, Terminal

\* The selection, the attempt that is next, and the type of what is left.
LEMMA DispatchNextIs ==
  ASSUME NEW d \in Dispatchers, disp \in [Dispatchers -> Dispatcher], DispatchNext(d)
  PROVE  disp' \in [Dispatchers -> Dispatcher]
<1>1. disp[d].todo \ {First(d)} \in SUBSET Attempts
  BY DEF Dispatcher
<1> QED BY <1>1 DEF DispatchNext, Dispatcher, DispatcherPcs, IdleDispatcher

\* Every step keeps the types.
LEMMA TypeStep ==
  ASSUME TypeOK, \A d \in Dispatchers : disp[d].pc = "idle" <=> disp[d].todo = {}, Next
  PROVE  TypeOK'
<1>1. ASSUME NEW a \in Attempts, Submit(a)
      PROVE  TypeOK'
  <2>1. att' \in [Attempts -> Lifecycle]
    <3>1. 0 \in 0..MaxAttempts
      BY AttemptsAssumption DEF Attempts
    <3> QED BY <1>1, <3>1, CreateIs DEF Submit, TypeOK
  <2>2. sub' \in [Attempts -> {"none", "publish", "fail"}]
    BY <1>1 DEF Submit, TypeOK
  <2> QED BY <1>1, <2>1, <2>2 DEF Submit, TypeOK, bounds, history
<1>2. ASSUME NEW a \in Attempts, NEW p \in Attempts, Resume(a, p)
      PROVE  TypeOK'
  <2>1. att' \in [Attempts -> Lifecycle]
    <3>1. 0 \in 0..MaxAttempts /\ p \in 0..MaxAttempts
      BY AttemptsAssumption DEF Attempts
    <3> QED BY <1>2, <3>1, CreateIs DEF Resume, TypeOK
  <2>2. sub' \in [Attempts -> {"none", "publish", "fail"}]
    BY <1>2 DEF Resume, TypeOK
  <2> QED BY <1>2, <2>1, <2>2 DEF Resume, TypeOK, bounds, history
<1>3. ASSUME NEW a \in Attempts, DelegateOpen(a)
      PROVE  TypeOK'
  <2>1. att' \in [Attempts -> Lifecycle]
    <3>1. 0 \in 0..MaxAttempts
      BY AttemptsAssumption DEF Attempts
    <3> QED BY <1>3, <3>1, CreateIs DEF DelegateOpen, TypeOK
  <2>2. run' \in [Attempts -> Runner]
    BY <1>3, RunnerMoves, PcNames DEF DelegateOpen, TypeOK
  <2> QED BY <1>3, <2>1, <2>2 DEF DelegateOpen, TypeOK, bounds, history
<1>4. ASSUME NEW a \in Attempts, NEW kind \in Kinds, Publish(a, kind)
      PROVE  TypeOK'
  <2>1. job' \in [Attempts -> Job]
    <3>1. [NoJob EXCEPT !.rt = "queued", !.kind = kind] \in Job
      BY JobStateNames DEF NoJob, Job
    <3> QED BY <1>4, <3>1 DEF Publish, TypeOK
  <2>2. sub' \in [Attempts -> {"none", "publish", "fail"}]
    BY <1>4 DEF Publish, TypeOK
  <2> QED BY <1>4, <2>1, <2>2 DEF Publish, TypeOK, bounds, history
<1>5. ASSUME NEW a \in Attempts, PublishFails(a)
      PROVE  TypeOK'
  <2>1. sub' \in [Attempts -> {"none", "publish", "fail"}]
    BY <1>5 DEF PublishFails, TypeOK
  <2>2. faults' \in 0..MaxFaults
    BY <1>5, AttemptsAssumption DEF PublishFails, TypeOK, Fault, bounds
  <2> QED BY <1>5, <2>1, <2>2 DEF PublishFails, TypeOK, stores, history, Fault
<1>6. ASSUME NEW a \in Attempts, SubmitIncomplete(a)
      PROVE  TypeOK'
  <2>1. att' \in [Attempts -> Lifecycle]
    BY <1>6, AppendedIs, StatusNames DEF SubmitIncomplete, TypeOK, Reasons
  <2>2. sub' \in [Attempts -> {"none", "publish", "fail"}]
    BY <1>6 DEF SubmitIncomplete, TypeOK
  <2> QED BY <1>6, <2>1, <2>2 DEF SubmitIncomplete, TypeOK, bounds, history
<1>7. ASSUME NEW d \in Dispatchers, NEW n \in 1..MaxAttempts, Reserve(d, n)
      PROVE  TypeOK'
  <2>1. job' \in [Attempts -> Job]
    <3>1. \A a \in Attempts : [job[a] EXCEPT !.rt = "launching"] \in Job
      BY JobStateNames DEF TypeOK, Job
    <3> QED BY <1>7, <3>1 DEF Reserve, TypeOK
  <2>2. disp' \in [Dispatchers -> Dispatcher]
    BY <1>7, DispatchNextIs DEF Reserve, TypeOK, Dispatcher, DispatcherPcs, IdleDispatcher,
       DispatchGoto
  <2> QED BY <1>7, <2>1, <2>2 DEF Reserve, TypeOK, bounds, history
<1>8. ASSUME NEW d \in Dispatchers, DispatchCheck(d)
      PROVE  TypeOK'
  <2>1. First(d) \in Attempts
    BY <1>8, FirstIn DEF DispatchCheck, TypeOK, Dispatcher
  <2>2. job' \in [Attempts -> Job]
    <3>1. FinishJob(First(d), "cancelled") \in [Attempts -> Job]
      BY <2>1, FinishJobIs, JobStateNames DEF TypeOK
    <3> QED BY <1>8, <3>1 DEF DispatchCheck, TypeOK
  <2>3. disp' \in [Dispatchers -> Dispatcher]
    BY <1>8, <2>1, DispatchNextIs DEF DispatchCheck, TypeOK, Dispatcher, DispatcherPcs,
       IdleDispatcher, DispatchGoto
  <2> QED BY <1>8, <2>1, <2>2, <2>3 DEF DispatchCheck, TypeOK, bounds, history
<1>9. ASSUME NEW d \in Dispatchers, Spawn(d)
      PROVE  TypeOK'
  <2>1. First(d) \in Attempts
    BY <1>9, FirstIn DEF Spawn, TypeOK, Dispatcher
  <2>2. run' \in [Attempts -> Runner]
    BY <1>9, <2>1, RunnerMoves, PcNames DEF Spawn, TypeOK
  <2>3. disp' \in [Dispatchers -> Dispatcher]
    BY <1>9, <2>1, DispatchNextIs DEF Spawn, TypeOK, Dispatcher, DispatcherPcs,
       IdleDispatcher, DispatchGoto
  <2> QED BY <1>9, <2>1, <2>2, <2>3 DEF Spawn, TypeOK, stores, bounds, history
<1>10. ASSUME NEW d \in Dispatchers, SpawnFails(d)
       PROVE  TypeOK'
  <2>1. disp' \in [Dispatchers -> Dispatcher]
    BY <1>10, DispatchNextIs DEF SpawnFails, TypeOK, Dispatcher, DispatcherPcs,
       IdleDispatcher, DispatchGoto
  <2>2. faults' \in 0..MaxFaults
    BY <1>10, AttemptsAssumption DEF SpawnFails, TypeOK, Fault, bounds
  <2> QED BY <1>10, <2>1, <2>2 DEF SpawnFails, TypeOK, stores, history, Fault
<1>11. ASSUME NEW d \in Dispatchers, Record(d)
       PROVE  TypeOK'
  <2>1. First(d) \in Attempts
    BY <1>11, FirstIn DEF Record, TypeOK, Dispatcher
  <2>2. job' \in [Attempts -> Job]
    BY <1>11, <2>1, JobStateNames, ZenonT(60) DEF Record, TypeOK, Job
  <2>3. disp' \in [Dispatchers -> Dispatcher]
    BY <1>11, <2>1, DispatchNextIs DEF Record, TypeOK, Dispatcher, DispatcherPcs,
       IdleDispatcher, DispatchGoto
  <2> QED BY <1>11, <2>1, <2>2, <2>3 DEF Record, TypeOK, bounds, history
<1>12. ASSUME NEW d \in Dispatchers, SpawnFailed(d)
       PROVE  TypeOK'
  <2>1. First(d) \in Attempts
    BY <1>12, FirstIn DEF SpawnFailed, TypeOK, Dispatcher
  <2>2. job' \in [Attempts -> Job]
    BY <1>12, <2>1, JobStateNames, FinishJobIs DEF SpawnFailed, TypeOK, Job, Closed
  <2>3. disp' \in [Dispatchers -> Dispatcher]
    BY <1>12, <2>1, DispatchNextIs DEF SpawnFailed, TypeOK, Dispatcher, DispatcherPcs,
       IdleDispatcher, DispatchGoto
  <2> QED BY <1>12, <2>1, <2>2, <2>3 DEF SpawnFailed, TypeOK, bounds, history
<1>13. ASSUME NEW d \in Dispatchers, DispatchEvent(d)
       PROVE  TypeOK'
  <2>1. First(d) \in Attempts
    BY <1>13, FirstIn DEF DispatchEvent, TypeOK, Dispatcher
  <2>2. att' \in [Attempts -> Lifecycle]
    BY <1>13, <2>1, AppendedIs, StatusNames DEF DispatchEvent, TypeOK, Reasons
  <2>3. disp' \in [Dispatchers -> Dispatcher]
    BY <1>13, <2>1, DispatchNextIs DEF DispatchEvent, TypeOK, Dispatcher, DispatcherPcs,
       IdleDispatcher, DispatchGoto
  <2> QED BY <1>13, <2>1, <2>2, <2>3 DEF DispatchEvent, TypeOK, bounds, history
<1>14. ASSUME NEW a \in Attempts, RunnerBoot(a)
       PROVE  TypeOK'
  <2>1. job' \in [Attempts -> Job]
    <3>1. FinishJob(a, "cancelled") \in [Attempts -> Job] /\ FinishJob(a, "finished") \in [Attempts -> Job]
      BY FinishJobIs, JobStateNames DEF TypeOK
    <3>2. [job EXCEPT ![a].rt = "starting", ![a].runner = TRUE] \in [Attempts -> Job]
      BY JobStateNames, ZenonT(60) DEF TypeOK, Job
    <3> QED BY <1>14, <3>1, <3>2 DEF RunnerBoot, TypeOK
  <2>2. run' \in [Attempts -> Runner]
    BY <1>14, RunnerMoves, PcNames DEF RunnerBoot, TypeOK
  <2> QED BY <1>14, <2>1, <2>2 DEF RunnerBoot, TypeOK, bounds, history
<1>15. ASSUME NEW a \in Attempts, RunnerFirstEvent(a)
       PROVE  TypeOK'
  <2>1. att' \in [Attempts -> Lifecycle]
    BY <1>15, AppendedIs, StatusNames DEF RunnerFirstEvent, TypeOK, Reasons
  <2>2. run' \in [Attempts -> Runner]
    BY <1>15, RunnerMoves, PcNames DEF RunnerFirstEvent, TypeOK
  <2> QED BY <1>15, <2>1, <2>2 DEF RunnerFirstEvent, TypeOK, bounds, history
<1>16. ASSUME NEW a \in Attempts, Launch(a)
       PROVE  TypeOK'
  <2>1. tree' \in [Attempts -> Tree]
    BY <1>16 DEF Launch, TypeOK, Tree, Reaped, Stopped
  <2>2. run' \in [Attempts -> Runner]
    BY <1>16, RunnerMoves, PcNames DEF Launch, TypeOK
  <2> QED BY <1>16, <2>1, <2>2 DEF Launch, TypeOK, stores, bounds, history
<1>17. ASSUME NEW a \in Attempts, LaunchFails(a)
       PROVE  TypeOK'
  <2>1. run' \in [Attempts -> Runner]
    BY <1>17, RunnerMoves, PcNames DEF LaunchFails, TypeOK
  <2>2. faults' \in 0..MaxFaults
    BY <1>17, AttemptsAssumption DEF LaunchFails, TypeOK, Fault, bounds
  <2> QED BY <1>17, <2>1, <2>2 DEF LaunchFails, TypeOK, stores, history, Fault
<1>18. ASSUME NEW a \in Attempts, LaunchFailed(a)
       PROVE  TypeOK'
  <2>1. job' \in [Attempts -> Job]
    BY <1>18, JobStateNames, FinishJobIs DEF LaunchFailed, TypeOK, Job, Closed
  <2>2. run' \in [Attempts -> Runner]
    BY <1>18, RunnerMoves, PcNames DEF LaunchFailed, TypeOK
  <2> QED BY <1>18, <2>1, <2>2 DEF LaunchFailed, TypeOK, bounds, history
<1>19. ASSUME NEW a \in Attempts, Enrol(a)
       PROVE  TypeOK'
  <2>1. job' \in [Attempts -> Job]
    <3>1. [job EXCEPT ![a].pid = TRUE] \in [Attempts -> Job]
      BY DEF TypeOK, Job
    <3>2. [job EXCEPT ![a].pid = TRUE, ![a].rt = "running"] \in [Attempts -> Job]
      BY JobStateNames, ZenonT(60) DEF TypeOK, Job
    <3> QED BY <1>19, <3>1, <3>2 DEF Enrol, TypeOK
  <2>2. run' \in [Attempts -> Runner]
    <3>1. [run EXCEPT ![a].pc = "stop", ![a].cut = "cancelled"] \in [Attempts -> Runner]
      BY PcNames, ZenonT(60) DEF TypeOK, Runner, Cuts
    <3> QED BY <1>19, <3>1, RunnerMoves, PcNames DEF Enrol, TypeOK
  <2> QED BY <1>19, <2>1, <2>2 DEF Enrol, TypeOK, bounds, history
<1>20. ASSUME NEW a \in Attempts, RunnerEvent(a)
       PROVE  TypeOK'
  <2>1. att' \in [Attempts -> Lifecycle]
    <3>1. run[a].pc \in Statuses /\ "other" \in Reasons
      BY <1>20, StatusNames DEF RunnerEvent, Reasons
    <3> QED BY <1>20, <3>1, AppendedIs DEF RunnerEvent, TypeOK
  <2>2. run' \in [Attempts -> Runner]
    BY <1>20, RunnerMoves, PcNames DEF RunnerEvent, TypeOK
  <2> QED BY <1>20, <2>1, <2>2 DEF RunnerEvent, TypeOK, bounds, history
<1>21. ASSUME NEW a \in Attempts, Watch(a)
       PROVE  TypeOK'
  <2>1. run' \in [Attempts -> Runner]
    <3>1. [run EXCEPT ![a].pc = "stop"] \in [Attempts -> Runner]
      BY PcNames DEF TypeOK, Runner
    <3>2. \A cut \in Cuts : [run EXCEPT ![a].pc = "stop", ![a].cut = cut] \in [Attempts -> Runner]
      BY PcNames DEF TypeOK, Runner
    <3>3. {"timed_out", "cancelled", "mismatch"} \subseteq Cuts
      BY DEF Cuts
    <3> QED BY <1>21, <3>1, <3>2, <3>3, ZenonT(60) DEF Watch
  <2> QED BY <1>21, <2>1 DEF Watch, TypeOK, stores, bounds, history
<1>22. ASSUME NEW a \in Attempts, StopTree(a)
       PROVE  TypeOK'
  <2>1. tree' \in [Attempts -> Tree]
    BY <1>22 DEF StopTree, TypeOK, Tree, Reaped, Stopped
  <2>2. run' \in [Attempts -> Runner]
    <3>1. \A bad \in BOOLEAN : [run EXCEPT ![a].pc = "close", ![a].bad = bad] \in [Attempts -> Runner]
      BY PcNames DEF TypeOK, Runner
    <3> QED BY <1>22, <3>1 DEF StopTree
  <2> QED BY <1>22, <2>1, <2>2 DEF StopTree, TypeOK, stores, bounds, history
<1>23. ASSUME NEW a \in Attempts, CloseJob(a)
       PROVE  TypeOK'
  <2>1. job' \in [Attempts -> Job]
    BY <1>23, JobStateNames, FinishJobIs DEF CloseJob, TypeOK, Job, Closed
  <2>2. run' \in [Attempts -> Runner]
    <3>1. \A cut \in Cuts : [run EXCEPT ![a].pc = "settle", ![a].cut = cut] \in [Attempts -> Runner]
      BY PcNames DEF TypeOK, Runner
    <3>2. "cancelled" \in Cuts /\ run[a].cut \in Cuts
      BY DEF Cuts, TypeOK, Runner
    <3> DEFINE asked == run[a].cut = "cancelled" \/ job[a].rt = "cancel_requested"
               cut == IF asked /\ run[a].cut = "none" THEN "cancelled" ELSE run[a].cut
    <3>3. run' = [run EXCEPT ![a].pc = "settle", ![a].cut = cut]
      BY <1>23 DEF CloseJob
    <3>4. cut \in Cuts
      BY <3>2
    <3> HIDE DEF cut
    <3> QED BY <3>1, <3>3, <3>4
  <2> QED BY <1>23, <2>1, <2>2 DEF CloseJob, TypeOK, bounds, history
<1>24. ASSUME NEW a \in Attempts, Settle(a)
       PROVE  TypeOK'
  <2>1. att' \in [Attempts -> Lifecycle]
    <3> DEFINE to == IF run[a].cut \in {"none", "mismatch"} THEN "failed" ELSE run[a].cut
               why == IF run[a].cut = "mismatch" THEN "mismatch" ELSE "other"
    <3>1. to \in Statuses /\ why \in Reasons
      BY StatusNames DEF TypeOK, Runner, Cuts, Reasons
    <3>2. att' = att \/ att' = Appended(a, to, why)
      BY <1>24 DEF Settle
    <3> HIDE DEF to, why
    <3> QED BY <3>1, <3>2, AppendedIs DEF TypeOK
  <2>2. run' \in [Attempts -> Runner]
    BY <1>24, RunnerMoves, PcNames DEF Settle, TypeOK
  <2> QED BY <1>24, <2>1, <2>2 DEF Settle, TypeOK, bounds, history
<1>25. ASSUME NEW a \in Attempts, RunnerError(a)
       PROVE  TypeOK'
  <2>1. run' \in [Attempts -> Runner]
    BY <1>25, RunnerMoves, PcNames DEF RunnerError, TypeOK
  <2>2. faults' \in 0..MaxFaults
    BY <1>25, AttemptsAssumption DEF RunnerError, TypeOK, Fault, bounds
  <2> QED BY <1>25, <2>1, <2>2 DEF RunnerError, TypeOK, stores, history, Fault
<1>26. ASSUME NEW a \in Attempts, Abort(a)
       PROVE  TypeOK'
  <2>1. tree' \in [Attempts -> Tree]
    <3>1. [tree EXCEPT ![a] = Stopped] \in [Attempts -> Tree]
      BY DEF TypeOK, Tree, Stopped
    <3> QED BY <1>26, <3>1 DEF Abort, TypeOK
  <2>2. run' \in [Attempts -> Runner]
    <3>1. \A bad \in BOOLEAN : [run EXCEPT ![a].pc = "abortJob", ![a].bad = bad] \in [Attempts -> Runner]
      BY PcNames DEF TypeOK, Runner
    <3> QED BY <1>26, <3>1 DEF Abort
  <2>3. faults' \in 0..MaxFaults
    BY <1>26, AttemptsAssumption DEF Abort, TypeOK, Fault, bounds
  <2> QED BY <1>26, <2>1, <2>2, <2>3 DEF Abort, TypeOK, stores, history, Fault
<1>27. ASSUME NEW a \in Attempts, AbortJob(a)
       PROVE  TypeOK'
  <2>1. job' \in [Attempts -> Job]
    <3> DEFINE rt == IF run[a].bad THEN "cleanup_failed" ELSE "interrupted"
               pid == run[a].bad
               f == [job EXCEPT ![a].rt = rt, ![a].pid = pid]
    <3>1. rt \in JobStates /\ pid \in BOOLEAN
      BY JobStateNames DEF TypeOK, Runner
    <3>2. job' = job \/ job' = [f EXCEPT ![a].runner = FALSE]
      BY <1>27 DEF AbortJob
    <3> HIDE DEF rt, pid
    <3>3. f \in [Attempts -> Job]
      BY <3>1, ZenonT(60) DEF TypeOK, Job
    <3> HIDE DEF f
    <3>4. [f EXCEPT ![a].runner = FALSE] \in [Attempts -> Job]
      BY <3>3 DEF Job
    <3> QED BY <3>2, <3>4 DEF TypeOK
  <2>2. run' \in [Attempts -> Runner]
    BY <1>27, RunnerMoves, PcNames DEF AbortJob, TypeOK
  <2> QED BY <1>27, <2>1, <2>2 DEF AbortJob, TypeOK, bounds, history
<1>28. ASSUME NEW a \in Attempts, AbortEvent(a)
       PROVE  TypeOK'
  <2>1. att' \in [Attempts -> Lifecycle]
    BY <1>28, AppendedIs, StatusNames DEF AbortEvent, TypeOK, Reasons
  <2>2. run' \in [Attempts -> Runner]
    BY <1>28, RunnerMoves, PcNames DEF AbortEvent, TypeOK
  <2>3. tree' \in [Attempts -> Tree]
    BY <1>28 DEF AbortEvent, TypeOK, Tree, Reaped, Stopped
  <2> QED BY <1>28, <2>1, <2>2, <2>3 DEF AbortEvent, TypeOK, bounds, history
<1>29. ASSUME NEW a \in Attempts, CancelQueued(a)
       PROVE  TypeOK'
  <2>1. job' \in [Attempts -> Job]
    BY <1>29, JobStateNames, FinishJobIs DEF CancelQueued, TypeOK, Job, Closed
  <2>2. hold' \in Holds \cup {Free}
    BY <1>29 DEF CancelQueued, TypeOK, Holds, Free
  <2>3. early' \subseteq Attempts
    BY <1>29 DEF CancelQueued, TypeOK
  <2> QED BY <1>29, <2>1, <2>2, <2>3 DEF CancelQueued, TypeOK, bounds
<1>30. ASSUME NEW a \in Attempts, CancelReserved(a)
       PROVE  TypeOK'
  <2>1. job' \in [Attempts -> Job]
    BY <1>30, JobStateNames DEF CancelReserved, TypeOK, Job
  <2>2. can' \in [Attempts -> {"none", "signal", "event"}]
    BY <1>30 DEF CancelReserved, TypeOK
  <2>3. early' \subseteq Attempts
    BY <1>30 DEF CancelReserved, TypeOK
  <2> QED BY <1>30, <2>1, <2>2, <2>3 DEF CancelReserved, TypeOK, bounds
<1>31. ASSUME NEW a \in Attempts, CancelSignal(a)
       PROVE  TypeOK'
  <2>1. job' \in [Attempts -> Job]
    BY <1>31, JobStateNames DEF CancelSignal, TypeOK, Job
  <2>2. can' \in [Attempts -> {"none", "signal", "event"}]
    BY <1>31 DEF CancelSignal, TypeOK
  <2> QED BY <1>31, <2>1, <2>2 DEF CancelSignal, TypeOK, bounds, history
<1>32. ASSUME NEW a \in Attempts, CancelEvent(a)
       PROVE  TypeOK'
  <2>1. att' \in [Attempts -> Lifecycle]
    BY <1>32, AppendedIs, StatusNames DEF CancelEvent, TypeOK, Reasons
  <2>2. can' \in [Attempts -> {"none", "signal", "event"}]
    BY <1>32 DEF CancelEvent, TypeOK
  <2> QED BY <1>32, <2>1, <2>2 DEF CancelEvent, TypeOK, bounds, history
<1>33. ASSUME NEW a \in Attempts, RecOrphan(a)
       PROVE  TypeOK'
  <2>1. att' \in [Attempts -> Lifecycle]
    BY <1>33, AppendedIs, StatusNames DEF RecOrphan, TypeOK, Reasons
  <2> QED BY <1>33, <2>1 DEF RecOrphan, TypeOK, procs, bounds, history
<1>34. ASSUME NEW a \in Attempts, RecJob(a)
       PROVE  TypeOK'
  <2>1. job' \in [Attempts -> Job]
    <3>1. /\ FinishJob(a, "cancelled") \in [Attempts -> Job]
          /\ FinishJob(a, "interrupted") \in [Attempts -> Job]
      BY FinishJobIs, JobStateNames DEF TypeOK
    <3>2. [job EXCEPT ![a].rt = "cleanup_failed", ![a].runner = FALSE] \in [Attempts -> Job]
      BY JobStateNames, ZenonT(60) DEF TypeOK, Job
    <3> QED BY <1>34, <3>1, <3>2 DEF RecJob, RecordAndHold
  <2>2. tree' \in [Attempts -> Tree]
    <3>1. [tree EXCEPT ![a] = Stopped] \in [Attempts -> Tree]
      BY DEF TypeOK, Tree, Stopped
    <3> QED BY <1>34, <3>1 DEF RecJob, TypeOK
  <2>3. hold' \in Holds \cup {Free}
    BY <1>34 DEF RecJob, TypeOK, Holds, Free, RecordAndHold
  <2>4. faults' \in 0..MaxFaults
    BY <1>34, AttemptsAssumption DEF RecJob, TypeOK, Fault, bounds
  <2> QED BY <1>34, <2>1, <2>2, <2>3, <2>4 DEF RecJob, TypeOK, history, Fault
<1>35. CASE HeldEvent
  <2>1. att' \in [Attempts -> Lifecycle]
    BY <1>35, AppendedIs, StatusNames, ZenonT(60) DEF HeldEvent, TypeOK, Reasons, Holds, Free
  <2>2. hold' \in Holds \cup {Free}
    BY <1>35 DEF HeldEvent, TypeOK, Holds, Free
  <2> QED BY <1>35, <2>1, <2>2 DEF HeldEvent, TypeOK, bounds, history
<1>36. ASSUME NEW a \in Attempts, HeartbeatExpires(a)
       PROVE  TypeOK'
  <2>1. att' \in [Attempts -> Lifecycle]
    BY <1>36, AppendedIs, StatusNames DEF HeartbeatExpires, TypeOK, Reasons
  <2> QED BY <1>36, <2>1 DEF HeartbeatExpires, TypeOK, procs, bounds, history
<1>37. ASSUME NEW a \in Attempts, NEW to \in {"done", "failed", "abandoned", "cancelled"}, OwnerMoves(a, to)
       PROVE  TypeOK'
  <2>1. att' \in [Attempts -> Lifecycle]
    BY <1>37, AppendedIs, StatusNames, ZenonT(60) DEF OwnerMoves, TypeOK, Reasons
  <2> QED BY <1>37, <2>1 DEF OwnerMoves, TypeOK, procs, bounds, history
<1>38. ASSUME NEW a \in Attempts, GcRuntime(a)
       PROVE  TypeOK'
  <2>1. job' \in [Attempts -> Job]
    BY <1>38, JobStateNames DEF GcRuntime, TypeOK, Job, NoJob
  <2> QED BY <1>38, <2>1 DEF GcRuntime, TypeOK, procs, bounds, history
<1>39. ASSUME NEW D \in SUBSET Attempts, Compact(D)
       PROVE  TypeOK'
  <2>1. att' \in [Attempts -> Lifecycle]
    <3>1. \A a \in Attempts : [att[a] EXCEPT !.st = "dropped"] \in Lifecycle
      BY StatusNames DEF TypeOK, Lifecycle
    <3> QED BY <1>39, <3>1 DEF Compact, TypeOK
  <2> QED BY <1>39, <2>1 DEF Compact, TypeOK, procs, bounds, history
<1>40. ASSUME NEW a \in Attempts, DelegateEvent(a)
       PROVE  TypeOK'
  <2>1. att' \in [Attempts -> Lifecycle]
    <3>1. \A to \in {"starting", "working", "verifying", "review", "failed"} :
            Appended(a, to, "other") \in [Attempts -> Lifecycle]
      BY AppendedIs, StatusNames DEF TypeOK, Reasons
    <3> QED BY <1>40, <3>1 DEF DelegateEvent, TypeOK
  <2>2. run' \in [Attempts -> Runner]
    BY <1>40, RunnerMoves, PcNames DEF DelegateEvent, TypeOK
  <2> QED BY <1>40, <2>1, <2>2 DEF DelegateEvent, TypeOK, bounds, history
<1>41. ASSUME NEW a \in Attempts, DelegateRecover(a)
       PROVE  TypeOK'
  <2>1. att' \in [Attempts -> Lifecycle]
    <3>1. Appended(a, "failed", "other") \in [Attempts -> Lifecycle]
      BY AppendedIs, StatusNames DEF TypeOK, Reasons
    <3>2. [att EXCEPT ![a].st = "review", ![a].why = "other"] \in [Attempts -> Lifecycle]
      BY StatusNames, ZenonT(60) DEF TypeOK, Lifecycle, Reasons
    <3> QED BY <1>41, <3>1, <3>2 DEF DelegateRecover
  <2>2. run' \in [Attempts -> Runner]
    BY <1>41, RunnerMoves, PcNames DEF DelegateRecover, TypeOK
  <2> QED BY <1>41, <2>1, <2>2 DEF DelegateRecover, TypeOK, bounds, history
<1>42. ASSUME NEW a \in Attempts, NEW reached \in {"working", "verifying"}, DelegateRecoverTorn(a, reached)
       PROVE  TypeOK'
  <2>1. att' \in [Attempts -> Lifecycle]
    BY <1>42, StatusNames DEF DelegateRecoverTorn, TypeOK, Lifecycle
  <2>2. run' \in [Attempts -> Runner]
    BY <1>42, RunnerMoves, PcNames DEF DelegateRecoverTorn, TypeOK
  <2>3. faults' \in 0..MaxFaults
    BY <1>42, AttemptsAssumption DEF DelegateRecoverTorn, TypeOK, Fault, bounds
  <2> QED BY <1>42, <2>1, <2>2, <2>3 DEF DelegateRecoverTorn, TypeOK, history, Fault
<1>43. ASSUME NEW a \in Attempts, WorkerExits(a)
       PROVE  TypeOK'
  <2>1. tree' \in [Attempts -> Tree]
    BY <1>43 DEF WorkerExits, TypeOK, Tree, Reaped, Stopped
  <2> QED BY <1>43, <2>1 DEF WorkerExits, TypeOK, stores, procs, bounds, history
<1>44. ASSUME NEW a \in Attempts, KidsExit(a)
       PROVE  TypeOK'
  <2>1. tree' \in [Attempts -> Tree]
    BY <1>44 DEF KidsExit, TypeOK, Tree, Reaped, Stopped
  <2> QED BY <1>44, <2>1 DEF KidsExit, TypeOK, stores, procs, bounds, history
<1>45. ASSUME NEW a \in Attempts, PidReused(a)
       PROVE  TypeOK'
  <2>1. tree' \in [Attempts -> Tree]
    BY <1>45 DEF PidReused, TypeOK, Tree, Reaped, Stopped
  <2>2. faults' \in 0..MaxFaults
    BY <1>45, AttemptsAssumption DEF PidReused, TypeOK, Fault, bounds
  <2> QED BY <1>45, <2>1, <2>2 DEF PidReused, TypeOK, stores, procs, history, Fault
<1>46. ASSUME NEW a \in Attempts, KillRunner(a)
       PROVE  TypeOK'
  <2>1. run' \in [Attempts -> Runner]
    BY <1>46, RunnerMoves, PcNames DEF KillRunner, TypeOK
  <2>2. tree' \in [Attempts -> Tree]
    BY <1>46 DEF KillRunner, TypeOK, Tree, Reaped, Stopped
  <2>3. torn' \subseteq Attempts
    BY <1>46 DEF KillRunner, TypeOK
  <2>4. strays' \subseteq Attempts
    BY <1>46 DEF KillRunner, TypeOK
  <2>5. faults' \in 0..MaxFaults
    BY <1>46, AttemptsAssumption DEF KillRunner, TypeOK, Fault, bounds
  <2> QED BY <1>46, <2>1, <2>2, <2>3, <2>4, <2>5 DEF KillRunner, TypeOK, stores, Fault
<1>47. ASSUME NEW d \in Dispatchers, KillDispatcher(d)
       PROVE  TypeOK'
  <2>1. First(d) \in Attempts
    BY <1>47, FirstIn DEF KillDispatcher, TypeOK, Dispatcher
  <2>2. disp' \in [Dispatchers -> Dispatcher]
    BY <1>47, <2>1, DispatchNextIs DEF KillDispatcher, TypeOK, Dispatcher, DispatcherPcs,
       IdleDispatcher, DispatchGoto
  <2>3. torn' \subseteq Attempts
    BY <1>47, <2>1 DEF KillDispatcher, TypeOK
  <2>4. faults' \in 0..MaxFaults
    BY <1>47, <2>1, AttemptsAssumption DEF KillDispatcher, TypeOK, Fault, bounds
  <2> QED BY <1>47, <2>1, <2>2, <2>3, <2>4 DEF KillDispatcher, TypeOK, stores, Fault
<1>48. CASE KillHolder
  <2>1. hold' \in Holds \cup {Free}
    BY <1>48 DEF KillHolder, TypeOK, Holds, Free
  <2>2. torn' \subseteq Attempts
    BY <1>48 DEF KillHolder, TypeOK, Holds, Free
  <2>3. faults' \in 0..MaxFaults
    BY <1>48, AttemptsAssumption DEF KillHolder, TypeOK, Fault, bounds
  <2> QED BY <1>48, <2>1, <2>2, <2>3 DEF KillHolder, TypeOK, stores, Fault
<1>49. ASSUME NEW a \in Attempts, KillCommand(a)
       PROVE  TypeOK'
  <2>1. can' \in [Attempts -> {"none", "signal", "event"}]
    BY <1>49 DEF KillCommand, TypeOK
  <2>2. sub' \in [Attempts -> {"none", "publish", "fail"}]
    BY <1>49 DEF KillCommand, TypeOK
  <2>3. torn' \subseteq Attempts
    BY <1>49 DEF KillCommand, TypeOK
  <2>4. faults' \in 0..MaxFaults
    BY <1>49, AttemptsAssumption DEF KillCommand, TypeOK, Fault, bounds
  <2> QED BY <1>49, <2>1, <2>2, <2>3, <2>4 DEF KillCommand, TypeOK, stores, Fault
<1> QED BY <1>1, <1>2, <1>3, <1>4, <1>5, <1>6, <1>7, <1>8, <1>9, <1>10, <1>11, <1>12,
       <1>13, <1>14, <1>15, <1>16, <1>17, <1>18, <1>19, <1>20, <1>21, <1>22, <1>23,
       <1>24, <1>25, <1>26, <1>27, <1>28, <1>29, <1>30, <1>31, <1>32, <1>33, <1>34,
       <1>35, <1>36, <1>37, <1>38, <1>39, <1>40, <1>41, <1>42, <1>43, <1>44, <1>45,
       <1>46, <1>47, <1>48, <1>49
       DEF Next, Runs, Dispatches, Commands, Reconciles

-----------------------------------------------------------------------------
(* A step that moves one attempt keeps what holds of the others. *)

Same(a) ==
  /\ att'[a] = att[a] /\ job'[a] = job[a] /\ tree'[a] = tree[a]
  /\ run'[a] = run[a] /\ can'[a] = can[a] /\ sub'[a] = sub[a]
  /\ (a \in early' <=> a \in early) /\ (a \in strays' <=> a \in strays)
  /\ a \in torn => a \in torn'
  /\ HeldFor(a)' <=> HeldFor(a)

LEMMA SameKeeps ==
  ASSUME NEW a \in Attempts, RunnerInv(a), JobInv(a), Same(a)
  PROVE  RunnerInv(a)' /\ JobInv(a)'
<1>1. RunnerInv(a)'
  BY DEF RunnerInv, Same, Unlaunched, Owned, Attached, WorkerAlive
<1>2. JobInv(a)'
  BY DEF JobInv, Same, Unlaunched
<1> QED BY <1>1, <1>2

LEMMA SameDebt ==
  ASSUME NEW a \in Attempts, DebtInv(a), Same(a), DispatcherOwes(a) => DispatcherOwes(a)'
  PROVE  DebtInv(a)'
  BY DEF DebtInv, Settled, Indebted, Same

LEMMA FirstKept ==
  ASSUME NEW d, disp'[d] = disp[d]
  PROVE  First(d)' = First(d)
  BY DEF First

LEMMA OwesKept ==
  ASSUME NEW a \in Attempts, disp' = disp
  PROVE  DispatcherOwes(a)' <=> DispatcherOwes(a)
  BY FirstKept DEF DispatcherOwes

\* What the dispatchers need of an attempt that another process moves.
Kept(b) ==
  /\ disp' = disp
  /\ (\E d \in Dispatchers : b \in disp[d].todo) =>
       /\ job[b].rt \in Closed => job'[b].rt \in Closed
       /\ job[b].rt \notin {"none", "queued"} => job'[b].rt \notin {"none", "queued"}
       /\ Waiting(b) => Waiting(b)'

LEMMA FirstOf ==
  ASSUME IInv, NEW d \in Dispatchers, disp[d].pc # "idle"
  PROVE  First(d) \in disp[d].todo /\ First(d) \in Attempts
  BY FirstIn DEF IInv, SafeInv, DispatchInv, TypeOK, Dispatcher

LEMMA OneMoves ==
  ASSUME IInv, NEW b \in Attempts, \A a \in Attempts \ {b} : Same(a), Kept(b),
         RunnerInv(b)', JobInv(b)', DebtInv(b)'
  PROVE  SafeInv'
<1>1. ASSUME NEW a \in Attempts PROVE RunnerInv(a)' /\ JobInv(a)' /\ DebtInv(a)'
  <2>1. CASE a = b
    BY <2>1
  <2>2. CASE a # b
    BY <2>2, SameKeeps, SameDebt, OwesKept DEF IInv, SafeInv, Kept
  <2> QED BY <2>1, <2>2
<1>2. ASSUME NEW d \in Dispatchers PROVE DispatchInv(d)'
  <2>1. DispatchInv(d) /\ disp' = disp /\ First(d)' = First(d)
    BY FirstKept DEF IInv, SafeInv, Kept
  <2>2. \A a \in disp[d].todo \cap Attempts : Waiting(a) => Waiting(a)'
    BY DEF Kept, Same, Waiting, Unlaunched, Closed
  <2>3. \A a \in disp[d].todo \cap Attempts : job[a].rt \in Closed => job'[a].rt \in Closed
    BY DEF Kept, Same, Closed
  <2>4. \A a \in disp[d].todo \cap Attempts :
          job[a].rt \notin {"none", "queued"} => job'[a].rt \notin {"none", "queued"}
    BY DEF Kept, Same, Closed
  <2>5. disp[d].todo \subseteq Attempts
    BY DEF IInv, TypeOK, Dispatcher
  <2>6. disp[d].pc \in Owing => First(d) \in disp[d].todo \cap Attempts
    BY FirstOf DEF Owing
  <2> QED BY <2>1, <2>2, <2>3, <2>4, <2>5, <2>6 DEF DispatchInv
<1> QED BY <1>1, <1>2 DEF SafeInv

\* What a step of one attempt leaves alone, and what it keeps of its heartbeats
\* and of its children.
Alone(a) == \A b \in Attempts \ {a} : Same(b)
Beats(a) == BeatInv(a) /\ ParentInv(a)
KeepsBeats(a) ==
  /\ Alone(a) /\ att'[a].parent = att[a].parent
  /\ ~Stalls /\ Beats(a) => Beats(a)'

\* A live runner's worker answers to its number.
LEMMA MismatchMeansDead ==
  ASSUME IInv, NEW a \in Attempts, job[a].pid, job[a].rt \in Reserved,
         PidAlive(a) \/ GroupAlive(a), ~TreeMatches(a)
  PROVE  run[a].pc = "none"
<1>1. RunnerInv(a) /\ run[a].pc \in Pcs
  BY DEF IInv, SafeInv, TypeOK, Runner
<1>2. ~Attached(a) /\ tree[a] # Stopped /\ ~Unlaunched(a)
  BY DEF Attached, Stopped, Unlaunched, PidAlive, GroupAlive, TreeMatches
<1>3. job[a].rt \notin Closed
  BY DEF Reserved, Closed
<1> QED BY <1>1, <1>2, <1>3 DEF RunnerInv, Pcs, RunnerPcs, DelegatePcs

-----------------------------------------------------------------------------
(* The steps of one attempt.  Each lemma gives what the step leaves alone     *)
(* (<1>2), what it is taken from and what it brings about (<1>3), and then    *)
(* the parts of the invariant for the attempt that moved.                     *)

LEMMA SubmitSafe ==
  ASSUME IInv, NEW a \in Attempts, Submit(a)
  PROVE  SafeInv' /\ Alone(a)
<1>1. RunnerInv(a) /\ JobInv(a) /\ DebtInv(a)
  BY DEF IInv, SafeInv
<1>2. /\ \A b \in Attempts \ {a} : att'[b] = att[b]
      /\ \A b \in Attempts \ {a} : sub'[b] = sub[b]
      /\ UNCHANGED <<job, tree, run, can, disp, hold, early, torn, strays>>
  <2>1. \A b \in Attempts \ {a} : att'[b] = att[b]
    BY CreateIs, AttemptsAssumption DEF Submit, IInv, TypeOK, Attempts
  <2>2. \A b \in Attempts \ {a} : sub'[b] = sub[b]
    BY DEF Submit, IInv, TypeOK
  <2>3. UNCHANGED <<job, tree, run, can, disp, hold, early, torn, strays>>
    BY DEF Submit, history
  <2> QED BY <2>1, <2>2, <2>3
<1>3. /\ att[a].st = "none"
      /\ att'[a].st = "queued"
      /\ sub'[a] = "publish"
  <2>1. att[a].st = "none"
    BY DEF Submit, Create
  <2>2. att'[a].st = "queued"
    BY CreateIs, AttemptsAssumption DEF Submit, IInv, TypeOK, Attempts
  <2>3. sub'[a] = "publish"
    BY DEF Submit, IInv, TypeOK
  <2> QED BY <2>1, <2>2, <2>3
<1>4. RunnerInv(a)'
  BY <1>1, <1>2, <1>3 DEF RunnerInv, Owned, Attached, Unlaunched, WorkerAlive
<1>5. JobInv(a)'
  BY <1>1, <1>2, <1>3 DEF JobInv, HeldFor
<1>6. DebtInv(a)'
  BY <1>1, <1>2, <1>3, OwesKept DEF DebtInv, Settled, HeldFor, Terminal, Indebted
<1>7. Kept(a)
  BY <1>1, <1>2, <1>3 DEF Kept, Waiting, Unlaunched
<1>8. \A b \in Attempts \ {a} : Same(b)
  BY <1>2, <1>3 DEF Same, HeldFor
<1> QED BY <1>4, <1>5, <1>6, <1>7, <1>8, OneMoves DEF Alone

LEMMA ResumeSafe ==
  ASSUME IInv, NEW a \in Attempts, NEW p \in Attempts, Resume(a, p)
  PROVE  SafeInv' /\ Alone(a)
<1>1. RunnerInv(a) /\ JobInv(a) /\ DebtInv(a)
  BY DEF IInv, SafeInv
<1>2. /\ \A b \in Attempts \ {a} : att'[b] = att[b]
      /\ \A b \in Attempts \ {a} : sub'[b] = sub[b]
      /\ UNCHANGED <<job, tree, run, can, disp, hold, early, torn, strays>>
  <2>1. \A b \in Attempts \ {a} : att'[b] = att[b]
    BY CreateIs, AttemptsAssumption DEF Resume, IInv, TypeOK, Attempts
  <2>2. \A b \in Attempts \ {a} : sub'[b] = sub[b]
    BY DEF Resume, IInv, TypeOK
  <2>3. UNCHANGED <<job, tree, run, can, disp, hold, early, torn, strays>>
    BY DEF Resume, history
  <2> QED BY <2>1, <2>2, <2>3
<1>3. /\ att[a].st = "none"
      /\ att'[a].st = "queued"
      /\ sub'[a] = "publish"
  <2>1. att[a].st = "none"
    BY DEF Resume, Create
  <2>2. att'[a].st = "queued"
    BY CreateIs, AttemptsAssumption DEF Resume, IInv, TypeOK, Attempts
  <2>3. sub'[a] = "publish"
    BY DEF Resume, IInv, TypeOK
  <2> QED BY <2>1, <2>2, <2>3
<1>4. RunnerInv(a)'
  BY <1>1, <1>2, <1>3 DEF RunnerInv, Owned, Attached, Unlaunched, WorkerAlive
<1>5. JobInv(a)'
  BY <1>1, <1>2, <1>3 DEF JobInv, HeldFor
<1>6. DebtInv(a)'
  BY <1>1, <1>2, <1>3, OwesKept DEF DebtInv, Settled, HeldFor, Terminal, Indebted
<1>7. Kept(a)
  BY <1>1, <1>2, <1>3 DEF Kept, Waiting, Unlaunched
<1>8. \A b \in Attempts \ {a} : Same(b)
  BY <1>2, <1>3 DEF Same, HeldFor
<1> QED BY <1>4, <1>5, <1>6, <1>7, <1>8, OneMoves DEF Alone

LEMMA DelegateOpenSafe ==
  ASSUME IInv, NEW a \in Attempts, DelegateOpen(a)
  PROVE  SafeInv' /\ Alone(a)
<1>1. RunnerInv(a) /\ JobInv(a) /\ DebtInv(a)
  BY DEF IInv, SafeInv
<1>2. /\ \A b \in Attempts \ {a} : att'[b] = att[b]
      /\ \A b \in Attempts \ {a} : run'[b] = run[b]
      /\ UNCHANGED <<job, tree, can, sub, disp, hold, early, torn, strays>>
  <2>1. \A b \in Attempts \ {a} : att'[b] = att[b]
    BY CreateIs, AttemptsAssumption DEF DelegateOpen, IInv, TypeOK, Attempts
  <2>2. \A b \in Attempts \ {a} : run'[b] = run[b]
    BY RunnerMoves, PcNames DEF DelegateOpen, IInv, TypeOK
  <2>3. UNCHANGED <<job, tree, can, sub, disp, hold, early, torn, strays>>
    BY DEF DelegateOpen, history
  <2> QED BY <2>1, <2>2, <2>3
<1>3. /\ att[a].st = "none"
      /\ att'[a].st = "queued"
      /\ run'[a].pc = "open"
  <2>1. att[a].st = "none"
    BY DEF DelegateOpen, Create
  <2>2. att'[a].st = "queued"
    BY CreateIs, AttemptsAssumption DEF DelegateOpen, IInv, TypeOK, Attempts
  <2>3. run'[a].pc = "open"
    BY RunnerMoves, PcNames DEF DelegateOpen, IInv, TypeOK
  <2> QED BY <2>1, <2>2, <2>3
<1>4. RunnerInv(a)'
  BY <1>1, <1>2, <1>3 DEF RunnerInv, Unlaunched, JobInv
<1>5. JobInv(a)'
  BY <1>1, <1>2, <1>3 DEF JobInv, HeldFor
<1>6. DebtInv(a)'
  BY <1>1, <1>2, <1>3, OwesKept DEF DebtInv, Settled, HeldFor, Terminal, JobInv, Indebted
<1>7. Kept(a)
  BY <1>1, <1>2, <1>3 DEF Kept, Waiting, JobInv, Closed
<1>8. \A b \in Attempts \ {a} : Same(b)
  BY <1>2, <1>3 DEF Same, HeldFor
<1> QED BY <1>4, <1>5, <1>6, <1>7, <1>8, OneMoves DEF Alone

LEMMA PublishSafe ==
  ASSUME IInv, NEW a \in Attempts, NEW kind \in Kinds, Publish(a, kind)
  PROVE  SafeInv' /\ KeepsBeats(a)
<1>1. RunnerInv(a) /\ JobInv(a) /\ DebtInv(a)
  BY DEF IInv, SafeInv
<1>2. /\ \A b \in Attempts \ {a} : job'[b] = job[b]
      /\ \A b \in Attempts \ {a} : sub'[b] = sub[b]
      /\ UNCHANGED <<att, tree, run, can, disp, hold, early, torn, strays>>
  <2>1. \A b \in Attempts \ {a} : job'[b] = job[b]
    BY DEF Publish, IInv, TypeOK
  <2>2. \A b \in Attempts \ {a} : sub'[b] = sub[b]
    BY DEF Publish, IInv, TypeOK
  <2>3. UNCHANGED <<att, tree, run, can, disp, hold, early, torn, strays>>
    BY DEF Publish, history
  <2> QED BY <2>1, <2>2, <2>3
<1>3. /\ sub[a] = "publish"
      /\ IF att[a].st = "queued"
          THEN job'[a].rt = "queued" /\ ~job'[a].pid /\ sub'[a] = "none"
          ELSE sub'[a] = "fail" /\ job' = job
  <2>1. sub[a] = "publish"
    BY DEF Publish
  <2>2. IF att[a].st = "queued"
         THEN job'[a].rt = "queued" /\ ~job'[a].pid /\ sub'[a] = "none"
         ELSE sub'[a] = "fail" /\ job' = job
    <3>1. CASE att[a].st = "queued"
      <4>1. job' = [job EXCEPT ![a] = [NoJob EXCEPT !.rt = "queued", !.kind = kind]]
        BY <3>1 DEF Publish
      <4>2. job'[a] = [NoJob EXCEPT !.rt = "queued", !.kind = kind]
        BY <4>1 DEF IInv, TypeOK
      <4> QED BY <3>1, <4>2 DEF Publish, NoJob, IInv, TypeOK
    <3>2. CASE att[a].st # "queued"
      BY <3>2 DEF Publish, IInv, TypeOK
    <3> QED BY <3>1, <3>2
  <2> QED BY <2>1, <2>2
<1>4. RunnerInv(a)'
  BY <1>1, <1>2, <1>3 DEF RunnerInv, WorkerAlive, DelegatePcs, JobInv
<1>5. JobInv(a)'
  BY <1>1, <1>2, <1>3 DEF JobInv, Unlaunched, Closed, HeldFor
<1>6. DebtInv(a)'
  BY <1>1, <1>2, <1>3, OwesKept DEF DebtInv, Settled, HeldFor, Closed, Indebted
<1>7. Kept(a)
  BY <1>1, <1>2, <1>3 DEF Kept, Waiting, JobInv, Closed
<1>8. \A b \in Attempts \ {a} : Same(b)
  BY <1>2, <1>3 DEF Same, HeldFor
<1>9. att'[a].parent = att[a].parent
  BY <1>2
<1>10. ASSUME ~Stalls, Beats(a) PROVE Beats(a)'
  <2>1. BeatInv(a)'
    BY <1>1, <1>2, <1>3, <1>10 DEF BeatInv, JobInv
  <2>2. Resumed(a)' <=> Resumed(a)
    BY <1>2 DEF Resumed
  <2>3. ParentInv(a)'
    BY <1>1, <1>2, <1>3, <1>9, <1>10, <2>2 DEF Beats, ParentInv
  <2> QED BY <2>1, <2>3 DEF Beats
<1> QED BY <1>4, <1>5, <1>6, <1>7, <1>8, <1>9, <1>10, OneMoves DEF Alone, KeepsBeats

LEMMA PublishFailsSafe ==
  ASSUME IInv, NEW a \in Attempts, PublishFails(a)
  PROVE  SafeInv' /\ KeepsBeats(a)
<1>1. RunnerInv(a) /\ JobInv(a) /\ DebtInv(a)
  BY DEF IInv, SafeInv
<1>2. /\ \A b \in Attempts \ {a} : sub'[b] = sub[b]
      /\ UNCHANGED <<att, job, tree, run, can, disp, hold, early, torn, strays>>
  <2>1. \A b \in Attempts \ {a} : sub'[b] = sub[b]
    BY DEF PublishFails, IInv, TypeOK
  <2>2. UNCHANGED <<att, job, tree, run, can, disp, hold, early, torn, strays>>
    BY DEF PublishFails, Fault, stores, history
  <2> QED BY <2>1, <2>2
<1>3. /\ sub[a] = "publish"
      /\ sub'[a] = "fail"
  <2>1. sub[a] = "publish"
    BY DEF PublishFails
  <2>2. sub'[a] = "fail"
    BY DEF PublishFails, IInv, TypeOK
  <2> QED BY <2>1, <2>2
<1>4. RunnerInv(a)'
  BY <1>1, <1>2, <1>3 DEF RunnerInv, Owned, Attached, Unlaunched, WorkerAlive
<1>5. JobInv(a)'
  BY <1>1, <1>2, <1>3 DEF JobInv, HeldFor
<1>6. DebtInv(a)'
  BY <1>1, <1>2, <1>3, OwesKept DEF DebtInv, Settled, HeldFor, Indebted
<1>7. Kept(a)
  BY <1>1, <1>2, <1>3 DEF Kept, Waiting, Unlaunched
<1>8. \A b \in Attempts \ {a} : Same(b)
  BY <1>2, <1>3 DEF Same, HeldFor
<1>9. att'[a].parent = att[a].parent
  BY <1>2
<1>10. ASSUME ~Stalls, Beats(a) PROVE Beats(a)'
  <2>1. BeatInv(a)'
    BY <1>1, <1>2, <1>3, <1>10 DEF BeatInv, JobInv
  <2>2. Resumed(a)' <=> Resumed(a)
    BY <1>2 DEF Resumed
  <2>3. ParentInv(a)'
    BY <1>1, <1>2, <1>3, <1>9, <1>10, <2>2 DEF Beats, ParentInv
  <2> QED BY <2>1, <2>3 DEF Beats
<1> QED BY <1>4, <1>5, <1>6, <1>7, <1>8, <1>9, <1>10, OneMoves DEF Alone, KeepsBeats

LEMMA SubmitIncompleteSafe ==
  ASSUME IInv, NEW a \in Attempts, SubmitIncomplete(a)
  PROVE  SafeInv' /\ KeepsBeats(a)
<1>1. RunnerInv(a) /\ JobInv(a) /\ DebtInv(a)
  BY DEF IInv, SafeInv
<1>2. /\ \A b \in Attempts \ {a} : att'[b] = att[b]
      /\ \A b \in Attempts \ {a} : sub'[b] = sub[b]
      /\ UNCHANGED <<job, tree, run, can, disp, hold, early, torn, strays>>
  <2>1. \A b \in Attempts \ {a} : att'[b] = att[b]
    BY AppendMoves, StatusNames DEF SubmitIncomplete, IInv, TypeOK, Reasons
  <2>2. \A b \in Attempts \ {a} : sub'[b] = sub[b]
    BY DEF SubmitIncomplete, IInv, TypeOK
  <2>3. UNCHANGED <<job, tree, run, can, disp, hold, early, torn, strays>>
    BY DEF SubmitIncomplete, history
  <2> QED BY <2>1, <2>2, <2>3
<1>3. /\ sub[a] = "fail"
      /\ sub'[a] = "none"
      /\ \/ att'[a].st = att[a].st
         \/ att[a].st \in Live /\ att'[a].st = "blocked"
  <2>1. sub[a] = "fail"
    BY AcceptsMeans DEF SubmitIncomplete
  <2>2. sub'[a] = "none"
    BY AcceptsMeans DEF SubmitIncomplete, IInv, TypeOK
  <2>3. \/ att'[a].st = att[a].st
        \/ att[a].st \in Live /\ att'[a].st = "blocked"
    <3>1. att' = Appended(a, "blocked", "other") /\ "blocked" \in Statuses /\ "other" \in Reasons
      BY StatusNames DEF SubmitIncomplete, Reasons
    <3>2. att'[a].st = IF Accepts(a, "blocked", "other") THEN "blocked" ELSE att[a].st
      BY <3>1, AppendMoves DEF IInv, TypeOK
    <3> QED BY <3>2, AcceptsMeans
  <2> QED BY <2>1, <2>2, <2>3
<1>4. RunnerInv(a)'
  BY <1>1, <1>2, <1>3 DEF RunnerInv, Owned, Attached, Unlaunched, WorkerAlive
<1>5. JobInv(a)'
  BY <1>1, <1>2, <1>3 DEF JobInv, HeldFor
<1>6. DebtInv(a)'
  BY <1>1, <1>2, <1>3, OwesKept DEF DebtInv, Settled, HeldFor, Indebted
<1>7. Kept(a)
  BY <1>1, <1>2, <1>3 DEF Kept, Waiting, Unlaunched
<1>8. \A b \in Attempts \ {a} : Same(b)
  BY <1>2, <1>3 DEF Same, HeldFor
<1>9. att'[a].parent = att[a].parent
  BY AppendMoves, StatusNames DEF SubmitIncomplete, IInv, TypeOK, Lifecycle, Reasons
<1>10. ASSUME ~Stalls, Beats(a) PROVE Beats(a)'
  <2>1. BeatInv(a)'
    BY <1>1, <1>2, <1>3, <1>10 DEF BeatInv, JobInv
  <2>2. Resumed(a)' <=> Resumed(a)
    BY <1>2 DEF Resumed
  <2>3. ParentInv(a)'
    BY <1>1, <1>2, <1>3, <1>9, <1>10, <2>2 DEF Beats, ParentInv
  <2> QED BY <2>1, <2>3 DEF Beats
<1> QED BY <1>4, <1>5, <1>6, <1>7, <1>8, <1>9, <1>10, OneMoves DEF Alone, KeepsBeats

LEMMA RunnerBootSafe ==
  ASSUME IInv, NEW a \in Attempts, RunnerBoot(a)
  PROVE  SafeInv' /\ KeepsBeats(a)
<1>1. RunnerInv(a) /\ JobInv(a) /\ DebtInv(a)
  BY DEF IInv, SafeInv
<1>2. /\ \A b \in Attempts \ {a} : job'[b] = job[b]
      /\ \A b \in Attempts \ {a} : run'[b] = run[b]
      /\ UNCHANGED <<att, tree, can, sub, disp, hold, early, torn, strays>>
  <2>1. \A b \in Attempts \ {a} : job'[b] = job[b]
    BY FinishMoves DEF RunnerBoot, IInv, TypeOK
  <2>2. \A b \in Attempts \ {a} : run'[b] = run[b]
    BY RunnerMoves, PcNames DEF RunnerBoot, IInv, TypeOK
  <2>3. UNCHANGED <<att, tree, can, sub, disp, hold, early, torn, strays>>
    BY DEF RunnerBoot, history
  <2> QED BY <2>1, <2>2, <2>3
<1>3. /\ run[a].pc = "boot"
      /\ \/ job[a].rt = "cancel_requested" /\ run'[a].pc = "cancelEvent" /\ job'[a].rt = "cancelled" /\ ~job'[a].pid
         \/ run'[a].pc = "none" /\ job' = job
         \/ job[a].rt = "launching" /\ run'[a].pc = "hardEvent" /\ job'[a].rt = "finished" /\ ~job'[a].pid
         \/ /\ job[a].rt = "launching" /\ run'[a].pc = "starting"
            /\ job'[a].rt = "starting" /\ job'[a].runner /\ job'[a].pid = job[a].pid
  <2>1. run[a].pc = "boot"
    BY <1>1 DEF RunnerBoot, RunnerInv, Closed
  <2>2. \/ job[a].rt = "cancel_requested" /\ run'[a].pc = "cancelEvent" /\ job'[a].rt = "cancelled" /\ ~job'[a].pid
        \/ run'[a].pc = "none" /\ job' = job
        \/ job[a].rt = "launching" /\ run'[a].pc = "hardEvent" /\ job'[a].rt = "finished" /\ ~job'[a].pid
        \/ /\ job[a].rt = "launching" /\ run'[a].pc = "starting"
           /\ job'[a].rt = "starting" /\ job'[a].runner /\ job'[a].pid = job[a].pid
    <3>1. CASE job[a].rt = "cancel_requested"
      <4>1. job' = FinishJob(a, "cancelled") /\ Goto(a, "cancelEvent")
        BY <3>1 DEF RunnerBoot
      <4> QED BY <3>1, <4>1, FinishMoves, RunnerMoves, PcNames DEF IInv, TypeOK
    <3>2. CASE job[a].rt \notin {"cancel_requested", "queued", "launching"}
      <4>1. job' = job /\ Gone(a)
        BY <3>2 DEF RunnerBoot
      <4> QED BY <4>1, RunnerMoves DEF IInv, TypeOK
    <3>3. CASE job[a].rt = "launching" /\ job[a].kind = "hard"
      <4>1. job' = FinishJob(a, "finished") /\ Goto(a, "hardEvent")
        BY <3>3 DEF RunnerBoot
      <4> QED BY <3>3, <4>1, FinishMoves, RunnerMoves, PcNames DEF IInv, TypeOK
    <3>4. CASE job[a].rt = "launching" /\ job[a].kind # "hard"
      <4>1. job' = [job EXCEPT ![a].rt = "starting", ![a].runner = TRUE] /\ Goto(a, "starting")
        BY <3>4 DEF RunnerBoot
      <4>2. job'[a].rt = "starting" /\ job'[a].runner /\ job'[a].pid = job[a].pid
        BY <4>1 DEF IInv, TypeOK, Job
      <4> QED BY <3>4, <4>1, <4>2, RunnerMoves, PcNames DEF IInv, TypeOK
    <3> QED BY <1>1, <2>1, <3>1, <3>2, <3>3, <3>4 DEF RunnerInv, Closed
  <2> QED BY <2>1, <2>2
<1>4. RunnerInv(a)'
  BY <1>1, <1>2, <1>3 DEF RunnerInv, Owned, Unlaunched, WorkerAlive, Closed, DelegatePcs,
     NoTree
<1>5. JobInv(a)'
  BY <1>1, <1>2, <1>3 DEF JobInv, Unlaunched, Closed, HeldFor
<1>6. DebtInv(a)'
  BY <1>1, <1>2, <1>3, OwesKept DEF DebtInv, Settled, HeldFor, Closed, Indebted
<1>7. Kept(a)
  BY <1>1, <1>2, <1>3 DEF Kept, Waiting, Closed
<1>8. \A b \in Attempts \ {a} : Same(b)
  BY <1>2, <1>3 DEF Same, HeldFor
<1>9. att'[a].parent = att[a].parent
  BY <1>2
<1>10. ASSUME ~Stalls, Beats(a) PROVE Beats(a)'
  <2>1. BeatInv(a)'
    BY <1>1, <1>2, <1>3, <1>10 DEF BeatInv, JobInv
  <2>2. Resumed(a)' <=> Resumed(a)
    BY <1>2 DEF Resumed
  <2>3. ParentInv(a)'
    BY <1>1, <1>2, <1>3, <1>9, <1>10, <2>2 DEF Beats, ParentInv
  <2> QED BY <2>1, <2>3 DEF Beats
<1> QED BY <1>4, <1>5, <1>6, <1>7, <1>8, <1>9, <1>10, OneMoves DEF Alone, KeepsBeats

LEMMA RunnerFirstEventSafe ==
  ASSUME IInv, NEW a \in Attempts, RunnerFirstEvent(a)
  PROVE  SafeInv' /\ KeepsBeats(a)
<1>1. RunnerInv(a) /\ JobInv(a) /\ DebtInv(a)
  BY DEF IInv, SafeInv
<1>2. /\ \A b \in Attempts \ {a} : att'[b] = att[b]
      /\ \A b \in Attempts \ {a} : run'[b] = run[b]
      /\ UNCHANGED <<job, tree, can, sub, disp, hold, early, torn, strays>>
  <2>1. \A b \in Attempts \ {a} : att'[b] = att[b]
    BY AppendMoves, StatusNames DEF RunnerFirstEvent, IInv, TypeOK, Reasons
  <2>2. \A b \in Attempts \ {a} : run'[b] = run[b]
    BY RunnerMoves, PcNames DEF RunnerFirstEvent, IInv, TypeOK
  <2>3. UNCHANGED <<job, tree, can, sub, disp, hold, early, torn, strays>>
    BY DEF RunnerFirstEvent, history
  <2> QED BY <2>1, <2>2, <2>3
<1>3. /\ \/ /\ run[a].pc \in {"cancelEvent", "hardEvent", "launchEvent"} /\ run'[a].pc = "none"
            /\ att'[a].st \in Terminal \/ (Settled(a) /\ att'[a].st = att[a].st)
         \/ run[a].pc = "starting" /\ run'[a].pc = "launch" /\ att'[a].st = "starting"
         \/ run[a].pc = "starting" /\ run'[a].pc = "none" /\ att'[a].st = att[a].st
  <2>1. \/ /\ run[a].pc \in {"cancelEvent", "hardEvent", "launchEvent"} /\ run'[a].pc = "none"
           /\ att'[a].st \in Terminal \/ (Settled(a) /\ att'[a].st = att[a].st)
        \/ run[a].pc = "starting" /\ run'[a].pc = "launch" /\ att'[a].st = "starting"
        \/ run[a].pc = "starting" /\ run'[a].pc = "none" /\ att'[a].st = att[a].st
    <3> DEFINE to == CASE run[a].pc = "cancelEvent" -> "cancelled"
                       [] run[a].pc = "starting" -> "starting"
                       [] OTHER -> "failed"
    <3>1. /\ att' = Appended(a, to, "other")
          /\ IF run[a].pc = "starting" /\ Accepts(a, to, "other")
             THEN Goto(a, "launch") ELSE Gone(a)
          /\ run[a].pc \in {"cancelEvent", "hardEvent", "starting", "launchEvent"}
      BY DEF RunnerFirstEvent
    <3>2. to \in Statuses /\ "other" \in Reasons
      BY StatusNames DEF Reasons
    <3>3. att'[a].st = IF Accepts(a, to, "other") THEN to ELSE att[a].st
      <4> HIDE DEF to
      <4> QED BY <3>1, <3>2, AppendMoves DEF IInv, TypeOK
    <3>4. IF run[a].pc = "starting" /\ Accepts(a, to, "other")
          THEN run'[a].pc = "launch" ELSE run'[a].pc = "none"
      <4> HIDE DEF to
      <4> QED BY <3>1, RunnerMoves, PcNames DEF IInv, TypeOK
    <3>5. att[a].st # "none" /\ att \in [Attempts -> Lifecycle]
      BY <1>1, <3>1 DEF JobInv, IInv, TypeOK
    <3>6. CASE run[a].pc = "starting"
      <4>1. to = "starting"
        BY <3>6
      <4> HIDE DEF to
      <4>2. CASE Accepts(a, to, "other")
        BY <3>3, <3>4, <3>6, <4>1, <4>2
      <4>3. CASE ~Accepts(a, to, "other")
        BY <3>3, <3>4, <3>6, <4>3
      <4> QED BY <4>2, <4>3
    <3>7. CASE run[a].pc # "starting"
      <4>1. to \in {"cancelled", "failed"}
        BY <3>7
      <4>2. IF Accepts(a, to, "other") THEN to \in Terminal ELSE Settled(a)
        <5> HIDE DEF to
        <5> QED BY <4>1, <3>5, EndSettles DEF Terminal
      <4> HIDE DEF to
      <4>3. run[a].pc \in {"cancelEvent", "hardEvent", "launchEvent"} /\ run'[a].pc = "none"
        BY <3>1, <3>4, <3>7
      <4>4. att'[a].st \in Terminal \/ (Settled(a) /\ att'[a].st = att[a].st)
        BY <3>3, <4>2
      <4> QED BY <4>3, <4>4
    <3> QED BY <3>6, <3>7
  <2> QED BY <2>1
<1>4. RunnerInv(a)'
  BY <1>1, <1>2, <1>3 DEF RunnerInv, Owned, Unlaunched, WorkerAlive, DelegatePcs, NoTree
<1>5. JobInv(a)'
  BY <1>1, <1>2, <1>3 DEF JobInv, Terminal, HeldFor
<1>6. DebtInv(a)'
  BY <1>1, <1>2, <1>3, OwesKept DEF DebtInv, Settled, RunnerInv, Owned, Closed
<1>7. Kept(a)
  BY <1>1, <1>2, <1>3 DEF Kept, Waiting
<1>8. \A b \in Attempts \ {a} : Same(b)
  BY <1>2, <1>3 DEF Same, HeldFor
<1>9. att'[a].parent = att[a].parent
  BY AppendMoves, StatusNames DEF RunnerFirstEvent, IInv, TypeOK, Lifecycle, Reasons
<1>10. ASSUME ~Stalls, Beats(a) PROVE Beats(a)'
  <2>1. BeatInv(a)'
    BY <1>1, <1>2, <1>3, <1>10 DEF BeatInv
  <2>2. Resumed(a)' <=> Resumed(a)
    BY <1>2 DEF Resumed
  <2>3. ParentInv(a)'
    BY <1>1, <1>2, <1>3, <1>9, <1>10, <2>2 DEF Beats, ParentInv, Terminal
  <2> QED BY <2>1, <2>3 DEF Beats
<1> QED BY <1>4, <1>5, <1>6, <1>7, <1>8, <1>9, <1>10, OneMoves DEF Alone, KeepsBeats

LEMMA LaunchSafe ==
  ASSUME IInv, NEW a \in Attempts, Launch(a)
  PROVE  SafeInv' /\ KeepsBeats(a)
<1>1. RunnerInv(a) /\ JobInv(a) /\ DebtInv(a)
  BY DEF IInv, SafeInv
<1>2. /\ \A b \in Attempts \ {a} : tree'[b] = tree[b]
      /\ \A b \in Attempts \ {a} : run'[b] = run[b]
      /\ UNCHANGED <<att, job, can, sub, disp, hold, early, torn, strays>>
  <2>1. \A b \in Attempts \ {a} : tree'[b] = tree[b]
    BY DEF Launch, IInv, TypeOK, Reaped
  <2>2. \A b \in Attempts \ {a} : run'[b] = run[b]
    BY RunnerMoves, PcNames DEF Launch, IInv, TypeOK
  <2>3. UNCHANGED <<att, job, can, sub, disp, hold, early, torn, strays>>
    BY DEF Launch, stores, history
  <2> QED BY <2>1, <2>2, <2>3
<1>3. /\ run[a].pc = "launch"
      /\ run'[a].pc = "enrol"
      /\ tree'[a] = [leader |-> "run", kids |-> FALSE]
  <2>1. run[a].pc = "launch"
    BY DEF Launch
  <2>2. run'[a].pc = "enrol"
    BY RunnerMoves, PcNames DEF Launch, IInv, TypeOK
  <2>3. tree'[a] = [leader |-> "run", kids |-> FALSE]
    BY DEF Launch, IInv, TypeOK, Reaped
  <2> QED BY <2>1, <2>2, <2>3
<1>4. RunnerInv(a)'
  BY <1>1, <1>2, <1>3 DEF RunnerInv, Owned, Attached, Unlaunched, DelegatePcs
<1>5. JobInv(a)'
  BY <1>1, <1>2, <1>3 DEF JobInv, NoTree, HeldFor
<1>6. DebtInv(a)'
  BY <1>1, <1>2, <1>3, OwesKept DEF DebtInv, Settled, HeldFor, Indebted
<1>7. Kept(a)
  BY <1>1, <1>2, <1>3 DEF Kept, Waiting
<1>8. \A b \in Attempts \ {a} : Same(b)
  BY <1>2, <1>3 DEF Same, HeldFor
<1>9. att'[a].parent = att[a].parent
  BY <1>2
<1>10. ASSUME ~Stalls, Beats(a) PROVE Beats(a)'
  <2>1. BeatInv(a)'
    BY <1>1, <1>2, <1>3, <1>10 DEF Beats, BeatInv
  <2>2. Resumed(a)' <=> Resumed(a)
    BY <1>2 DEF Resumed
  <2>3. ParentInv(a)'
    BY <1>1, <1>2, <1>3, <1>9, <1>10, <2>2 DEF Beats, ParentInv
  <2> QED BY <2>1, <2>3 DEF Beats
<1> QED BY <1>4, <1>5, <1>6, <1>7, <1>8, <1>9, <1>10, OneMoves DEF Alone, KeepsBeats

LEMMA LaunchFailsSafe ==
  ASSUME IInv, NEW a \in Attempts, LaunchFails(a)
  PROVE  SafeInv' /\ KeepsBeats(a)
<1>1. RunnerInv(a) /\ JobInv(a) /\ DebtInv(a)
  BY DEF IInv, SafeInv
<1>2. /\ \A b \in Attempts \ {a} : run'[b] = run[b]
      /\ UNCHANGED <<att, job, tree, can, sub, disp, hold, early, torn, strays>>
  <2>1. \A b \in Attempts \ {a} : run'[b] = run[b]
    BY RunnerMoves, PcNames DEF LaunchFails, IInv, TypeOK
  <2>2. UNCHANGED <<att, job, tree, can, sub, disp, hold, early, torn, strays>>
    BY DEF LaunchFails, Fault, stores, history
  <2> QED BY <2>1, <2>2
<1>3. /\ run[a].pc = "launch"
      /\ run'[a].pc = "launchFailed"
  <2>1. run[a].pc = "launch"
    BY DEF LaunchFails
  <2>2. run'[a].pc = "launchFailed"
    BY RunnerMoves, PcNames DEF LaunchFails, IInv, TypeOK
  <2> QED BY <2>1, <2>2
<1>4. RunnerInv(a)'
  BY <1>1, <1>2, <1>3 DEF RunnerInv, Owned, Unlaunched, DelegatePcs
<1>5. JobInv(a)'
  BY <1>1, <1>2, <1>3 DEF JobInv, HeldFor
<1>6. DebtInv(a)'
  BY <1>1, <1>2, <1>3, OwesKept DEF DebtInv, Settled, HeldFor, Indebted
<1>7. Kept(a)
  BY <1>1, <1>2, <1>3 DEF Kept, Waiting
<1>8. \A b \in Attempts \ {a} : Same(b)
  BY <1>2, <1>3 DEF Same, HeldFor
<1>9. att'[a].parent = att[a].parent
  BY <1>2
<1>10. ASSUME ~Stalls, Beats(a) PROVE Beats(a)'
  <2>1. BeatInv(a)'
    BY <1>1, <1>2, <1>3, <1>10 DEF Beats, BeatInv
  <2>2. Resumed(a)' <=> Resumed(a)
    BY <1>2 DEF Resumed
  <2>3. ParentInv(a)'
    BY <1>1, <1>2, <1>3, <1>9, <1>10, <2>2 DEF Beats, ParentInv
  <2> QED BY <2>1, <2>3 DEF Beats
<1> QED BY <1>4, <1>5, <1>6, <1>7, <1>8, <1>9, <1>10, OneMoves DEF Alone, KeepsBeats

LEMMA LaunchFailedSafe ==
  ASSUME IInv, NEW a \in Attempts, LaunchFailed(a)
  PROVE  SafeInv' /\ KeepsBeats(a)
<1>1. RunnerInv(a) /\ JobInv(a) /\ DebtInv(a)
  BY DEF IInv, SafeInv
<1>2. /\ \A b \in Attempts \ {a} : job'[b] = job[b]
      /\ \A b \in Attempts \ {a} : run'[b] = run[b]
      /\ UNCHANGED <<att, tree, can, sub, disp, hold, early, torn, strays>>
  <2>1. \A b \in Attempts \ {a} : job'[b] = job[b]
    BY FinishMoves DEF LaunchFailed, IInv, TypeOK
  <2>2. \A b \in Attempts \ {a} : run'[b] = run[b]
    BY RunnerMoves, PcNames DEF LaunchFailed, IInv, TypeOK
  <2>3. UNCHANGED <<att, tree, can, sub, disp, hold, early, torn, strays>>
    BY DEF LaunchFailed, history
  <2> QED BY <2>1, <2>2, <2>3
<1>3. /\ run[a].pc = "launchFailed"
      /\ run'[a].pc = "launchEvent"
      /\ job'[a].rt = "finished" /\ ~job'[a].pid
  <2>1. run[a].pc = "launchFailed"
    BY DEF LaunchFailed
  <2>2. run'[a].pc = "launchEvent"
    BY RunnerMoves, PcNames DEF LaunchFailed, IInv, TypeOK
  <2>3. job'[a].rt = "finished" /\ ~job'[a].pid
    BY FinishMoves DEF LaunchFailed, IInv, TypeOK, Job
  <2> QED BY <2>1, <2>2, <2>3
<1>4. RunnerInv(a)'
  BY <1>1, <1>2, <1>3 DEF RunnerInv, Unlaunched, Closed, DelegatePcs
<1>5. JobInv(a)'
  BY <1>1, <1>2, <1>3 DEF JobInv, Closed
<1>6. DebtInv(a)'
  BY <1>1, <1>2, <1>3, OwesKept DEF DebtInv, Indebted
<1>7. Kept(a)
  BY <1>1, <1>2, <1>3 DEF Kept, Waiting, Closed
<1>8. \A b \in Attempts \ {a} : Same(b)
  BY <1>2, <1>3 DEF Same, HeldFor
<1>9. att'[a].parent = att[a].parent
  BY <1>2
<1>10. ASSUME ~Stalls, Beats(a) PROVE Beats(a)'
  <2>1. BeatInv(a)'
    BY <1>1, <1>2, <1>3, <1>10 DEF BeatInv
  <2>2. Resumed(a)' <=> Resumed(a)
    BY <1>2 DEF Resumed
  <2>3. ParentInv(a)'
    BY <1>1, <1>2, <1>3, <1>9, <1>10, <2>2 DEF Beats, ParentInv
  <2> QED BY <2>1, <2>3 DEF Beats
<1> QED BY <1>4, <1>5, <1>6, <1>7, <1>8, <1>9, <1>10, OneMoves DEF Alone, KeepsBeats

LEMMA EnrolSafe ==
  ASSUME IInv, NEW a \in Attempts, Enrol(a)
  PROVE  SafeInv' /\ KeepsBeats(a)
<1>1. RunnerInv(a) /\ JobInv(a) /\ DebtInv(a)
  BY DEF IInv, SafeInv
<1>2. /\ \A b \in Attempts \ {a} : job'[b] = job[b]
      /\ \A b \in Attempts \ {a} : run'[b] = run[b]
      /\ UNCHANGED <<att, tree, can, sub, disp, hold, early, torn, strays>>
  <2>1. \A b \in Attempts \ {a} : job'[b] = job[b]
    BY DEF Enrol, IInv, TypeOK
  <2>2. \A b \in Attempts \ {a} : run'[b] = run[b]
    BY RunnerMoves, PcNames DEF Enrol, IInv, TypeOK
  <2>3. UNCHANGED <<att, tree, can, sub, disp, hold, early, torn, strays>>
    BY DEF Enrol, history
  <2> QED BY <2>1, <2>2, <2>3
<1>3. /\ run[a].pc = "enrol"
      /\ \/ /\ job[a].rt = "cancel_requested" /\ job'[a].rt = job[a].rt /\ job'[a].pid
            /\ job'[a].runner = job[a].runner /\ run'[a].pc = "stop"
         \/ /\ job[a].rt = "starting" /\ job'[a].rt = "running" /\ job'[a].pid
            /\ job'[a].runner = job[a].runner /\ run'[a].pc = "working"
         \/ job[a].rt \notin {"cancel_requested", "starting"}
  <2>1. run[a].pc = "enrol"
    BY DEF Enrol
  <2>2. \/ /\ job[a].rt = "cancel_requested" /\ job'[a].rt = job[a].rt /\ job'[a].pid
           /\ job'[a].runner = job[a].runner /\ run'[a].pc = "stop"
        \/ /\ job[a].rt = "starting" /\ job'[a].rt = "running" /\ job'[a].pid
           /\ job'[a].runner = job[a].runner /\ run'[a].pc = "working"
        \/ job[a].rt \notin {"cancel_requested", "starting"}
    <3>1. CASE job[a].rt = "cancel_requested"
      <4>1. /\ job' = [job EXCEPT ![a].pid = TRUE]
            /\ run' = [run EXCEPT ![a].pc = "stop", ![a].cut = "cancelled"]
        BY <3>1 DEF Enrol
      <4> QED BY <3>1, <4>1 DEF IInv, TypeOK, Job, Runner
    <3>2. CASE job[a].rt = "starting"
      <4>1. job' = [job EXCEPT ![a].pid = TRUE, ![a].rt = "running"] /\ Goto(a, "working")
        BY <3>2 DEF Enrol
      <4>2. job'[a].rt = "running" /\ job'[a].pid /\ job'[a].runner = job[a].runner
        BY <4>1 DEF IInv, TypeOK, Job
      <4> QED BY <3>2, <4>1, <4>2, RunnerMoves, PcNames DEF IInv, TypeOK
    <3> QED BY <3>1, <3>2
  <2> QED BY <2>1, <2>2
<1>4. RunnerInv(a)'
  BY <1>1, <1>2, <1>3 DEF RunnerInv, Owned, Attached, DelegatePcs
<1>5. JobInv(a)'
  BY <1>1, <1>2, <1>3 DEF JobInv, RunnerInv, Owned, Attached, Closed, NoTree, HeldFor
<1>6. DebtInv(a)'
  BY <1>1, <1>2, <1>3, OwesKept DEF DebtInv, RunnerInv, Owned, Closed
<1>7. Kept(a)
  BY <1>1, <1>2, <1>3 DEF Kept, Waiting, RunnerInv, Owned, Closed
<1>8. \A b \in Attempts \ {a} : Same(b)
  BY <1>2, <1>3 DEF Same, HeldFor
<1>9. att'[a].parent = att[a].parent
  BY <1>2
<1>10. ASSUME ~Stalls, Beats(a) PROVE Beats(a)'
  <2>1. BeatInv(a)'
    BY <1>1, <1>2, <1>3, <1>10 DEF Beats, BeatInv, RunnerInv, Owned
  <2>2. Resumed(a)' <=> Resumed(a)
    BY <1>2 DEF Resumed
  <2>3. ParentInv(a)'
    BY <1>1, <1>2, <1>3, <1>9, <1>10, <2>2 DEF Beats, ParentInv
  <2> QED BY <2>1, <2>3 DEF Beats
<1> QED BY <1>4, <1>5, <1>6, <1>7, <1>8, <1>9, <1>10, OneMoves DEF Alone, KeepsBeats

LEMMA RunnerEventSafe ==
  ASSUME IInv, NEW a \in Attempts, RunnerEvent(a)
  PROVE  SafeInv' /\ KeepsBeats(a)
<1>1. RunnerInv(a) /\ JobInv(a) /\ DebtInv(a)
  BY DEF IInv, SafeInv
<1>2. /\ \A b \in Attempts \ {a} : att'[b] = att[b]
      /\ \A b \in Attempts \ {a} : run'[b] = run[b]
      /\ UNCHANGED <<job, tree, can, sub, disp, hold, early, torn, strays>>
  <2>1. \A b \in Attempts \ {a} : att'[b] = att[b]
    BY AppendMoves, StatusNames DEF RunnerEvent, IInv, TypeOK, Reasons
  <2>2. \A b \in Attempts \ {a} : run'[b] = run[b]
    BY RunnerMoves, PcNames DEF RunnerEvent, IInv, TypeOK
  <2>3. UNCHANGED <<job, tree, can, sub, disp, hold, early, torn, strays>>
    BY DEF RunnerEvent, history
  <2> QED BY <2>1, <2>2, <2>3
<1>3. /\ \/ /\ run[a].pc \in {"working", "verifying", "review", "done"}
            /\ run'[a].pc = "abort" /\ att'[a].st = att[a].st
         \/ run[a].pc = "working" /\ run'[a].pc = "watch" /\ att'[a].st = "working"
         \/ run[a].pc = "verifying" /\ run'[a].pc = "review" /\ att'[a].st = "verifying"
         \/ run[a].pc = "review" /\ run'[a].pc \in {"done", "none"} /\ att'[a].st = "review"
         \/ run[a].pc = "done" /\ run'[a].pc = "none" /\ att'[a].st = "done"
  <2>1. \/ /\ run[a].pc \in {"working", "verifying", "review", "done"}
           /\ run'[a].pc = "abort" /\ att'[a].st = att[a].st
        \/ run[a].pc = "working" /\ run'[a].pc = "watch" /\ att'[a].st = "working"
        \/ run[a].pc = "verifying" /\ run'[a].pc = "review" /\ att'[a].st = "verifying"
        \/ run[a].pc = "review" /\ run'[a].pc \in {"done", "none"} /\ att'[a].st = "review"
        \/ run[a].pc = "done" /\ run'[a].pc = "none" /\ att'[a].st = "done"
    <3> DEFINE to == run[a].pc
    <3>1. /\ run[a].pc \in {"working", "verifying", "review", "done"}
          /\ att' = Appended(a, to, "other")
          /\ ~Accepts(a, to, "other") => Goto(a, "abort")
          /\ Accepts(a, to, "other") =>
               /\ run[a].pc = "working" => Goto(a, "watch")
               /\ run[a].pc = "verifying" => Goto(a, "review")
               /\ run[a].pc = "review" => Goto(a, "done") \/ Gone(a)
               /\ run[a].pc = "done" => Gone(a)
      BY DEF RunnerEvent
    <3>2. to \in Statuses /\ "other" \in Reasons
      BY <3>1, StatusNames DEF Reasons
    <3>3. att'[a].st = IF Accepts(a, to, "other") THEN to ELSE att[a].st
      BY <3>1, <3>2, AppendMoves DEF IInv, TypeOK
    <3>4. /\ ~Accepts(a, to, "other") => run'[a].pc = "abort"
          /\ Accepts(a, to, "other") =>
               /\ run[a].pc = "working" => run'[a].pc = "watch"
               /\ run[a].pc = "verifying" => run'[a].pc = "review"
               /\ run[a].pc = "review" => run'[a].pc \in {"done", "none"}
               /\ run[a].pc = "done" => run'[a].pc = "none"
      BY <3>1, RunnerMoves, PcNames DEF IInv, TypeOK
    <3>5. CASE Accepts(a, to, "other")
      BY <3>1, <3>3, <3>4, <3>5
    <3>6. CASE ~Accepts(a, to, "other")
      BY <3>1, <3>3, <3>4, <3>6
    <3> QED BY <3>5, <3>6
  <2> QED BY <2>1
<1>4. RunnerInv(a)'
  BY <1>1, <1>2, <1>3 DEF RunnerInv, Owned, Attached, WorkerAlive, DelegatePcs, Stopped
<1>5. JobInv(a)'
  BY <1>1, <1>2, <1>3 DEF JobInv, HeldFor
<1>6. DebtInv(a)'
  BY <1>1, <1>2, <1>3, OwesKept DEF DebtInv, Settled, Terminal, JobInv, RunnerInv, Indebted
<1>7. Kept(a)
  BY <1>1, <1>2, <1>3 DEF Kept, Waiting
<1>8. \A b \in Attempts \ {a} : Same(b)
  BY <1>2, <1>3 DEF Same, HeldFor
<1>9. att'[a].parent = att[a].parent
  BY AppendMoves, StatusNames DEF RunnerEvent, IInv, TypeOK, Lifecycle, Reasons
<1>10. ASSUME ~Stalls, Beats(a) PROVE Beats(a)'
  <2>1. BeatInv(a)'
    BY <1>1, <1>2, <1>3, <1>10 DEF Beats, BeatInv, RunnerInv, Attached, Stopped
  <2>2. Resumed(a)' <=> Resumed(a)
    BY <1>2 DEF Resumed
  <2>3. ParentInv(a)'
    BY <1>1, <1>2, <1>3, <1>9, <1>10, <2>2 DEF Beats, ParentInv, RunnerInv
  <2> QED BY <2>1, <2>3 DEF Beats
<1> QED BY <1>4, <1>5, <1>6, <1>7, <1>8, <1>9, <1>10, OneMoves DEF Alone, KeepsBeats

LEMMA WatchSafe ==
  ASSUME IInv, NEW a \in Attempts, Watch(a)
  PROVE  SafeInv' /\ KeepsBeats(a)
<1>1. RunnerInv(a) /\ JobInv(a) /\ DebtInv(a)
  BY DEF IInv, SafeInv
<1>2. /\ \A b \in Attempts \ {a} : run'[b] = run[b]
      /\ UNCHANGED <<att, job, tree, can, sub, disp, hold, early, torn, strays>>
  <2>1. \A b \in Attempts \ {a} : run'[b] = run[b]
    BY RunnerMoves, PcNames DEF Watch, IInv, TypeOK
  <2>2. UNCHANGED <<att, job, tree, can, sub, disp, hold, early, torn, strays>>
    BY DEF Watch, stores, history
  <2> QED BY <2>1, <2>2
<1>3. /\ run[a].pc = "watch"
      /\ run'[a].pc = "stop"
  <2>1. run[a].pc = "watch"
    BY DEF Watch
  <2>2. run'[a].pc = "stop"
    <3>1. \/ run' = [run EXCEPT ![a].pc = "stop"]
          \/ \E cut \in Cuts : run' = [run EXCEPT ![a].pc = "stop", ![a].cut = cut]
      BY DEF Watch, Cuts
    <3> QED BY <3>1 DEF IInv, TypeOK, Runner
  <2> QED BY <2>1, <2>2
<1>4. RunnerInv(a)'
  BY <1>1, <1>2, <1>3 DEF RunnerInv, Owned, Attached, DelegatePcs
<1>5. JobInv(a)'
  BY <1>1, <1>2, <1>3 DEF JobInv, HeldFor
<1>6. DebtInv(a)'
  BY <1>1, <1>2, <1>3, OwesKept DEF DebtInv, Settled, HeldFor, Indebted
<1>7. Kept(a)
  BY <1>1, <1>2, <1>3 DEF Kept, Waiting
<1>8. \A b \in Attempts \ {a} : Same(b)
  BY <1>2, <1>3 DEF Same, HeldFor
<1>9. att'[a].parent = att[a].parent
  BY <1>2
<1>10. ASSUME ~Stalls, Beats(a) PROVE Beats(a)'
  <2>1. BeatInv(a)'
    BY <1>1, <1>2, <1>3, <1>10 DEF Beats, BeatInv
  <2>2. Resumed(a)' <=> Resumed(a)
    BY <1>2 DEF Resumed
  <2>3. ParentInv(a)'
    BY <1>1, <1>2, <1>3, <1>9, <1>10, <2>2 DEF Beats, ParentInv
  <2> QED BY <2>1, <2>3 DEF Beats
<1> QED BY <1>4, <1>5, <1>6, <1>7, <1>8, <1>9, <1>10, OneMoves DEF Alone, KeepsBeats

LEMMA StopTreeSafe ==
  ASSUME IInv, NEW a \in Attempts, StopTree(a)
  PROVE  SafeInv' /\ KeepsBeats(a)
<1>1. RunnerInv(a) /\ JobInv(a) /\ DebtInv(a)
  BY DEF IInv, SafeInv
<1>2. /\ \A b \in Attempts \ {a} : tree'[b] = tree[b]
      /\ \A b \in Attempts \ {a} : run'[b] = run[b]
      /\ UNCHANGED <<att, job, can, sub, disp, hold, early, torn, strays>>
  <2>1. \A b \in Attempts \ {a} : tree'[b] = tree[b]
    BY DEF StopTree, IInv, TypeOK, Reaped
  <2>2. \A b \in Attempts \ {a} : run'[b] = run[b]
    BY RunnerMoves, PcNames DEF StopTree, IInv, TypeOK
  <2>3. UNCHANGED <<att, job, can, sub, disp, hold, early, torn, strays>>
    BY DEF StopTree, stores, history
  <2> QED BY <2>1, <2>2, <2>3
<1>3. /\ run[a].pc = "stop"
      /\ run'[a].pc = "close"
      /\ tree'[a] = Stopped
  <2>1. run[a].pc = "stop"
    BY DEF StopTree
  <2>2. run'[a].pc = "close"
    BY RunnerMoves, PcNames DEF StopTree, IInv, TypeOK
  <2>3. tree'[a] = Stopped
    BY DEF StopTree, IInv, TypeOK, Reaped
  <2> QED BY <2>1, <2>2, <2>3
<1>4. RunnerInv(a)'
  BY <1>1, <1>2, <1>3 DEF RunnerInv, Owned, DelegatePcs
<1>5. JobInv(a)'
  BY <1>1, <1>2, <1>3 DEF JobInv, NoTree, Stopped, HeldFor
<1>6. DebtInv(a)'
  BY <1>1, <1>2, <1>3, OwesKept DEF DebtInv, Settled, HeldFor, Indebted
<1>7. Kept(a)
  BY <1>1, <1>2, <1>3 DEF Kept, Waiting
<1>8. \A b \in Attempts \ {a} : Same(b)
  BY <1>2, <1>3 DEF Same, HeldFor
<1>9. att'[a].parent = att[a].parent
  BY <1>2
<1>10. ASSUME ~Stalls, Beats(a) PROVE Beats(a)'
  <2>1. BeatInv(a)'
    BY <1>1, <1>2, <1>3, <1>10 DEF Beats, BeatInv
  <2>2. Resumed(a)' <=> Resumed(a)
    BY <1>2 DEF Resumed
  <2>3. ParentInv(a)'
    BY <1>1, <1>2, <1>3, <1>9, <1>10, <2>2 DEF Beats, ParentInv
  <2> QED BY <2>1, <2>3 DEF Beats
<1> QED BY <1>4, <1>5, <1>6, <1>7, <1>8, <1>9, <1>10, OneMoves DEF Alone, KeepsBeats

LEMMA CloseJobSafe ==
  ASSUME IInv, NEW a \in Attempts, CloseJob(a)
  PROVE  SafeInv' /\ KeepsBeats(a)
<1>1. RunnerInv(a) /\ JobInv(a) /\ DebtInv(a)
  BY DEF IInv, SafeInv
<1>2. /\ \A b \in Attempts \ {a} : job'[b] = job[b]
      /\ \A b \in Attempts \ {a} : run'[b] = run[b]
      /\ UNCHANGED <<att, tree, can, sub, disp, hold, early, torn, strays>>
  <2>1. \A b \in Attempts \ {a} : job'[b] = job[b]
    BY FinishMoves DEF CloseJob, IInv, TypeOK
  <2>2. \A b \in Attempts \ {a} : run'[b] = run[b]
    BY RunnerMoves, PcNames DEF CloseJob, IInv, TypeOK
  <2>3. UNCHANGED <<att, tree, can, sub, disp, hold, early, torn, strays>>
    BY DEF CloseJob, history
  <2> QED BY <2>1, <2>2, <2>3
<1>3. /\ run[a].pc = "close"
      /\ run'[a].pc = "settle"
      /\ job'[a].rt \in Closed /\ ~job'[a].pid
  <2>1. run[a].pc = "close"
    BY DEF CloseJob, Closed
  <2>2. run'[a].pc = "settle"
    BY RunnerMoves, PcNames DEF CloseJob, IInv, TypeOK
  <2>3. job'[a].rt \in Closed /\ ~job'[a].pid
    BY FinishMoves DEF CloseJob, IInv, TypeOK, Job, Closed
  <2> QED BY <2>1, <2>2, <2>3
<1>4. RunnerInv(a)'
  BY <1>1, <1>2, <1>3 DEF RunnerInv, DelegatePcs
<1>5. JobInv(a)'
  BY <1>1, <1>2, <1>3 DEF JobInv, Closed
<1>6. DebtInv(a)'
  BY <1>1, <1>2, <1>3, OwesKept DEF DebtInv, Indebted
<1>7. Kept(a)
  BY <1>1, <1>2, <1>3 DEF Kept, Waiting, Closed
<1>8. \A b \in Attempts \ {a} : Same(b)
  BY <1>2, <1>3 DEF Same, HeldFor
<1>9. att'[a].parent = att[a].parent
  BY <1>2
<1>10. ASSUME ~Stalls, Beats(a) PROVE Beats(a)'
  <2>1. BeatInv(a)'
    BY <1>1, <1>2, <1>3, <1>10 DEF BeatInv
  <2>2. Resumed(a)' <=> Resumed(a)
    BY <1>2 DEF Resumed
  <2>3. ParentInv(a)'
    BY <1>1, <1>2, <1>3, <1>9, <1>10, <2>2 DEF Beats, ParentInv, Closed
  <2> QED BY <2>1, <2>3 DEF Beats
<1> QED BY <1>4, <1>5, <1>6, <1>7, <1>8, <1>9, <1>10, OneMoves DEF Alone, KeepsBeats

LEMMA SettleSafe ==
  ASSUME IInv, NEW a \in Attempts, Settle(a)
  PROVE  SafeInv' /\ KeepsBeats(a)
<1>1. RunnerInv(a) /\ JobInv(a) /\ DebtInv(a)
  BY DEF IInv, SafeInv
<1>2. /\ \A b \in Attempts \ {a} : att'[b] = att[b]
      /\ \A b \in Attempts \ {a} : run'[b] = run[b]
      /\ UNCHANGED <<job, tree, can, sub, disp, hold, early, torn, strays>>
  <2>1. \A b \in Attempts \ {a} : att'[b] = att[b]
    <3> DEFINE to == IF run[a].cut \in {"none", "mismatch"} THEN "failed" ELSE run[a].cut
               why == IF run[a].cut = "mismatch" THEN "mismatch" ELSE "other"
    <3>1. to \in {"failed", "timed_out", "cancelled"} /\ why \in Reasons /\ to \in Statuses
      BY StatusNames DEF IInv, TypeOK, Runner, Cuts, Reasons
    <3>2. \/ att' = att /\ Goto(a, "verifying")
          \/ /\ att' = Appended(a, to, why)
             /\ \/ Gone(a) /\ (Accepts(a, to, why) \/ att[a].st \notin Live)
                \/ Goto(a, "abort") /\ ~Accepts(a, to, why)
      BY DEF Settle
    <3> HIDE DEF to, why
    <3> QED BY <3>1, <3>2, AppendMoves DEF IInv, TypeOK
  <2>2. \A b \in Attempts \ {a} : run'[b] = run[b]
    BY RunnerMoves, PcNames DEF Settle, IInv, TypeOK
  <2>3. UNCHANGED <<job, tree, can, sub, disp, hold, early, torn, strays>>
    BY DEF Settle, history
  <2> QED BY <2>1, <2>2, <2>3
<1>3. /\ run[a].pc = "settle"
      /\ \/ run'[a].pc \in {"verifying", "abort"} /\ att'[a].st = att[a].st
         \/ run'[a].pc = "none" /\ (att'[a].st \in Terminal \/ (Settled(a) /\ att'[a].st = att[a].st))
  <2>1. run[a].pc = "settle"
    BY DEF Settle
  <2>2. \/ run'[a].pc \in {"verifying", "abort"} /\ att'[a].st = att[a].st
        \/ run'[a].pc = "none" /\ (att'[a].st \in Terminal \/ (Settled(a) /\ att'[a].st = att[a].st))
    <3> DEFINE to == IF run[a].cut \in {"none", "mismatch"} THEN "failed" ELSE run[a].cut
               why == IF run[a].cut = "mismatch" THEN "mismatch" ELSE "other"
    <3>1. to \in {"failed", "timed_out", "cancelled"} /\ why \in Reasons /\ to \in Statuses
      BY StatusNames DEF IInv, TypeOK, Runner, Cuts, Reasons
    <3>2. \/ att' = att /\ Goto(a, "verifying")
          \/ /\ att' = Appended(a, to, why)
             /\ \/ Gone(a) /\ (Accepts(a, to, why) \/ att[a].st \notin Live)
                \/ Goto(a, "abort") /\ ~Accepts(a, to, why)
      BY DEF Settle
    <3> HIDE DEF to, why
    <3>3. /\ Goto(a, "verifying") => run'[a].pc = "verifying"
          /\ Goto(a, "abort") => run'[a].pc = "abort"
          /\ Gone(a) => run'[a].pc = "none"
      BY RunnerMoves, PcNames DEF IInv, TypeOK
    <3>4. att' = Appended(a, to, why) =>
            att'[a].st = IF Accepts(a, to, why) THEN to ELSE att[a].st
      BY <3>1, AppendMoves DEF IInv, TypeOK
    <3>5. att[a].st # "none" /\ att[a].st \in Statuses
      BY <1>1, <2>1 DEF JobInv, IInv, TypeOK, Lifecycle
    <3>6. att[a].st \notin Live => Settled(a)
      BY <3>5 DEF Settled, Statuses
    <3>7. to \in Terminal
      BY <3>1 DEF Terminal
    <3>8. CASE att' = att /\ Goto(a, "verifying")
      BY <3>3, <3>8
    <3>9. CASE /\ att' = Appended(a, to, why) /\ Gone(a)
               /\ Accepts(a, to, why) \/ att[a].st \notin Live
      <4>1. att'[a].st \in Terminal \/ (Settled(a) /\ att'[a].st = att[a].st)
        BY <3>4, <3>6, <3>7, <3>9
      <4> QED BY <3>3, <3>9, <4>1
    <3>10. CASE att' = Appended(a, to, why) /\ Goto(a, "abort") /\ ~Accepts(a, to, why)
      BY <3>3, <3>4, <3>10
    <3> QED BY <3>2, <3>8, <3>9, <3>10
  <2> QED BY <2>1, <2>2
<1>4. RunnerInv(a)'
  BY <1>1, <1>2, <1>3 DEF RunnerInv, WorkerAlive, DelegatePcs, Stopped
<1>5. JobInv(a)'
  BY <1>1, <1>2, <1>3 DEF JobInv, Terminal, HeldFor
<1>6. DebtInv(a)'
  BY <1>1, <1>2, <1>3, OwesKept DEF DebtInv, Settled, Indebted
<1>7. Kept(a)
  BY <1>1, <1>2, <1>3 DEF Kept, Waiting
<1>8. \A b \in Attempts \ {a} : Same(b)
  BY <1>2, <1>3 DEF Same, HeldFor
<1>9. att'[a].parent = att[a].parent
  <2> DEFINE to == IF run[a].cut \in {"none", "mismatch"} THEN "failed" ELSE run[a].cut
             why == IF run[a].cut = "mismatch" THEN "mismatch" ELSE "other"
  <2>1. to \in {"failed", "timed_out", "cancelled"} /\ why \in Reasons /\ to \in Statuses
    BY StatusNames DEF IInv, TypeOK, Runner, Cuts, Reasons
  <2>2. \/ att' = att /\ Goto(a, "verifying")
        \/ /\ att' = Appended(a, to, why)
           /\ \/ Gone(a) /\ (Accepts(a, to, why) \/ att[a].st \notin Live)
              \/ Goto(a, "abort") /\ ~Accepts(a, to, why)
    BY DEF Settle
  <2> HIDE DEF to, why
  <2> QED BY <2>1, <2>2, AppendMoves DEF IInv, TypeOK
<1>10. ASSUME ~Stalls, Beats(a) PROVE Beats(a)'
  <2>1. BeatInv(a)'
    BY <1>1, <1>2, <1>3, <1>10 DEF BeatInv, RunnerInv, Attached, Stopped
  <2>2. Resumed(a)' <=> Resumed(a)
    BY <1>2 DEF Resumed
  <2>3. ParentInv(a)'
    BY <1>1, <1>2, <1>3, <1>9, <1>10, <2>2 DEF Beats, ParentInv, RunnerInv, Terminal
  <2> QED BY <2>1, <2>3 DEF Beats
<1> QED BY <1>4, <1>5, <1>6, <1>7, <1>8, <1>9, <1>10, OneMoves DEF Alone, KeepsBeats

LEMMA RunnerErrorSafe ==
  ASSUME IInv, NEW a \in Attempts, RunnerError(a)
  PROVE  SafeInv' /\ KeepsBeats(a)
<1>1. RunnerInv(a) /\ JobInv(a) /\ DebtInv(a)
  BY DEF IInv, SafeInv
<1>2. /\ \A b \in Attempts \ {a} : run'[b] = run[b]
      /\ UNCHANGED <<att, job, tree, can, sub, disp, hold, early, torn, strays>>
  <2>1. \A b \in Attempts \ {a} : run'[b] = run[b]
    BY RunnerMoves, PcNames DEF RunnerError, IInv, TypeOK
  <2>2. UNCHANGED <<att, job, tree, can, sub, disp, hold, early, torn, strays>>
    BY DEF RunnerError, Fault, stores, history
  <2> QED BY <2>1, <2>2
<1>3. /\ run[a].pc \in {"enrol", "working", "watch", "stop", "close", "settle",
                      "verifying", "review", "done"}
      /\ run'[a].pc = "abort"
  <2>1. run[a].pc \in {"enrol", "working", "watch", "stop", "close", "settle",
                     "verifying", "review", "done"}
    BY DEF RunnerError
  <2>2. run'[a].pc = "abort"
    BY RunnerMoves, PcNames DEF RunnerError, IInv, TypeOK
  <2> QED BY <2>1, <2>2
<1>4. RunnerInv(a)'
  BY <1>1, <1>2, <1>3 DEF RunnerInv, Owned, Attached, DelegatePcs
<1>5. JobInv(a)'
  BY <1>1, <1>2, <1>3 DEF JobInv, HeldFor
<1>6. DebtInv(a)'
  BY <1>1, <1>2, <1>3, OwesKept DEF DebtInv, Indebted
<1>7. Kept(a)
  BY <1>1, <1>2, <1>3 DEF Kept, Waiting
<1>8. \A b \in Attempts \ {a} : Same(b)
  BY <1>2, <1>3 DEF Same, HeldFor
<1>9. att'[a].parent = att[a].parent
  BY <1>2
<1>10. ASSUME ~Stalls, Beats(a) PROVE Beats(a)'
  <2>1. BeatInv(a)'
    BY <1>1, <1>2, <1>3, <1>10 DEF Beats, BeatInv, RunnerInv, Attached, Stopped
  <2>2. Resumed(a)' <=> Resumed(a)
    BY <1>2 DEF Resumed
  <2>3. ParentInv(a)'
    BY <1>1, <1>2, <1>3, <1>9, <1>10, <2>2 DEF Beats, ParentInv, RunnerInv
  <2> QED BY <2>1, <2>3 DEF Beats
<1> QED BY <1>4, <1>5, <1>6, <1>7, <1>8, <1>9, <1>10, OneMoves DEF Alone, KeepsBeats

LEMMA AbortSafe ==
  ASSUME IInv, NEW a \in Attempts, Abort(a)
  PROVE  SafeInv' /\ KeepsBeats(a)
<1>1. RunnerInv(a) /\ JobInv(a) /\ DebtInv(a)
  BY DEF IInv, SafeInv
<1>2. /\ \A b \in Attempts \ {a} : tree'[b] = tree[b]
      /\ \A b \in Attempts \ {a} : run'[b] = run[b]
      /\ UNCHANGED <<att, job, can, sub, disp, hold, early, torn, strays>>
  <2>1. \A b \in Attempts \ {a} : tree'[b] = tree[b]
    BY DEF Abort, IInv, TypeOK, Reaped
  <2>2. \A b \in Attempts \ {a} : run'[b] = run[b]
    BY RunnerMoves, PcNames DEF Abort, IInv, TypeOK
  <2>3. UNCHANGED <<att, job, can, sub, disp, hold, early, torn, strays>>
    BY DEF Abort, Fault, stores, history
  <2> QED BY <2>1, <2>2, <2>3
<1>3. /\ run[a].pc = "abort"
      /\ run'[a].pc = "abortJob"
      /\ \/ ~run'[a].bad /\ tree'[a] = Stopped
         \/ run'[a].bad /\ tree[a] # Stopped /\ tree' = tree
  <2>1. run[a].pc = "abort"
    BY DEF Abort
  <2>2. run'[a].pc = "abortJob"
    <3>1. CASE /\ tree' = [tree EXCEPT ![a] = Stopped]
               /\ run' = [run EXCEPT ![a].pc = "abortJob", ![a].bad = FALSE]
      <4>1. tree'[a] = Stopped
        BY <3>1 DEF IInv, TypeOK
      <4>2. run'[a].pc = "abortJob" /\ run'[a].bad = FALSE
        BY <3>1 DEF IInv, TypeOK, Runner
      <4> QED BY <4>1, <4>2
    <3>2. CASE /\ tree[a] # Stopped /\ tree' = tree
               /\ run' = [run EXCEPT ![a].pc = "abortJob", ![a].bad = TRUE]
      <4>1. run'[a].pc = "abortJob" /\ run'[a].bad = TRUE
        BY <3>2 DEF IInv, TypeOK, Runner
      <4> QED BY <3>2, <4>1
    <3> QED BY <3>1, <3>2 DEF Abort
  <2>3. \/ ~run'[a].bad /\ tree'[a] = Stopped
        \/ run'[a].bad /\ tree[a] # Stopped /\ tree' = tree
    <3>1. CASE /\ tree' = [tree EXCEPT ![a] = Stopped]
               /\ run' = [run EXCEPT ![a].pc = "abortJob", ![a].bad = FALSE]
      <4>1. tree'[a] = Stopped
        BY <3>1 DEF IInv, TypeOK
      <4>2. run'[a].pc = "abortJob" /\ run'[a].bad = FALSE
        BY <3>1 DEF IInv, TypeOK, Runner
      <4> QED BY <4>1, <4>2
    <3>2. CASE /\ tree[a] # Stopped /\ tree' = tree
               /\ run' = [run EXCEPT ![a].pc = "abortJob", ![a].bad = TRUE]
      <4>1. run'[a].pc = "abortJob" /\ run'[a].bad = TRUE
        BY <3>2 DEF IInv, TypeOK, Runner
      <4> QED BY <3>2, <4>1
    <3> QED BY <3>1, <3>2 DEF Abort
  <2> QED BY <2>1, <2>2, <2>3
<1>4. RunnerInv(a)'
  BY <1>1, <1>2, <1>3 DEF RunnerInv, Owned, Attached, DelegatePcs
<1>5. JobInv(a)'
  BY <1>1, <1>2, <1>3 DEF JobInv, NoTree, Stopped, HeldFor
<1>6. DebtInv(a)'
  BY <1>1, <1>2, <1>3, OwesKept DEF DebtInv, Indebted
<1>7. Kept(a)
  BY <1>1, <1>2, <1>3 DEF Kept, Waiting
<1>8. \A b \in Attempts \ {a} : Same(b)
  BY <1>2, <1>3 DEF Same, HeldFor
<1>9. att'[a].parent = att[a].parent
  BY <1>2
<1>10. ASSUME ~Stalls, Beats(a) PROVE Beats(a)'
  <2>1. BeatInv(a)'
    BY <1>1, <1>2, <1>3, <1>10 DEF Beats, BeatInv, Attached, Stopped
  <2>2. Resumed(a)' <=> Resumed(a)
    BY <1>2 DEF Resumed
  <2>3. ParentInv(a)'
    BY <1>1, <1>2, <1>3, <1>9, <1>10, <2>2 DEF Beats, ParentInv
  <2> QED BY <2>1, <2>3 DEF Beats
<1> QED BY <1>4, <1>5, <1>6, <1>7, <1>8, <1>9, <1>10, OneMoves DEF Alone, KeepsBeats

LEMMA AbortJobSafe ==
  ASSUME IInv, NEW a \in Attempts, AbortJob(a)
  PROVE  SafeInv' /\ KeepsBeats(a)
<1>1. RunnerInv(a) /\ JobInv(a) /\ DebtInv(a)
  BY DEF IInv, SafeInv
<1>2. /\ \A b \in Attempts \ {a} : job'[b] = job[b]
      /\ \A b \in Attempts \ {a} : run'[b] = run[b]
      /\ UNCHANGED <<att, tree, can, sub, disp, hold, early, torn, strays>>
  <2>1. \A b \in Attempts \ {a} : job'[b] = job[b]
    BY DEF AbortJob, IInv, TypeOK
  <2>2. \A b \in Attempts \ {a} : run'[b] = run[b]
    BY RunnerMoves, PcNames DEF AbortJob, IInv, TypeOK
  <2>3. UNCHANGED <<att, tree, can, sub, disp, hold, early, torn, strays>>
    BY DEF AbortJob, history
  <2> QED BY <2>1, <2>2, <2>3
<1>3. /\ run[a].pc = "abortJob"
      /\ run'[a].pc = "abortEvent"
      /\ \/ job[a].rt = "none" /\ job' = job
         \/ run[a].bad /\ job'[a].rt = "cleanup_failed" /\ job'[a].pid
         \/ ~run[a].bad /\ job'[a].rt = "interrupted" /\ ~job'[a].pid
  <2>1. run[a].pc = "abortJob"
    BY DEF AbortJob
  <2>2. run'[a].pc = "abortEvent"
    BY RunnerMoves, PcNames DEF AbortJob, IInv, TypeOK
  <2>3. \/ job[a].rt = "none" /\ job' = job
        \/ run[a].bad /\ job'[a].rt = "cleanup_failed" /\ job'[a].pid
        \/ ~run[a].bad /\ job'[a].rt = "interrupted" /\ ~job'[a].pid
    <3> DEFINE rt == IF run[a].bad THEN "cleanup_failed" ELSE "interrupted"
               pid == run[a].bad
               f == [job EXCEPT ![a].rt = rt, ![a].pid = pid]
    <3>1. CASE job[a].rt = "none"
      BY <3>1 DEF AbortJob
    <3>2. CASE job[a].rt # "none"
      <4>1. job' = [f EXCEPT ![a].runner = FALSE]
        BY <3>2 DEF AbortJob
      <4>2. f \in [Attempts -> Job] /\ f[a].rt = rt /\ f[a].pid = pid
        <5>1. rt \in JobStates /\ pid \in BOOLEAN
          BY JobStateNames DEF IInv, TypeOK, Runner
        <5> HIDE DEF rt, pid
        <5> QED BY <5>1, ZenonT(60) DEF IInv, TypeOK, Job
      <4>3. job'[a].rt = rt /\ job'[a].pid = pid
        <5> HIDE DEF f, rt, pid
        <5> QED BY <4>1, <4>2 DEF Job
      <4>4. CASE run[a].bad = TRUE
        BY <4>3, <4>4
      <4>5. CASE run[a].bad = FALSE
        BY <4>3, <4>5
      <4> QED BY <4>4, <4>5 DEF IInv, TypeOK, Runner
    <3> QED BY <3>1, <3>2
  <2> QED BY <2>1, <2>2, <2>3
<1>4. RunnerInv(a)'
  BY <1>1, <1>2, <1>3 DEF RunnerInv, Owned, Attached, WorkerAlive, Closed, DelegatePcs, Stopped
<1>5. JobInv(a)'
  BY <1>1, <1>2, <1>3 DEF JobInv, RunnerInv, Owned, Attached, Closed, NoTree, Stopped, HeldFor
<1>6. DebtInv(a)'
  BY <1>1, <1>2, <1>3, OwesKept DEF DebtInv, Indebted
<1>7. Kept(a)
  BY <1>1, <1>2, <1>3 DEF Kept, Waiting, RunnerInv, Owned, Attached, Closed, Stopped
<1>8. \A b \in Attempts \ {a} : Same(b)
  BY <1>2, <1>3 DEF Same, HeldFor
<1>9. att'[a].parent = att[a].parent
  BY <1>2
<1>10. ASSUME ~Stalls, Beats(a) PROVE Beats(a)'
  <2>1. BeatInv(a)'
    BY <1>1, <1>2, <1>3, <1>10 DEF Beats, BeatInv, RunnerInv, Reserved
  <2>2. Resumed(a)' <=> Resumed(a)
    BY <1>2 DEF Resumed
  <2>3. ParentInv(a)'
    BY <1>1, <1>2, <1>3, <1>9, <1>10, <2>2 DEF Beats, ParentInv, WorkerAlive, Stopped
  <2> QED BY <2>1, <2>3 DEF Beats
<1> QED BY <1>4, <1>5, <1>6, <1>7, <1>8, <1>9, <1>10, OneMoves DEF Alone, KeepsBeats

LEMMA AbortEventSafe ==
  ASSUME IInv, NEW a \in Attempts, AbortEvent(a)
  PROVE  SafeInv' /\ KeepsBeats(a)
<1>1. RunnerInv(a) /\ JobInv(a) /\ DebtInv(a)
  BY DEF IInv, SafeInv
<1>2. /\ \A b \in Attempts \ {a} : att'[b] = att[b]
      /\ \A b \in Attempts \ {a} : run'[b] = run[b]
      /\ \A b \in Attempts \ {a} : tree'[b] = tree[b]
      /\ UNCHANGED <<job, can, sub, disp, hold, early, torn, strays>>
  <2>1. \A b \in Attempts \ {a} : att'[b] = att[b]
    BY AppendMoves, StatusNames DEF AbortEvent, IInv, TypeOK, Reasons
  <2>2. \A b \in Attempts \ {a} : run'[b] = run[b]
    BY RunnerMoves, PcNames DEF AbortEvent, IInv, TypeOK
  <2>3. \A b \in Attempts \ {a} : tree'[b] = tree[b]
    BY DEF AbortEvent, IInv, TypeOK, Reaped
  <2>4. UNCHANGED <<job, can, sub, disp, hold, early, torn, strays>>
    BY DEF AbortEvent, history
  <2> QED BY <2>1, <2>2, <2>3, <2>4
<1>3. /\ run[a].pc = "abortEvent"
      /\ run'[a].pc = "none"
      /\ tree'[a].kids = tree[a].kids
      /\ tree'[a].leader = IF tree[a].leader = "zombie" THEN "gone" ELSE tree[a].leader
      /\ tree'[a] \in Tree /\ tree[a] \in Tree
      /\ att'[a].st = "blocked" \/ (Settled(a) /\ att'[a].st = att[a].st)
  <2>1. run[a].pc = "abortEvent"
    BY <1>1, EndSettles DEF AbortEvent, JobInv, RunnerInv, Closed, Terminal
  <2>2. run'[a].pc = "none"
    BY RunnerMoves, PcNames, <1>1, EndSettles DEF AbortEvent, IInv, TypeOK
  <2>3. tree'[a].kids = tree[a].kids
    BY <1>1, EndSettles DEF AbortEvent, Reaped
  <2>4. tree'[a].leader = IF tree[a].leader = "zombie" THEN "gone" ELSE tree[a].leader
    BY <1>1, EndSettles DEF AbortEvent, IInv, TypeOK, Reaped
  <2>5. tree'[a] \in Tree /\ tree[a] \in Tree
    BY <1>1, EndSettles DEF AbortEvent, IInv, TypeOK, Tree, Reaped
  <2>6. att'[a].st = "blocked" \/ (Settled(a) /\ att'[a].st = att[a].st)
    <3>1. att' = Appended(a, "blocked", "other") /\ "blocked" \in Statuses /\ "other" \in Reasons
      BY StatusNames DEF AbortEvent, Reasons
    <3>2. att'[a].st = IF Accepts(a, "blocked", "other") THEN "blocked" ELSE att[a].st
      BY <3>1, AppendMoves DEF IInv, TypeOK
    <3>3. att[a].st # "none" /\ att \in [Attempts -> Lifecycle]
      BY <1>1, <2>1 DEF JobInv, IInv, TypeOK
    <3>4. ~Accepts(a, "blocked", "other") => Settled(a)
      BY <3>3, EndSettles
    <3> QED BY <3>2, <3>4
  <2> QED BY <2>1, <2>2, <2>3, <2>4, <2>5, <2>6
<1>4. RunnerInv(a)'
  BY <1>1, <1>2, <1>3 DEF RunnerInv, WorkerAlive, Reserved, DelegatePcs
<1>5. JobInv(a)'
  BY <1>1, <1>2, <1>3 DEF JobInv, NoTree, Tree, HeldFor
<1>6. DebtInv(a)'
  BY <1>1, <1>2, <1>3, OwesKept DEF DebtInv, Settled
<1>7. Kept(a)
  BY <1>1, <1>2, <1>3 DEF Kept, Waiting
<1>8. \A b \in Attempts \ {a} : Same(b)
  BY <1>2, <1>3 DEF Same, HeldFor
<1>9. att'[a].parent = att[a].parent
  BY AppendMoves, StatusNames DEF AbortEvent, IInv, TypeOK, Lifecycle, Reasons
<1>10. ASSUME ~Stalls, Beats(a) PROVE Beats(a)'
  <2>1. BeatInv(a)'
    BY <1>1, <1>2, <1>3, <1>10 DEF BeatInv
  <2>2. Resumed(a)' <=> Resumed(a)
    BY <1>2 DEF Resumed
  <2>3. ParentInv(a)'
    BY <1>1, <1>2, <1>3, <1>9, <1>10, <2>2 DEF Beats, ParentInv
  <2> QED BY <2>1, <2>3 DEF Beats
<1> QED BY <1>4, <1>5, <1>6, <1>7, <1>8, <1>9, <1>10, OneMoves DEF Alone, KeepsBeats

LEMMA CancelQueuedSafe ==
  ASSUME IInv, NEW a \in Attempts, CancelQueued(a)
  PROVE  SafeInv' /\ KeepsBeats(a)
<1>1. RunnerInv(a) /\ JobInv(a) /\ DebtInv(a)
  BY DEF IInv, SafeInv
<1>2. /\ \A b \in Attempts \ {a} : job'[b] = job[b]
      /\ UNCHANGED <<att, tree, run, can, sub, disp, torn, strays>>
  <2>1. \A b \in Attempts \ {a} : job'[b] = job[b]
    BY FinishMoves DEF CancelQueued, IInv, TypeOK
  <2>2. UNCHANGED <<att, tree, run, can, sub, disp, torn, strays>>
    BY DEF CancelQueued
  <2> QED BY <2>1, <2>2
<1>3. /\ job[a].rt = "queued"
      /\ job'[a].rt = "cancelled" /\ ~job'[a].pid
      /\ HeldFor(a)'
      /\ early' = early \cup {a}
  <2>1. job[a].rt = "queued"
    BY DEF CancelQueued, HeldFor, Free
  <2>2. job'[a].rt = "cancelled" /\ ~job'[a].pid
    BY FinishMoves DEF CancelQueued, IInv, TypeOK, Job, Free
  <2>3. HeldFor(a)'
    BY DEF CancelQueued, HeldFor, Free
  <2>4. early' = early \cup {a}
    BY DEF CancelQueued, Free
  <2> QED BY <2>1, <2>2, <2>3, <2>4
<1>4. RunnerInv(a)'
  BY <1>1, <1>2, <1>3 DEF RunnerInv, Owned, WorkerAlive, Reserved, Closed
<1>5. JobInv(a)'
  BY <1>1, <1>2, <1>3 DEF JobInv, Unlaunched, Closed
<1>6. DebtInv(a)'
  BY <1>1, <1>2, <1>3, OwesKept DEF DebtInv, Indebted
<1>7. Kept(a)
  BY <1>1, <1>2, <1>3 DEF Kept, Waiting, Closed
<1>8. \A b \in Attempts \ {a} : Same(b)
  BY <1>2, <1>3 DEF Same, HeldFor, Holds, Free, QueueFree, CancelQueued
<1>9. att'[a].parent = att[a].parent
  BY <1>2
<1>10. ASSUME ~Stalls, Beats(a) PROVE Beats(a)'
  <2>1. BeatInv(a)'
    BY <1>1, <1>2, <1>3, <1>10 DEF BeatInv, JobInv
  <2>2. Resumed(a)' <=> Resumed(a)
    BY <1>2 DEF Resumed
  <2>3. ParentInv(a)'
    BY <1>1, <1>2, <1>3, <1>9, <1>10, <2>2 DEF Beats, ParentInv
  <2> QED BY <2>1, <2>3 DEF Beats
<1> QED BY <1>4, <1>5, <1>6, <1>7, <1>8, <1>9, <1>10, OneMoves DEF Alone, KeepsBeats

LEMMA CancelReservedSafe ==
  ASSUME IInv, NEW a \in Attempts, CancelReserved(a)
  PROVE  SafeInv' /\ KeepsBeats(a)
<1>1. RunnerInv(a) /\ JobInv(a) /\ DebtInv(a)
  BY DEF IInv, SafeInv
<1>2. /\ \A b \in Attempts \ {a} : job'[b] = job[b]
      /\ \A b \in Attempts \ {a} : can'[b] = can[b]
      /\ UNCHANGED <<att, tree, run, sub, disp, hold, torn, strays>>
  <2>1. \A b \in Attempts \ {a} : job'[b] = job[b]
    BY DEF CancelReserved, IInv, TypeOK
  <2>2. \A b \in Attempts \ {a} : can'[b] = can[b]
    BY DEF CancelReserved, IInv, TypeOK
  <2>3. UNCHANGED <<att, tree, run, sub, disp, hold, torn, strays>>
    BY DEF CancelReserved
  <2> QED BY <2>1, <2>2, <2>3
<1>3. /\ job[a].rt \in Reserved
      /\ job'[a].runner = job[a].runner
      /\ \/ /\ Mismatch(a) /\ job'[a].rt = "interrupted" /\ ~job'[a].pid
            /\ can'[a] = "event" /\ early' = early
         \/ /\ job'[a].rt = "cancel_requested" /\ job'[a].pid = job[a].pid /\ can'[a] # "event"
            /\ early' = IF Begun(a) THEN early ELSE early \cup {a}
  <2>1. job[a].rt \in Reserved
    BY DEF CancelReserved
  <2>2. job'[a].runner = job[a].runner
    BY DEF CancelReserved, IInv, TypeOK, Job
  <2>3. \/ /\ Mismatch(a) /\ job'[a].rt = "interrupted" /\ ~job'[a].pid
           /\ can'[a] = "event" /\ early' = early
        \/ /\ job'[a].rt = "cancel_requested" /\ job'[a].pid = job[a].pid /\ can'[a] # "event"
           /\ early' = IF Begun(a) THEN early ELSE early \cup {a}
    BY DEF CancelReserved, IInv, TypeOK, Job
  <2> QED BY <2>1, <2>2, <2>3
<1>4. RunnerInv(a)'
  BY <1>1, <1>2, <1>3 DEF RunnerInv, Owned, Attached, Unlaunched, WorkerAlive, Reserved,
     Closed, Stopped, Mismatch, TreeMatches, PidAlive, GroupAlive, Begun
<1>5. JobInv(a)'
  BY <1>1, <1>2, <1>3 DEF JobInv, Reserved, Closed, Mismatch, TreeMatches, PidAlive,
     GroupAlive, Begun, HeldFor
<1>6. DebtInv(a)'
  BY <1>1, <1>2, <1>3, OwesKept DEF DebtInv, Closed, Mismatch, TreeMatches, PidAlive,
     GroupAlive, Begun, Indebted
<1>7. Kept(a)
  BY <1>1, <1>2, <1>3 DEF Kept, Waiting, Unlaunched, Reserved, Closed, Mismatch, TreeMatches,
     PidAlive, GroupAlive, Begun
<1>8. \A b \in Attempts \ {a} : Same(b)
  BY <1>2, <1>3 DEF Same, HeldFor
<1>9. att'[a].parent = att[a].parent
  BY <1>2
<1>10. ASSUME ~Stalls, Beats(a) PROVE Beats(a)'
  <2>1. BeatInv(a)'
    BY <1>1, <1>2, <1>3, <1>10 DEF Beats, BeatInv, Attached, Mismatch, TreeMatches, PidAlive,
       GroupAlive, Begun
  <2>2. Resumed(a)' <=> Resumed(a)
    BY <1>2 DEF Resumed
  <2>3. ParentInv(a)'
    BY <1>1, <1>2, <1>3, <1>9, <1>10, <2>2 DEF Beats, ParentInv, WorkerAlive, Mismatch,
       TreeMatches, PidAlive, GroupAlive, Begun
  <2> QED BY <2>1, <2>3 DEF Beats
<1> QED BY <1>4, <1>5, <1>6, <1>7, <1>8, <1>9, <1>10, OneMoves DEF Alone, KeepsBeats

LEMMA CancelSignalSafe ==
  ASSUME IInv, NEW a \in Attempts, CancelSignal(a)
  PROVE  SafeInv' /\ KeepsBeats(a)
<1>1. RunnerInv(a) /\ JobInv(a) /\ DebtInv(a)
  BY DEF IInv, SafeInv
<1>2. /\ \A b \in Attempts \ {a} : job'[b] = job[b]
      /\ \A b \in Attempts \ {a} : can'[b] = can[b]
      /\ UNCHANGED <<att, tree, run, sub, disp, hold, early, torn, strays>>
  <2>1. \A b \in Attempts \ {a} : job'[b] = job[b]
    BY DEF CancelSignal, IInv, TypeOK
  <2>2. \A b \in Attempts \ {a} : can'[b] = can[b]
    BY DEF CancelSignal, IInv, TypeOK
  <2>3. UNCHANGED <<att, tree, run, sub, disp, hold, early, torn, strays>>
    BY DEF CancelSignal, history
  <2> QED BY <2>1, <2>2, <2>3
<1>3. /\ can[a] = "signal"
      /\ job'[a].runner = job[a].runner
      /\ \/ can'[a] = "none" /\ job' = job
         \/ /\ ~TreeMatches(a) /\ (PidAlive(a) \/ GroupAlive(a))
            /\ job[a].rt = "cancel_requested" /\ job[a].pid
            /\ job'[a].rt = "interrupted" /\ ~job'[a].pid /\ can'[a] = "event"
            /\ run[a].pc = "none"
  <2>1. can[a] = "signal"
    BY MismatchMeansDead DEF CancelSignal, Reserved, Job
  <2>2. job'[a].runner = job[a].runner
    BY MismatchMeansDead DEF CancelSignal, IInv, TypeOK, Job
  <2>3. \/ can'[a] = "none" /\ job' = job
        \/ /\ ~TreeMatches(a) /\ (PidAlive(a) \/ GroupAlive(a))
           /\ job[a].rt = "cancel_requested" /\ job[a].pid
           /\ job'[a].rt = "interrupted" /\ ~job'[a].pid /\ can'[a] = "event"
           /\ run[a].pc = "none"
    BY MismatchMeansDead DEF CancelSignal, IInv, TypeOK, Job
  <2> QED BY <2>1, <2>2, <2>3
<1>4. RunnerInv(a)'
  BY <1>1, <1>2, <1>3 DEF RunnerInv, Owned, Attached, Unlaunched, WorkerAlive, TreeMatches,
     PidAlive, GroupAlive
<1>5. JobInv(a)'
  BY <1>1, <1>2, <1>3 DEF JobInv, Unlaunched, Closed, TreeMatches, PidAlive, GroupAlive,
     HeldFor
<1>6. DebtInv(a)'
  BY <1>1, <1>2, <1>3, OwesKept DEF DebtInv, Settled, HeldFor, TreeMatches, PidAlive,
     GroupAlive, Indebted
<1>7. Kept(a)
  BY <1>1, <1>2, <1>3 DEF Kept, Waiting, JobInv, Unlaunched, TreeMatches, PidAlive, GroupAlive
<1>8. \A b \in Attempts \ {a} : Same(b)
  BY <1>2, <1>3 DEF Same, HeldFor
<1>9. att'[a].parent = att[a].parent
  BY <1>2
<1>10. ASSUME ~Stalls, Beats(a) PROVE Beats(a)'
  <2>1. BeatInv(a)'
    BY <1>1, <1>2, <1>3, <1>10 DEF Beats, BeatInv, Attached, TreeMatches, PidAlive, GroupAlive
  <2>2. Resumed(a)' <=> Resumed(a)
    BY <1>2 DEF Resumed
  <2>3. ParentInv(a)'
    BY <1>1, <1>2, <1>3, <1>9, <1>10, <2>2 DEF Beats, ParentInv, WorkerAlive, TreeMatches,
       PidAlive, GroupAlive
  <2> QED BY <2>1, <2>3 DEF Beats
<1> QED BY <1>4, <1>5, <1>6, <1>7, <1>8, <1>9, <1>10, OneMoves DEF Alone, KeepsBeats

LEMMA CancelEventSafe ==
  ASSUME IInv, NEW a \in Attempts, CancelEvent(a)
  PROVE  SafeInv' /\ KeepsBeats(a)
<1>1. RunnerInv(a) /\ JobInv(a) /\ DebtInv(a)
  BY DEF IInv, SafeInv
<1>2. /\ \A b \in Attempts \ {a} : att'[b] = att[b]
      /\ \A b \in Attempts \ {a} : can'[b] = can[b]
      /\ UNCHANGED <<job, tree, run, sub, disp, hold, early, torn, strays>>
  <2>1. \A b \in Attempts \ {a} : att'[b] = att[b]
    BY AppendMoves, StatusNames DEF CancelEvent, IInv, TypeOK, Reasons
  <2>2. \A b \in Attempts \ {a} : can'[b] = can[b]
    BY DEF CancelEvent, IInv, TypeOK
  <2>3. UNCHANGED <<job, tree, run, sub, disp, hold, early, torn, strays>>
    BY DEF CancelEvent, history
  <2> QED BY <2>1, <2>2, <2>3
<1>3. /\ can[a] = "event"
      /\ can'[a] = "none"
      /\ att'[a].st = "failed" \/ (Settled(a) /\ att'[a].st = att[a].st)
  <2>1. can[a] = "event"
    BY <1>1, EndSettles DEF CancelEvent, JobInv, Closed, Terminal
  <2>2. can'[a] = "none"
    BY <1>1, EndSettles DEF CancelEvent, IInv, TypeOK
  <2>3. att'[a].st = "failed" \/ (Settled(a) /\ att'[a].st = att[a].st)
    <3>1. att' = Appended(a, "failed", "mismatch") /\ "failed" \in Statuses /\ "mismatch" \in Reasons
      BY StatusNames DEF CancelEvent, Reasons
    <3>2. att'[a].st = IF Accepts(a, "failed", "mismatch") THEN "failed" ELSE att[a].st
      BY <3>1, AppendMoves DEF IInv, TypeOK
    <3>3. att[a].st # "none" /\ att \in [Attempts -> Lifecycle]
      BY <1>1, <2>1 DEF JobInv, IInv, TypeOK, Closed
    <3>4. ~Accepts(a, "failed", "mismatch") => Settled(a)
      BY <3>3, EndSettles
    <3> QED BY <3>2, <3>4
  <2> QED BY <2>1, <2>2, <2>3
<1>4. RunnerInv(a)'
  BY <1>1, <1>2, <1>3 DEF RunnerInv, Owned, Attached, Unlaunched, WorkerAlive
<1>5. JobInv(a)'
  BY <1>1, <1>2, <1>3 DEF JobInv, Closed
<1>6. DebtInv(a)'
  BY <1>1, <1>2, <1>3, OwesKept DEF DebtInv, Settled, Terminal
<1>7. Kept(a)
  BY <1>1, <1>2, <1>3 DEF Kept, Waiting, Unlaunched
<1>8. \A b \in Attempts \ {a} : Same(b)
  BY <1>2, <1>3 DEF Same, HeldFor
<1>9. att'[a].parent = att[a].parent
  BY AppendMoves, StatusNames DEF CancelEvent, IInv, TypeOK, Lifecycle, Reasons
<1>10. ASSUME ~Stalls, Beats(a) PROVE Beats(a)'
  <2>1. BeatInv(a)'
    BY <1>1, <1>2, <1>3, <1>10 DEF BeatInv, JobInv, RunnerInv, Owned, Attached, Reserved,
       Closed, Stopped
  <2>2. Resumed(a)' <=> Resumed(a)
    BY <1>2 DEF Resumed
  <2>3. ParentInv(a)'
    BY <1>1, <1>2, <1>3, <1>9, <1>10, <2>2 DEF Beats, ParentInv, WorkerAlive
  <2> QED BY <2>1, <2>3 DEF Beats
<1> QED BY <1>4, <1>5, <1>6, <1>7, <1>8, <1>9, <1>10, OneMoves DEF Alone, KeepsBeats

LEMMA RecOrphanSafe ==
  ASSUME IInv, NEW a \in Attempts, RecOrphan(a)
  PROVE  SafeInv' /\ KeepsBeats(a)
<1>1. RunnerInv(a) /\ JobInv(a) /\ DebtInv(a)
  BY DEF IInv, SafeInv
<1>2. /\ \A b \in Attempts \ {a} : att'[b] = att[b]
      /\ UNCHANGED <<job, tree, run, can, sub, disp, hold, early, torn, strays>>
  <2>1. \A b \in Attempts \ {a} : att'[b] = att[b]
    BY AppendMoves, StatusNames DEF RecOrphan, IInv, TypeOK, Reasons
  <2>2. UNCHANGED <<job, tree, run, can, sub, disp, hold, early, torn, strays>>
    BY DEF RecOrphan, procs, history
  <2> QED BY <2>1, <2>2
<1>3. /\ job[a].rt = "none" /\ att[a].st = "queued"
      /\ att'[a].st # "none"
  <2>1. job[a].rt = "none" /\ att[a].st = "queued"
    BY DEF RecOrphan
  <2>2. att'[a].st # "none"
    BY AppendMoves, StatusNames DEF RecOrphan, IInv, TypeOK, Reasons
  <2> QED BY <2>1, <2>2
<1>4. RunnerInv(a)'
  BY <1>1, <1>2, <1>3 DEF RunnerInv, Owned, Attached, Unlaunched, WorkerAlive
<1>5. JobInv(a)'
  BY <1>1, <1>2, <1>3 DEF JobInv, HeldFor
<1>6. DebtInv(a)'
  BY <1>1, <1>2, <1>3, OwesKept DEF DebtInv, Settled, HeldFor, Terminal, Indebted
<1>7. Kept(a)
  BY <1>1, <1>2, <1>3 DEF Kept, Waiting, Unlaunched
<1>8. \A b \in Attempts \ {a} : Same(b)
  BY <1>2, <1>3 DEF Same, HeldFor
<1>9. att'[a].parent = att[a].parent
  BY AppendMoves, StatusNames DEF RecOrphan, IInv, TypeOK, Lifecycle, Reasons
<1>10. ASSUME ~Stalls, Beats(a) PROVE Beats(a)'
  <2>1. BeatInv(a)'
    BY <1>1, <1>2, <1>3, <1>10 DEF Beats, BeatInv, RunnerInv, Owned, Attached
  <2>2. Resumed(a)' <=> Resumed(a)
    BY <1>2 DEF Resumed
  <2>3. ParentInv(a)'
    BY <1>1, <1>2, <1>3, <1>9, <1>10, <2>2 DEF Beats, ParentInv, WorkerAlive
  <2> QED BY <2>1, <2>3 DEF Beats
<1> QED BY <1>4, <1>5, <1>6, <1>7, <1>8, <1>9, <1>10, OneMoves DEF Alone, KeepsBeats

LEMMA RecJobSafe ==
  ASSUME IInv, NEW a \in Attempts, RecJob(a)
  PROVE  SafeInv' /\ KeepsBeats(a)
<1>1. RunnerInv(a) /\ JobInv(a) /\ DebtInv(a)
  BY DEF IInv, SafeInv
<1>2. /\ \A b \in Attempts \ {a} : job'[b] = job[b]
      /\ \A b \in Attempts \ {a} : tree'[b] = tree[b]
      /\ UNCHANGED <<att, run, can, sub, disp, early, torn, strays>>
  <2>1. \A b \in Attempts \ {a} : job'[b] = job[b]
    BY FinishMoves DEF RecJob, IInv, TypeOK, RecordAndHold
  <2>2. \A b \in Attempts \ {a} : tree'[b] = tree[b]
    BY DEF RecJob, IInv, TypeOK, Reaped, RecordAndHold
  <2>3. UNCHANGED <<att, run, can, sub, disp, early, torn, strays>>
    BY DEF RecJob, Fault, RecordAndHold, history
  <2> QED BY <2>1, <2>2, <2>3
<1>3. /\ job[a].rt \in Reserved
      /\ ~(job[a].runner /\ run[a].pc # "none")
      /\ \/ Mismatch(a) /\ job'[a].rt = "interrupted" /\ ~job'[a].pid /\ HeldFor(a)' /\ tree' = tree
         \/ /\ ~Mismatch(a) /\ job'[a].rt \in {"cancelled", "interrupted"} /\ ~job'[a].pid /\ HeldFor(a)'
            /\ tree'[a] = IF job[a].pid /\ GroupAlive(a) THEN Stopped ELSE tree[a]
            /\ job'[a].rt = IF job[a].rt = "cancel_requested" THEN "cancelled" ELSE "interrupted"
         \/ /\ ~Mismatch(a) /\ job[a].pid /\ job'[a].rt = "cleanup_failed" /\ job'[a].pid
            /\ tree' = tree /\ hold' = hold
  <2>1. job[a].rt \in Reserved
    BY DEF RecJob, RecordAndHold, Fault, Lost, RunnerAlive, Free
  <2>2. ~(job[a].runner /\ run[a].pc # "none")
    BY DEF RecJob, RecordAndHold, Fault, Lost, RunnerAlive, Free
  <2>3. \/ Mismatch(a) /\ job'[a].rt = "interrupted" /\ ~job'[a].pid /\ HeldFor(a)' /\ tree' = tree
        \/ /\ ~Mismatch(a) /\ job'[a].rt \in {"cancelled", "interrupted"} /\ ~job'[a].pid /\ HeldFor(a)'
           /\ tree'[a] = IF job[a].pid /\ GroupAlive(a) THEN Stopped ELSE tree[a]
           /\ job'[a].rt = IF job[a].rt = "cancel_requested" THEN "cancelled" ELSE "interrupted"
        \/ /\ ~Mismatch(a) /\ job[a].pid /\ job'[a].rt = "cleanup_failed" /\ job'[a].pid
           /\ tree' = tree /\ hold' = hold
    <3>1. CASE Mismatch(a)
      <4>1. /\ job' = FinishJob(a, "interrupted") /\ tree' = tree
            /\ hold' = [by |-> "reconcile", of |-> a, to |-> "failed"]
        BY <3>1 DEF RecJob, RecordAndHold
      <4> QED BY <3>1, <4>1, FinishMoves DEF IInv, TypeOK, HeldFor, Free
    <3>2. CASE /\ ~Mismatch(a)
               /\ tree' = IF job[a].pid /\ GroupAlive(a)
                          THEN [tree EXCEPT ![a] = Stopped] ELSE tree
               /\ IF job[a].rt = "cancel_requested"
                  THEN RecordAndHold(a, "cancelled", "cancelled")
                  ELSE RecordAndHold(a, "interrupted", "blocked")
      <4>1. tree'[a] = IF job[a].pid /\ GroupAlive(a) THEN Stopped ELSE tree[a]
        BY <3>2 DEF IInv, TypeOK
      <4>2. HeldFor(a)'
        BY <3>2 DEF RecordAndHold, HeldFor, Free
      <4>3. /\ job'[a].rt = IF job[a].rt = "cancel_requested" THEN "cancelled" ELSE "interrupted"
            /\ ~job'[a].pid
        BY <3>2, FinishMoves DEF RecordAndHold, IInv, TypeOK
      <4> QED BY <3>2, <4>1, <4>2, <4>3
    <3>3. CASE /\ ~Mismatch(a) /\ job[a].pid
               /\ job' = [job EXCEPT ![a].rt = "cleanup_failed", ![a].runner = FALSE]
               /\ tree' = tree /\ hold' = hold
      BY <3>3 DEF IInv, TypeOK, Job
    <3> QED BY <3>1, <3>2, <3>3 DEF RecJob
  <2> QED BY <2>1, <2>2, <2>3
<1>4. RunnerInv(a)'
  BY <1>1, <1>2, <1>3 DEF RunnerInv, Owned, Attached, Unlaunched, WorkerAlive, Reserved,
     Closed, Stopped, Mismatch, TreeMatches, PidAlive, GroupAlive
<1>5. JobInv(a)'
  BY <1>1, <1>2, <1>3 DEF JobInv, Reserved, Closed, Stopped, Mismatch, TreeMatches, PidAlive,
     GroupAlive, HeldFor
<1>6. DebtInv(a)'
  BY <1>1, <1>2, <1>3, OwesKept DEF DebtInv, Closed, Mismatch, TreeMatches, PidAlive,
     GroupAlive, Indebted
<1>7. Kept(a)
  BY <1>1, <1>2, <1>3 DEF Kept, Waiting, JobInv, Unlaunched, Closed, Mismatch, TreeMatches,
     PidAlive, GroupAlive
<1>8. \A b \in Attempts \ {a} : Same(b)
  BY <1>2, <1>3 DEF Same, HeldFor, Holds, Free, QueueFree, RecJob, RecordAndHold
<1>9. att'[a].parent = att[a].parent
  BY <1>2
<1>10. ASSUME ~Stalls, Beats(a) PROVE Beats(a)'
  <2>1. BeatInv(a)'
    BY <1>1, <1>2, <1>3, <1>10 DEF Beats, BeatInv, Attached, Mismatch, TreeMatches, PidAlive,
       GroupAlive
  <2>2. Resumed(a)' <=> Resumed(a)
    BY <1>2 DEF Resumed
  <2>3. ParentInv(a)'
    BY <1>1, <1>2, <1>3, <1>9, <1>10, <2>2 DEF Beats, ParentInv, WorkerAlive, Mismatch,
       TreeMatches, PidAlive, GroupAlive
  <2> QED BY <2>1, <2>3 DEF Beats
<1> QED BY <1>4, <1>5, <1>6, <1>7, <1>8, <1>9, <1>10, OneMoves DEF Alone, KeepsBeats

LEMMA HeartbeatExpiresSafe ==
  ASSUME IInv, NEW a \in Attempts, HeartbeatExpires(a)
  PROVE  SafeInv' /\ KeepsBeats(a)
<1>1. RunnerInv(a) /\ JobInv(a) /\ DebtInv(a)
  BY DEF IInv, SafeInv
<1>2. /\ \A b \in Attempts \ {a} : att'[b] = att[b]
      /\ UNCHANGED <<job, tree, run, can, sub, disp, hold, early, torn, strays>>
  <2>1. \A b \in Attempts \ {a} : att'[b] = att[b]
    BY AppendMoves, StatusNames DEF HeartbeatExpires, IInv, TypeOK, Reasons
  <2>2. UNCHANGED <<job, tree, run, can, sub, disp, hold, early, torn, strays>>
    BY DEF HeartbeatExpires, procs, history
  <2> QED BY <2>1, <2>2
<1>3. /\ Stalls \/ run[a].pc \in {"none", "boot"}
      /\ att[a].st \in Beating
      /\ att'[a].st = "blocked"
  <2>1. Stalls \/ run[a].pc \in {"none", "boot"}
    BY TransitionsAre, LiveIs DEF HeartbeatExpires, Beating, Accepts, Writing
  <2>2. att[a].st \in Beating
    BY TransitionsAre, LiveIs DEF HeartbeatExpires, Beating, Accepts, Writing
  <2>3. att'[a].st = "blocked"
    BY AppendMoves, StatusNames, TransitionsAre, LiveIs DEF HeartbeatExpires, IInv, TypeOK,
       Reasons, Beating, Accepts, Writing
  <2> QED BY <2>1, <2>2, <2>3
<1>4. RunnerInv(a)'
  BY <1>1, <1>2, <1>3 DEF RunnerInv, Owned, Attached, Unlaunched, WorkerAlive, Beating
<1>5. JobInv(a)'
  BY <1>1, <1>2, <1>3 DEF JobInv, Beating, HeldFor
<1>6. DebtInv(a)'
  BY <1>1, <1>2, <1>3, OwesKept DEF DebtInv, Settled, Beating
<1>7. Kept(a)
  BY <1>1, <1>2, <1>3 DEF Kept, Waiting, Unlaunched, Beating
<1>8. \A b \in Attempts \ {a} : Same(b)
  BY <1>2, <1>3 DEF Same, HeldFor
<1>9. att'[a].parent = att[a].parent
  BY AppendMoves, StatusNames DEF HeartbeatExpires, IInv, TypeOK, Lifecycle, Reasons
<1>10. ASSUME ~Stalls, Beats(a) PROVE Beats(a)'
  <2>1. BeatInv(a)'
    BY <1>1, <1>2, <1>3, <1>10 DEF BeatInv, Beating
  <2>2. Resumed(a)' <=> Resumed(a)
    BY <1>2 DEF Resumed
  <2>3. ParentInv(a)'
    BY <1>1, <1>2, <1>3, <1>9, <1>10, <2>2 DEF Beats, ParentInv, Beating
  <2> QED BY <2>1, <2>3 DEF Beats
<1> QED BY <1>4, <1>5, <1>6, <1>7, <1>8, <1>9, <1>10, OneMoves DEF Alone, KeepsBeats

LEMMA OwnerMovesSafe ==
  ASSUME IInv, NEW a \in Attempts, NEW to \in {"done", "failed", "abandoned", "cancelled"}, OwnerMoves(a, to)
  PROVE  SafeInv' /\ KeepsBeats(a)
<1>1. RunnerInv(a) /\ JobInv(a) /\ DebtInv(a)
  BY DEF IInv, SafeInv
<1>2. /\ \A b \in Attempts \ {a} : att'[b] = att[b]
      /\ UNCHANGED <<job, tree, run, can, sub, disp, hold, early, torn, strays>>
  <2>1. \A b \in Attempts \ {a} : att'[b] = att[b]
    BY AppendMoves, StatusNames DEF OwnerMoves, IInv, TypeOK, Reasons
  <2>2. UNCHANGED <<job, tree, run, can, sub, disp, hold, early, torn, strays>>
    BY DEF OwnerMoves, procs, history
  <2> QED BY <2>1, <2>2
<1>3. /\ att[a].st \in {"review", "blocked"}
      /\ att'[a].st \in Terminal \cup {"review", "blocked"}
  <2>1. att[a].st \in {"review", "blocked"}
    BY DEF OwnerMoves, Terminal
  <2>2. att'[a].st \in Terminal \cup {"review", "blocked"}
    BY AppendMoves, StatusNames DEF OwnerMoves, IInv, TypeOK, Reasons, Terminal
  <2> QED BY <2>1, <2>2
<1>4. RunnerInv(a)'
  BY <1>1, <1>2, <1>3 DEF RunnerInv, Owned, Attached, Unlaunched, WorkerAlive
<1>5. JobInv(a)'
  BY <1>1, <1>2, <1>3 DEF JobInv, Terminal, HeldFor
<1>6. DebtInv(a)'
  BY <1>1, <1>2, <1>3, OwesKept DEF DebtInv, Settled
<1>7. Kept(a)
  BY <1>1, <1>2, <1>3 DEF Kept, Waiting, Unlaunched
<1>8. \A b \in Attempts \ {a} : Same(b)
  BY <1>2, <1>3 DEF Same, HeldFor
<1>9. att'[a].parent = att[a].parent
  BY AppendMoves, StatusNames DEF OwnerMoves, IInv, TypeOK, Lifecycle, Reasons
<1>10. ASSUME ~Stalls, Beats(a) PROVE Beats(a)'
  <2>1. BeatInv(a)'
    BY <1>1, <1>2, <1>3, <1>10 DEF Beats, BeatInv, Attached
  <2>2. Resumed(a)' <=> Resumed(a)
    BY <1>2 DEF Resumed
  <2>3. ParentInv(a)'
    BY <1>1, <1>2, <1>3, <1>9, <1>10, <2>2 DEF Beats, ParentInv, WorkerAlive, Terminal
  <2> QED BY <2>1, <2>3 DEF Beats
<1> QED BY <1>4, <1>5, <1>6, <1>7, <1>8, <1>9, <1>10, OneMoves DEF Alone, KeepsBeats

LEMMA GcRuntimeSafe ==
  ASSUME IInv, NEW a \in Attempts, GcRuntime(a)
  PROVE  SafeInv' /\ KeepsBeats(a)
<1>1. RunnerInv(a) /\ JobInv(a) /\ DebtInv(a)
  BY DEF IInv, SafeInv
<1>2. /\ \A b \in Attempts \ {a} : job'[b] = job[b]
      /\ UNCHANGED <<att, tree, run, can, sub, disp, hold, early, torn, strays>>
  <2>1. \A b \in Attempts \ {a} : job'[b] = job[b]
    BY DEF GcRuntime, IInv, TypeOK
  <2>2. UNCHANGED <<att, tree, run, can, sub, disp, hold, early, torn, strays>>
    BY DEF GcRuntime, procs, history
  <2> QED BY <2>1, <2>2
<1>3. /\ job[a].rt \in {"finished", "cancelled"}
      /\ att[a].st \in Terminal /\ Idle(a)
      /\ job'[a].rt = "none" /\ ~job'[a].pid
  <2>1. job[a].rt \in {"finished", "cancelled"}
    BY DEF GcRuntime
  <2>2. att[a].st \in Terminal /\ Idle(a)
    BY DEF GcRuntime
  <2>3. job'[a].rt = "none" /\ ~job'[a].pid
    BY DEF GcRuntime, IInv, TypeOK, Job, NoJob
  <2> QED BY <2>1, <2>2, <2>3
<1>4. RunnerInv(a)'
  BY <1>1, <1>2, <1>3 DEF RunnerInv, WorkerAlive, Reserved, Idle, RunnerAlive
<1>5. JobInv(a)'
  BY <1>1, <1>2, <1>3 DEF JobInv, Idle, RunnerAlive, HeldFor
<1>6. DebtInv(a)'
  BY <1>1, <1>2, <1>3, OwesKept DEF DebtInv, Settled, Idle, RunnerAlive
<1>7. Kept(a)
  BY <1>1, <1>2, <1>3 DEF Kept, Idle, RunnerAlive
<1>8. \A b \in Attempts \ {a} : Same(b)
  BY <1>2, <1>3 DEF Same, HeldFor
<1>9. att'[a].parent = att[a].parent
  BY <1>2
<1>10. ASSUME ~Stalls, Beats(a) PROVE Beats(a)'
  <2>1. BeatInv(a)'
    BY <1>1, <1>2, <1>3, <1>10 DEF BeatInv, Idle, RunnerAlive
  <2>2. Resumed(a)' <=> Resumed(a)
    BY <1>2 DEF Resumed
  <2>3. ParentInv(a)'
    BY <1>1, <1>2, <1>3, <1>9, <1>10, <2>2 DEF Beats, ParentInv, Idle, RunnerAlive
  <2> QED BY <2>1, <2>3 DEF Beats
<1> QED BY <1>4, <1>5, <1>6, <1>7, <1>8, <1>9, <1>10, OneMoves DEF Alone, KeepsBeats

LEMMA DelegateEventSafe ==
  ASSUME IInv, NEW a \in Attempts, DelegateEvent(a)
  PROVE  SafeInv' /\ KeepsBeats(a)
<1>1. RunnerInv(a) /\ JobInv(a) /\ DebtInv(a)
  BY DEF IInv, SafeInv
<1>2. /\ \A b \in Attempts \ {a} : att'[b] = att[b]
      /\ \A b \in Attempts \ {a} : run'[b] = run[b]
      /\ UNCHANGED <<job, tree, can, sub, disp, hold, early, torn, strays>>
  <2>1. \A b \in Attempts \ {a} : att'[b] = att[b]
    BY AppendMoves, StatusNames DEF DelegateEvent, IInv, TypeOK, Reasons
  <2>2. \A b \in Attempts \ {a} : run'[b] = run[b]
    BY RunnerMoves, PcNames DEF DelegateEvent, IInv, TypeOK
  <2>3. UNCHANGED <<job, tree, can, sub, disp, hold, early, torn, strays>>
    BY DEF DelegateEvent, history
  <2> QED BY <2>1, <2>2, <2>3
<1>3. /\ run[a].pc \in DelegatePcs
      /\ run'[a].pc \in DelegatePcs \cup {"none"}
      /\ att[a].st # "none" => att'[a].st # "none"
  <2>1. run[a].pc \in DelegatePcs
    BY DEF DelegateEvent, DelegatePcs
  <2>2. run'[a].pc \in DelegatePcs \cup {"none"}
    BY RunnerMoves, PcNames DEF DelegateEvent, IInv, TypeOK, DelegatePcs
  <2>3. att[a].st # "none" => att'[a].st # "none"
    BY AppendMoves, StatusNames, ZenonT(60) DEF DelegateEvent, IInv, TypeOK, Reasons
  <2> QED BY <2>1, <2>2, <2>3
<1>4. RunnerInv(a)'
  BY <1>1, <1>2, <1>3 DEF RunnerInv, Unlaunched, WorkerAlive, DelegatePcs, NoTree
<1>5. JobInv(a)'
  BY <1>1, <1>2, <1>3 DEF JobInv, DelegatePcs, HeldFor
<1>6. DebtInv(a)'
  BY <1>1, <1>2, <1>3, OwesKept DEF DebtInv, RunnerInv, Closed
<1>7. Kept(a)
  BY <1>1, <1>2, <1>3 DEF Kept, Waiting, DelegatePcs
<1>8. \A b \in Attempts \ {a} : Same(b)
  BY <1>2, <1>3 DEF Same, HeldFor
<1>9. att'[a].parent = att[a].parent
  BY AppendMoves, StatusNames DEF DelegateEvent, IInv, TypeOK, Lifecycle, Reasons
<1>10. ASSUME ~Stalls, Beats(a) PROVE Beats(a)'
  <2>1. BeatInv(a)'
    BY <1>1, <1>2, <1>3, <1>10 DEF BeatInv, DelegatePcs
  <2>2. Resumed(a)' <=> Resumed(a)
    BY <1>2 DEF Resumed
  <2>3. ParentInv(a)'
    BY <1>1, <1>2, <1>3, <1>9, <1>10, <2>2 DEF Beats, ParentInv, DelegatePcs
  <2> QED BY <2>1, <2>3 DEF Beats
<1> QED BY <1>4, <1>5, <1>6, <1>7, <1>8, <1>9, <1>10, OneMoves DEF Alone, KeepsBeats

LEMMA DelegateRecoverSafe ==
  ASSUME IInv, NEW a \in Attempts, DelegateRecover(a)
  PROVE  SafeInv' /\ KeepsBeats(a)
<1>1. RunnerInv(a) /\ JobInv(a) /\ DebtInv(a)
  BY DEF IInv, SafeInv
<1>2. /\ \A b \in Attempts \ {a} : att'[b] = att[b]
      /\ \A b \in Attempts \ {a} : run'[b] = run[b]
      /\ UNCHANGED <<job, tree, can, sub, disp, hold, early, torn, strays>>
  <2>1. \A b \in Attempts \ {a} : att'[b] = att[b]
    BY AppendMoves, StatusNames DEF DelegateRecover, IInv, TypeOK, Reasons
  <2>2. \A b \in Attempts \ {a} : run'[b] = run[b]
    BY RunnerMoves, PcNames DEF DelegateRecover, IInv, TypeOK
  <2>3. UNCHANGED <<job, tree, can, sub, disp, hold, early, torn, strays>>
    BY DEF DelegateRecover, history
  <2> QED BY <2>1, <2>2, <2>3
<1>3. /\ run[a].pc \in DelegatePcs
      /\ run'[a].pc = "none"
      /\ att[a].st # "none" => att'[a].st # "none"
  <2>1. run[a].pc \in DelegatePcs
    BY DEF DelegateRecover, DelegatePcs
  <2>2. run'[a].pc = "none"
    BY RunnerMoves, PcNames DEF DelegateRecover, IInv, TypeOK
  <2>3. att[a].st # "none" => att'[a].st # "none"
    <3>1. CASE att[a].st = "blocked" /\ att[a].why = "expired"
      BY <3>1 DEF DelegateRecover, IInv, TypeOK, Lifecycle
    <3>2. CASE ~(att[a].st = "blocked" /\ att[a].why = "expired")
      <4>1. att' = Appended(a, "failed", "other") /\ "failed" \in Statuses /\ "other" \in Reasons
        BY <3>2, StatusNames DEF DelegateRecover, Reasons
      <4> QED BY <4>1, AppendMoves DEF IInv, TypeOK
    <3> QED BY <3>1, <3>2
  <2> QED BY <2>1, <2>2, <2>3
<1>4. RunnerInv(a)'
  BY <1>1, <1>2, <1>3 DEF RunnerInv, Unlaunched, WorkerAlive, NoTree
<1>5. JobInv(a)'
  BY <1>1, <1>2, <1>3 DEF JobInv, DelegatePcs, HeldFor
<1>6. DebtInv(a)'
  BY <1>1, <1>2, <1>3, OwesKept DEF DebtInv, RunnerInv, Closed
<1>7. Kept(a)
  BY <1>1, <1>2, <1>3 DEF Kept, Waiting, DelegatePcs
<1>8. \A b \in Attempts \ {a} : Same(b)
  BY <1>2, <1>3 DEF Same, HeldFor
<1>9. att'[a].parent = att[a].parent
  BY AppendMoves, StatusNames DEF DelegateRecover, IInv, TypeOK, Lifecycle, Reasons
<1>10. ASSUME ~Stalls, Beats(a) PROVE Beats(a)'
  <2>1. BeatInv(a)'
    BY <1>1, <1>2, <1>3, <1>10 DEF BeatInv
  <2>2. Resumed(a)' <=> Resumed(a)
    BY <1>2 DEF Resumed
  <2>3. ParentInv(a)'
    BY <1>1, <1>2, <1>3, <1>9, <1>10, <2>2 DEF Beats, ParentInv
  <2> QED BY <2>1, <2>3 DEF Beats
<1> QED BY <1>4, <1>5, <1>6, <1>7, <1>8, <1>9, <1>10, OneMoves DEF Alone, KeepsBeats

LEMMA DelegateRecoverTornSafe ==
  ASSUME IInv, NEW a \in Attempts, NEW reached \in {"working", "verifying"}, DelegateRecoverTorn(a, reached)
  PROVE  SafeInv' /\ KeepsBeats(a)
<1>1. RunnerInv(a) /\ JobInv(a) /\ DebtInv(a)
  BY DEF IInv, SafeInv
<1>2. /\ \A b \in Attempts \ {a} : att'[b] = att[b]
      /\ \A b \in Attempts \ {a} : run'[b] = run[b]
      /\ UNCHANGED <<job, tree, can, sub, disp, hold, early, torn, strays>>
  <2>1. \A b \in Attempts \ {a} : att'[b] = att[b]
    BY DEF DelegateRecoverTorn, IInv, TypeOK
  <2>2. \A b \in Attempts \ {a} : run'[b] = run[b]
    BY RunnerMoves, PcNames DEF DelegateRecoverTorn, IInv, TypeOK
  <2>3. UNCHANGED <<job, tree, can, sub, disp, hold, early, torn, strays>>
    BY DEF DelegateRecoverTorn, Fault, history
  <2> QED BY <2>1, <2>2, <2>3
<1>3. /\ run[a].pc \in DelegatePcs
      /\ run'[a].pc = "none"
      /\ att'[a].st # "none"
  <2>1. run[a].pc \in DelegatePcs
    BY DEF DelegateRecoverTorn, DelegatePcs
  <2>2. run'[a].pc = "none"
    BY RunnerMoves, PcNames DEF DelegateRecoverTorn, IInv, TypeOK
  <2>3. att'[a].st # "none"
    BY DEF DelegateRecoverTorn, IInv, TypeOK
  <2> QED BY <2>1, <2>2, <2>3
<1>4. RunnerInv(a)'
  BY <1>1, <1>2, <1>3 DEF RunnerInv, Unlaunched, WorkerAlive, NoTree
<1>5. JobInv(a)'
  BY <1>1, <1>2, <1>3 DEF JobInv, DelegatePcs, HeldFor
<1>6. DebtInv(a)'
  BY <1>1, <1>2, <1>3, OwesKept DEF DebtInv, RunnerInv, Closed
<1>7. Kept(a)
  BY <1>1, <1>2, <1>3 DEF Kept, Waiting, DelegatePcs
<1>8. \A b \in Attempts \ {a} : Same(b)
  BY <1>2, <1>3 DEF Same, HeldFor
<1>9. att'[a].parent = att[a].parent
  BY DEF DelegateRecoverTorn, IInv, TypeOK, Lifecycle
<1>10. ASSUME ~Stalls, Beats(a) PROVE Beats(a)'
  <2>1. BeatInv(a)'
    BY <1>1, <1>2, <1>3, <1>10 DEF BeatInv
  <2>2. Resumed(a)' <=> Resumed(a)
    BY <1>2 DEF Resumed
  <2>3. ParentInv(a)'
    BY <1>1, <1>2, <1>3, <1>9, <1>10, <2>2 DEF Beats, ParentInv
  <2> QED BY <2>1, <2>3 DEF Beats
<1> QED BY <1>4, <1>5, <1>6, <1>7, <1>8, <1>9, <1>10, OneMoves DEF Alone, KeepsBeats

LEMMA WorkerExitsSafe ==
  ASSUME IInv, NEW a \in Attempts, WorkerExits(a)
  PROVE  SafeInv' /\ KeepsBeats(a)
<1>1. RunnerInv(a) /\ JobInv(a) /\ DebtInv(a)
  BY DEF IInv, SafeInv
<1>2. /\ \A b \in Attempts \ {a} : tree'[b] = tree[b]
      /\ UNCHANGED <<att, job, run, can, sub, disp, hold, early, torn, strays>>
  <2>1. \A b \in Attempts \ {a} : tree'[b] = tree[b]
    BY DEF WorkerExits, IInv, TypeOK, Reaped
  <2>2. UNCHANGED <<att, job, run, can, sub, disp, hold, early, torn, strays>>
    BY DEF WorkerExits, stores, procs, history
  <2> QED BY <2>1, <2>2
<1>3. /\ tree[a].leader = "run"
      /\ tree'[a].leader = IF run[a].pc # "none" THEN "zombie" ELSE "gone"
  <2>1. tree[a].leader = "run"
    BY DEF WorkerExits, RunnerAlive
  <2>2. tree'[a].leader = IF run[a].pc # "none" THEN "zombie" ELSE "gone"
    BY DEF WorkerExits, IInv, TypeOK, Reaped, RunnerAlive
  <2> QED BY <2>1, <2>2
<1>4. RunnerInv(a)'
  BY <1>1, <1>2, <1>3 DEF RunnerInv, Owned, Attached, Unlaunched, WorkerAlive, NoTree, Stopped
<1>5. JobInv(a)'
  BY <1>1, <1>2, <1>3 DEF JobInv, Unlaunched, NoTree, HeldFor
<1>6. DebtInv(a)'
  BY <1>1, <1>2, <1>3, OwesKept DEF DebtInv, Settled, HeldFor, Indebted
<1>7. Kept(a)
  BY <1>1, <1>2, <1>3 DEF Kept, Waiting, Unlaunched, NoTree
<1>8. \A b \in Attempts \ {a} : Same(b)
  BY <1>2, <1>3 DEF Same, HeldFor
<1>9. att'[a].parent = att[a].parent
  BY <1>2
<1>10. ASSUME ~Stalls, Beats(a) PROVE Beats(a)'
  <2>1. BeatInv(a)'
    BY <1>1, <1>2, <1>3, <1>10 DEF Beats, BeatInv, Attached
  <2>2. Resumed(a)' <=> Resumed(a)
    BY <1>2 DEF Resumed
  <2>3. ParentInv(a)'
    BY <1>1, <1>2, <1>3, <1>9, <1>10, <2>2 DEF Beats, ParentInv, WorkerAlive, Stopped
  <2> QED BY <2>1, <2>3 DEF Beats
<1> QED BY <1>4, <1>5, <1>6, <1>7, <1>8, <1>9, <1>10, OneMoves DEF Alone, KeepsBeats

LEMMA KidsExitSafe ==
  ASSUME IInv, NEW a \in Attempts, KidsExit(a)
  PROVE  SafeInv' /\ KeepsBeats(a)
<1>1. RunnerInv(a) /\ JobInv(a) /\ DebtInv(a)
  BY DEF IInv, SafeInv
<1>2. /\ \A b \in Attempts \ {a} : tree'[b] = tree[b]
      /\ UNCHANGED <<att, job, run, can, sub, disp, hold, early, torn, strays>>
  <2>1. \A b \in Attempts \ {a} : tree'[b] = tree[b]
    BY DEF KidsExit, IInv, TypeOK, Reaped
  <2>2. UNCHANGED <<att, job, run, can, sub, disp, hold, early, torn, strays>>
    BY DEF KidsExit, stores, procs, history
  <2> QED BY <2>1, <2>2
<1>3. /\ tree[a].kids
      /\ ~tree'[a].kids /\ tree'[a].leader = tree[a].leader
      /\ tree'[a] \in Tree
  <2>1. tree[a].kids
    BY DEF KidsExit
  <2>2. ~tree'[a].kids /\ tree'[a].leader = tree[a].leader
    BY DEF KidsExit, IInv, TypeOK, Reaped
  <2>3. tree'[a] \in Tree
    BY DEF KidsExit, IInv, TypeOK, Tree, Reaped
  <2> QED BY <2>1, <2>2, <2>3
<1>4. RunnerInv(a)'
  BY <1>1, <1>2, <1>3 DEF RunnerInv, Owned, Attached, Unlaunched, WorkerAlive, NoTree, Stopped
<1>5. JobInv(a)'
  BY <1>1, <1>2, <1>3 DEF JobInv, Unlaunched, NoTree, HeldFor
<1>6. DebtInv(a)'
  BY <1>1, <1>2, <1>3, OwesKept DEF DebtInv, Settled, HeldFor, Indebted
<1>7. Kept(a)
  BY <1>1, <1>2, <1>3 DEF Kept, Waiting, Unlaunched, NoTree
<1>8. \A b \in Attempts \ {a} : Same(b)
  BY <1>2, <1>3 DEF Same, HeldFor
<1>9. att'[a].parent = att[a].parent
  BY <1>2
<1>10. ASSUME ~Stalls, Beats(a) PROVE Beats(a)'
  <2>1. BeatInv(a)'
    BY <1>1, <1>2, <1>3, <1>10 DEF Beats, BeatInv, Attached
  <2>2. Resumed(a)' <=> Resumed(a)
    BY <1>2 DEF Resumed
  <2>3. ParentInv(a)'
    BY <1>1, <1>2, <1>3, <1>9, <1>10, <2>2 DEF Beats, ParentInv, WorkerAlive, Stopped
  <2> QED BY <2>1, <2>3 DEF Beats
<1> QED BY <1>4, <1>5, <1>6, <1>7, <1>8, <1>9, <1>10, OneMoves DEF Alone, KeepsBeats

LEMMA PidReusedSafe ==
  ASSUME IInv, NEW a \in Attempts, PidReused(a)
  PROVE  SafeInv' /\ KeepsBeats(a)
<1>1. RunnerInv(a) /\ JobInv(a) /\ DebtInv(a)
  BY DEF IInv, SafeInv
<1>2. /\ \A b \in Attempts \ {a} : tree'[b] = tree[b]
      /\ UNCHANGED <<att, job, run, can, sub, disp, hold, early, torn, strays>>
  <2>1. \A b \in Attempts \ {a} : tree'[b] = tree[b]
    BY DEF PidReused, IInv, TypeOK, Reaped
  <2>2. UNCHANGED <<att, job, run, can, sub, disp, hold, early, torn, strays>>
    BY DEF PidReused, Fault, stores, procs, history
  <2> QED BY <2>1, <2>2
<1>3. /\ job[a].pid /\ tree[a] = Stopped /\ run[a].pc = "none"
      /\ tree'[a].leader = "reused" /\ ~tree'[a].kids
  <2>1. job[a].pid /\ tree[a] = Stopped /\ run[a].pc = "none"
    BY DEF PidReused, RunnerAlive
  <2>2. tree'[a].leader = "reused" /\ ~tree'[a].kids
    BY DEF PidReused, IInv, TypeOK, Tree, Stopped
  <2> QED BY <2>1, <2>2
<1>4. RunnerInv(a)'
  BY <1>1, <1>2, <1>3 DEF RunnerInv, WorkerAlive, DelegatePcs
<1>5. JobInv(a)'
  BY <1>1, <1>2, <1>3 DEF JobInv, Unlaunched, NoTree, HeldFor
<1>6. DebtInv(a)'
  BY <1>1, <1>2, <1>3, OwesKept DEF DebtInv, Settled, HeldFor, Indebted
<1>7. Kept(a)
  BY <1>1, <1>2, <1>3 DEF Kept, Waiting, Unlaunched
<1>8. \A b \in Attempts \ {a} : Same(b)
  BY <1>2, <1>3 DEF Same, HeldFor
<1>9. att'[a].parent = att[a].parent
  BY <1>2
<1>10. ASSUME ~Stalls, Beats(a) PROVE Beats(a)'
  <2>1. BeatInv(a)'
    BY <1>1, <1>2, <1>3, <1>10 DEF BeatInv
  <2>2. Resumed(a)' <=> Resumed(a)
    BY <1>2 DEF Resumed
  <2>3. ParentInv(a)'
    BY <1>1, <1>2, <1>3, <1>9, <1>10, <2>2 DEF Beats, ParentInv
  <2> QED BY <2>1, <2>3 DEF Beats
<1> QED BY <1>4, <1>5, <1>6, <1>7, <1>8, <1>9, <1>10, OneMoves DEF Alone, KeepsBeats

LEMMA KillRunnerSafe ==
  ASSUME IInv, NEW a \in Attempts, KillRunner(a)
  PROVE  SafeInv' /\ KeepsBeats(a)
<1>1. RunnerInv(a) /\ JobInv(a) /\ DebtInv(a)
  BY DEF IInv, SafeInv
<1>2. /\ \A b \in Attempts \ {a} : run'[b] = run[b]
      /\ \A b \in Attempts \ {a} : tree'[b] = tree[b]
      /\ UNCHANGED <<att, job, can, sub, disp, hold, early>>
  <2>1. \A b \in Attempts \ {a} : run'[b] = run[b]
    BY RunnerMoves, PcNames DEF KillRunner, IInv, TypeOK
  <2>2. \A b \in Attempts \ {a} : tree'[b] = tree[b]
    BY DEF KillRunner, IInv, TypeOK, Reaped
  <2>3. UNCHANGED <<att, job, can, sub, disp, hold, early>>
    BY DEF KillRunner, Fault, stores
  <2> QED BY <2>1, <2>2, <2>3
<1>3. /\ run[a].pc # "none"
      /\ run'[a].pc = "none"
      /\ tree'[a].kids = tree[a].kids
      /\ tree'[a].leader = IF tree[a].leader = "zombie" THEN "gone" ELSE tree[a].leader
      /\ tree'[a] \in Tree /\ tree[a] \in Tree
      /\ torn' = IF Owes(a) THEN torn \cup {a} ELSE torn
      /\ strays' = IF tree[a] \notin {NoTree, Stopped} /\ ~job[a].pid THEN strays \cup {a} ELSE strays
  <2>1. run[a].pc # "none"
    BY DEF KillRunner, RunnerAlive
  <2>2. run'[a].pc = "none"
    BY RunnerMoves, PcNames DEF KillRunner, IInv, TypeOK, RunnerAlive
  <2>3. tree'[a].kids = tree[a].kids
    BY DEF KillRunner, Reaped, RunnerAlive
  <2>4. tree'[a].leader = IF tree[a].leader = "zombie" THEN "gone" ELSE tree[a].leader
    BY DEF KillRunner, IInv, TypeOK, Reaped, RunnerAlive
  <2>5. tree'[a] \in Tree /\ tree[a] \in Tree
    BY DEF KillRunner, IInv, TypeOK, Tree, Reaped, RunnerAlive
  <2>6. torn' = IF Owes(a) THEN torn \cup {a} ELSE torn
    BY DEF KillRunner, RunnerAlive
  <2>7. strays' = IF tree[a] \notin {NoTree, Stopped} /\ ~job[a].pid THEN strays \cup {a} ELSE strays
    BY DEF KillRunner, RunnerAlive
  <2> QED BY <2>1, <2>2, <2>3, <2>4, <2>5, <2>6, <2>7
<1>4. RunnerInv(a)'
  <2>1. CASE tree[a] \in {NoTree, Stopped}
    BY <1>3, <2>1 DEF RunnerInv, NoTree, Stopped, WorkerAlive, DelegatePcs
  <2>2. CASE tree[a] \notin {NoTree, Stopped} /\ ~job[a].pid
    BY <1>3, <2>2 DEF RunnerInv, WorkerAlive, DelegatePcs
  <2>3. CASE tree[a] \notin {NoTree, Stopped} /\ job[a].pid
    <3>1. WorkerAlive(a)' => WorkerAlive(a)
      BY <1>3 DEF WorkerAlive
    <3>2. WorkerAlive(a) => job[a].rt \in Reserved
      BY <1>1, <2>3 DEF JobInv, JobStates, IInv, TypeOK, Job
    <3> QED BY <1>2, <1>3, <2>3, <3>1, <3>2 DEF RunnerInv, DelegatePcs
  <2> QED BY <2>1, <2>2, <2>3
<1>5. JobInv(a)'
  BY <1>1, <1>2, <1>3 DEF JobInv, Unlaunched, NoTree, Tree, Owes, Writing, HeldFor
<1>6. DebtInv(a)'
  BY <1>1, <1>2, <1>3, OwesKept DEF DebtInv, Settled, HeldFor, Owes, Writing, Indebted
<1>7. Kept(a)
  BY <1>1, <1>2, <1>3 DEF Kept, Waiting, Owes, Writing
<1>8. \A b \in Attempts \ {a} : Same(b)
  BY <1>2, <1>3 DEF Same, HeldFor
<1>9. att'[a].parent = att[a].parent
  BY <1>2
<1>10. ASSUME ~Stalls, Beats(a) PROVE Beats(a)'
  <2>1. BeatInv(a)'
    BY <1>1, <1>2, <1>3, <1>10 DEF BeatInv, Owes, Writing
  <2>2. Resumed(a)' <=> Resumed(a)
    BY <1>2 DEF Resumed
  <2>3. ParentInv(a)'
    BY <1>1, <1>2, <1>3, <1>9, <1>10, <2>2 DEF Beats, ParentInv, Owes, Writing
  <2> QED BY <2>1, <2>3 DEF Beats
<1> QED BY <1>4, <1>5, <1>6, <1>7, <1>8, <1>9, <1>10, OneMoves DEF Alone, KeepsBeats

LEMMA KillCommandSafe ==
  ASSUME IInv, NEW a \in Attempts, KillCommand(a)
  PROVE  SafeInv' /\ KeepsBeats(a)
<1>1. RunnerInv(a) /\ JobInv(a) /\ DebtInv(a)
  BY DEF IInv, SafeInv
<1>2. /\ \A b \in Attempts \ {a} : can'[b] = can[b]
      /\ \A b \in Attempts \ {a} : sub'[b] = sub[b]
      /\ UNCHANGED <<att, job, tree, run, disp, hold, early, strays>>
  <2>1. \A b \in Attempts \ {a} : can'[b] = can[b]
    BY DEF KillCommand, IInv, TypeOK
  <2>2. \A b \in Attempts \ {a} : sub'[b] = sub[b]
    BY DEF KillCommand, IInv, TypeOK
  <2>3. UNCHANGED <<att, job, tree, run, disp, hold, early, strays>>
    BY DEF KillCommand, Fault, stores
  <2> QED BY <2>1, <2>2, <2>3
<1>3. /\ can'[a] = "none"
      /\ sub'[a] = "none"
      /\ torn' = IF can[a] = "event" THEN torn \cup {a} ELSE torn
  <2>1. can'[a] = "none"
    BY DEF KillCommand, IInv, TypeOK
  <2>2. sub'[a] = "none"
    BY DEF KillCommand, IInv, TypeOK
  <2>3. torn' = IF can[a] = "event" THEN torn \cup {a} ELSE torn
    BY DEF KillCommand
  <2> QED BY <2>1, <2>2, <2>3
<1>4. RunnerInv(a)'
  BY <1>1, <1>2, <1>3 DEF RunnerInv, Owned, Attached, Unlaunched, WorkerAlive
<1>5. JobInv(a)'
  BY <1>1, <1>2, <1>3 DEF JobInv, Unlaunched, HeldFor
<1>6. DebtInv(a)'
  BY <1>1, <1>2, <1>3, OwesKept DEF DebtInv, Settled, HeldFor, Indebted
<1>7. Kept(a)
  BY <1>1, <1>2, <1>3 DEF Kept, Waiting, Unlaunched
<1>8. \A b \in Attempts \ {a} : Same(b)
  BY <1>2, <1>3 DEF Same, HeldFor
<1>9. att'[a].parent = att[a].parent
  BY <1>2
<1>10. ASSUME ~Stalls, Beats(a) PROVE Beats(a)'
  <2>1. BeatInv(a)'
    BY <1>1, <1>2, <1>3, <1>10 DEF Beats, BeatInv, Attached
  <2>2. Resumed(a)' <=> Resumed(a)
    BY <1>2 DEF Resumed
  <2>3. ParentInv(a)'
    BY <1>1, <1>2, <1>3, <1>9, <1>10, <2>2 DEF Beats, ParentInv, WorkerAlive
  <2> QED BY <2>1, <2>3 DEF Beats
<1> QED BY <1>4, <1>5, <1>6, <1>7, <1>8, <1>9, <1>10, OneMoves DEF Alone, KeepsBeats

-----------------------------------------------------------------------------
(* The dispatchers. *)

LEMMA FirstSame ==
  ASSUME NEW d, disp'[d].todo = disp[d].todo
  PROVE  First(d)' = First(d)
  BY DEF First

LEMMA DispatcherMoves ==
  ASSUME IInv, NEW d \in Dispatchers, disp[d].pc # "idle", NEW b \in Attempts, b = First(d),
         \A a \in Attempts \ {b} : Same(a),
         \A e \in Dispatchers \ {d} : disp'[e] = disp[e],
         disp'[d].todo \subseteq disp[d].todo,
         RunnerInv(b)', JobInv(b)', DebtInv(b)', DispatchInv(d)'
  PROVE  SafeInv'
<1>1. ASSUME NEW a \in Attempts PROVE RunnerInv(a)' /\ JobInv(a)' /\ DebtInv(a)'
  <2>1. CASE a = b
    BY <2>1
  <2>2. CASE a # b
    <3>1. DispatcherOwes(a) => DispatcherOwes(a)'
      <4>1. ASSUME NEW e \in Dispatchers, disp[e].pc \in Owing, First(e) = a
            PROVE  disp'[e].pc \in Owing /\ First(e)' = a
        BY <2>2, <4>1, FirstKept
      <4> QED BY <4>1 DEF DispatcherOwes
    <3> QED BY <2>2, <3>1, SameKeeps, SameDebt DEF IInv, SafeInv
  <2> QED BY <2>1, <2>2
<1>2. ASSUME NEW e \in Dispatchers \ {d} PROVE DispatchInv(e)'
  <2>1. DispatchInv(e) /\ DispatchInv(d) /\ disp'[e] = disp[e] /\ First(e)' = First(e)
    BY FirstKept DEF IInv, SafeInv
  <2>2. b \in disp[d].todo /\ disp[e].todo \subseteq Attempts
    BY FirstOf DEF IInv, TypeOK, Dispatcher
  <2>3. b \notin disp[e].todo
    BY <2>1, <2>2 DEF DispatchInv
  <2>4. \A a \in disp[e].todo : Same(a)
    BY <2>2, <2>3
  <2>5. \A a \in disp[e].todo : (Waiting(a) => Waiting(a)') /\ job'[a].rt = job[a].rt
    BY <2>4 DEF Same, Waiting, Unlaunched
  <2>6. disp[e].pc \in Owing => job'[First(e)].rt = job[First(e)].rt
    BY <2>5, FirstOf DEF Owing
  <2>7. \A a \in disp[e].todo : \A c \in Dispatchers \ {e} : a \notin disp'[c].todo
    BY <2>1 DEF DispatchInv
  <2> QED BY <2>1, <2>5, <2>6, <2>7 DEF DispatchInv
<1> QED BY <1>1, <1>2 DEF SafeInv

\* The dispatcher goes on to its next attempt, or has none left.
LEMMA NextKeeps ==
  ASSUME IInv, NEW d \in Dispatchers, disp[d].pc # "idle",
         DispatchNext(d) \/ disp' = [disp EXCEPT ![d] = IdleDispatcher],
         \A a \in Attempts \ {First(d)} : Same(a)
  PROVE  /\ DispatchInv(d)'
         /\ \A e \in Dispatchers \ {d} : disp'[e] = disp[e]
         /\ disp'[d].todo \subseteq disp[d].todo
<1>1. \A e \in Dispatchers \ {d} : disp'[e] = disp[e]
  BY DEF DispatchNext, IInv, TypeOK
<1>2. \/ disp'[d] = [pc |-> "idle", todo |-> {}]
      \/ /\ disp'[d] = [pc |-> "check", todo |-> disp[d].todo \ {First(d)}]
         /\ disp[d].todo \ {First(d)} # {}
  BY DEF DispatchNext, IInv, TypeOK, IdleDispatcher
<1>3. CASE disp'[d] = [pc |-> "idle", todo |-> {}]
  BY <1>1, <1>3 DEF DispatchInv, Owing
<1>4. CASE /\ disp'[d] = [pc |-> "check", todo |-> disp[d].todo \ {First(d)}]
           /\ disp[d].todo \ {First(d)} # {}
  <2>1. DispatchInv(d) /\ disp[d].todo \subseteq Attempts
    BY DEF IInv, SafeInv, TypeOK, Dispatcher
  <2>2. \A a \in disp[d].todo \ {First(d)} :
          /\ Waiting(a)' /\ job'[a].rt \notin {"none", "queued"}
          /\ \A e \in Dispatchers \ {d} : a \notin disp'[e].todo
    BY <1>1, <2>1 DEF DispatchInv, Same, Waiting, Unlaunched
  <2> QED BY <1>1, <1>4, <2>2 DEF DispatchInv, Owing
<1> QED BY <1>1, <1>2, <1>3, <1>4

\* The dispatcher takes its next step for the same attempt.
LEMMA GotoKeeps ==
  ASSUME IInv, NEW d \in Dispatchers, disp[d].pc # "idle", NEW pc, pc # "idle",
         NEW b \in Attempts, b = First(d),
         DispatchGoto(d, pc), \A a \in Attempts \ {b} : Same(a),
         job'[b].rt \notin {"none", "queued"},
         pc # "record" => Waiting(b)',
         pc \in Owing => job'[b].rt \in Closed
  PROVE  /\ DispatchInv(d)' /\ disp'[d].pc = pc /\ First(d)' = b
         /\ \A e \in Dispatchers \ {d} : disp'[e] = disp[e]
         /\ disp'[d].todo \subseteq disp[d].todo
<1>1. /\ \A e \in Dispatchers \ {d} : disp'[e] = disp[e]
      /\ disp'[d].pc = pc /\ disp'[d].todo = disp[d].todo
  BY DEF DispatchGoto, IInv, TypeOK, Dispatcher
<1>2. First(d)' = b /\ b \in disp[d].todo
  BY <1>1, FirstSame, FirstOf
<1>3. DispatchInv(d) /\ disp[d].todo \subseteq Attempts
  BY DEF IInv, SafeInv, TypeOK, Dispatcher
<1>4. \A a \in disp[d].todo \ {b} :
        Waiting(a)' /\ job'[a].rt \notin {"none", "queued"}
  BY <1>3 DEF DispatchInv, Same, Waiting, Unlaunched
<1>5. ASSUME NEW a \in disp'[d].todo
      PROVE  /\ job'[a].rt \notin {"none", "queued"}
             /\ pc # "record" \/ a # First(d)' => Waiting(a)'
             /\ \A e \in Dispatchers \ {d} : a \notin disp'[e].todo
  <2>1. CASE a = b
    BY <1>1, <1>2, <1>3, <2>1 DEF DispatchInv
  <2>2. CASE a # b
    BY <1>1, <1>3, <1>4, <2>2 DEF DispatchInv
  <2> QED BY <2>1, <2>2
<1> QED BY <1>1, <1>2, <1>3, <1>5 DEF DispatchInv

\* What a dispatcher knows of the attempt it is at.
LEMMA AtFirst ==
  ASSUME IInv, NEW d \in Dispatchers, disp[d].pc # "idle"
  PROVE  /\ First(d) \in Attempts /\ First(d) \in disp[d].todo
         /\ RunnerInv(First(d)) /\ JobInv(First(d)) /\ DebtInv(First(d))
         /\ job[First(d)].rt \notin {"none", "queued"}
         /\ disp[d].pc # "record" => Waiting(First(d))
         /\ disp[d].pc \in Owing => job[First(d)].rt \in Closed
  BY FirstOf DEF IInv, SafeInv, DispatchInv

\* A dispatcher that owes nothing takes no debt of its attempt with it.
LEMMA DebtStays ==
  ASSUME NEW d \in Dispatchers, NEW b \in Attempts, disp[d].pc \notin Owing,
         \A e \in Dispatchers \ {d} : disp'[e] = disp[e], DispatcherOwes(b)
  PROVE  DispatcherOwes(b)'
<1>1. PICK e \in Dispatchers : disp[e].pc \in Owing /\ First(e) = b
  BY DEF DispatcherOwes
<1>2. e # d
  BY <1>1
<1>3. disp'[e] = disp[e] /\ First(e)' = First(e)
  BY <1>2, FirstKept
<1>4. disp'[e].pc \in Owing /\ First(e)' = b
  BY <1>1, <1>3 DEF Owing
<1> QED BY <1>4 DEF DispatcherOwes

LEMMA DispatchCheckSafe ==
  ASSUME IInv, NEW d \in Dispatchers, DispatchCheck(d)
  PROVE  SafeInv'
<1>0. PICK b \in Attempts : b = First(d)
  BY AtFirst DEF DispatchCheck, Owing
<1>1. /\ disp[d].pc = "check"
      /\ UNCHANGED <<att, tree, run, can, sub, hold, early, torn, strays>>
  BY <1>0 DEF DispatchCheck, history
<1>2. /\ b \in Attempts /\ RunnerInv(b) /\ JobInv(b) /\ DebtInv(b) /\ Waiting(b)
      /\ job[b].rt \notin {"none", "queued"}
  BY <1>0, <1>1, AtFirst
<1>3. job \in [Attempts -> Job]
  BY DEF IInv, TypeOK
<1>4. CASE job[b].rt = "cancel_requested"
  <2>1. job' = FinishJob(b, "cancelled") /\ DispatchGoto(d, "cancelEvent")
    BY <1>0, <1>4 DEF DispatchCheck
  <2>2. /\ \A a \in Attempts \ {b} : job'[a] = job[a]
        /\ job'[b].rt = "cancelled" /\ job'[b].pid = FALSE
    BY <1>2, <1>3, <2>1, FinishMoves
  <2>3. \A a \in Attempts \ {b} : Same(a)
    BY <1>1, <2>2 DEF Same, HeldFor
  <2>4. Waiting(b)' /\ RunnerInv(b)'
    BY <1>1, <1>2, <2>2 DEF Waiting, Unlaunched, RunnerInv, WorkerAlive, NoTree, Closed
  <2>5. JobInv(b)'
    BY <1>1, <1>2, <2>2 DEF JobInv, Closed
  <2>6. /\ DispatchInv(d)' /\ disp'[d].pc = "cancelEvent" /\ First(d)' = b
        /\ \A e \in Dispatchers \ {d} : disp'[e] = disp[e]
        /\ disp'[d].todo \subseteq disp[d].todo
    BY <1>0, <1>1, <2>1, <2>2, <2>3, <2>4, GotoKeeps DEF Closed, Waiting, Unlaunched
  <2>7. DispatcherOwes(b)'
    BY <2>6 DEF DispatcherOwes, Owing
  <2>8. DebtInv(b)'
    BY <2>7 DEF DebtInv, Indebted
  <2> QED BY <1>0, <1>1, <1>2, <2>3, <2>4, <2>5, <2>6, <2>8, DispatcherMoves
<1>5. CASE job[b].rt # "cancel_requested"
  <2>1. job' = job /\ DispatchGoto(d, "spawn")
    BY <1>0, <1>5 DEF DispatchCheck
  <2>2. \A a \in Attempts : Same(a)
    BY <1>1, <2>1 DEF Same, HeldFor
  <2>3. RunnerInv(b)' /\ JobInv(b)' /\ Waiting(b)'
    BY <1>1, <1>2, <2>1, <2>2, SameKeeps DEF Waiting, Unlaunched
  <2>4. /\ DispatchInv(d)'
        /\ \A e \in Dispatchers \ {d} : disp'[e] = disp[e]
        /\ disp'[d].todo \subseteq disp[d].todo
    BY <1>0, <1>1, <1>2, <2>1, <2>2, <2>3, GotoKeeps DEF Owing, Waiting, Unlaunched
  <2>5. DebtInv(b)'
    BY <1>1, <1>2, <2>2, <2>4, DebtStays, SameDebt DEF Owing
  <2> QED BY <1>0, <1>1, <1>2, <2>2, <2>3, <2>4, <2>5, DispatcherMoves
<1> QED BY <1>4, <1>5

LEMMA SpawnSafe ==
  ASSUME IInv, NEW d \in Dispatchers, Spawn(d)
  PROVE  SafeInv'
<1>0. PICK b \in Attempts : b = First(d)
  BY AtFirst DEF Spawn, Owing
<1>1. /\ disp[d].pc = "spawn" /\ Goto(b, "boot") /\ DispatchGoto(d, "record")
      /\ UNCHANGED <<att, job, tree, can, sub, hold, early, torn, strays>>
  BY <1>0 DEF Spawn, history, stores
<1>2. /\ b \in Attempts /\ RunnerInv(b) /\ JobInv(b) /\ DebtInv(b) /\ Waiting(b)
      /\ job[b].rt \notin {"none", "queued"}
  BY <1>0, <1>1, AtFirst
<1>3. run'[b].pc = "boot" /\ \A a \in Attempts \ {b} : run'[a] = run[a]
  BY <1>1, <1>2, RunnerMoves, PcNames DEF IInv, TypeOK
<1>4. \A a \in Attempts \ {b} : Same(a)
  BY <1>1, <1>3 DEF Same, HeldFor
<1>5. RunnerInv(b)'
  BY <1>1, <1>2, <1>3 DEF Waiting, Unlaunched, RunnerInv, DelegatePcs
<1>6. JobInv(b)'
  BY <1>1, <1>2, <1>3 DEF Unlaunched, JobInv, HeldFor
<1>7. /\ DispatchInv(d)'
      /\ \A e \in Dispatchers \ {d} : disp'[e] = disp[e]
      /\ disp'[d].todo \subseteq disp[d].todo
  BY <1>0, <1>1, <1>2, <1>4, GotoKeeps DEF Owing
<1>8. DispatcherOwes(b) => DispatcherOwes(b)'
  BY <1>1, <1>2, <1>7, DebtStays DEF Owing
<1>9. DebtInv(b)'
  BY <1>1, <1>2, <1>3, <1>8 DEF DebtInv, Indebted, HeldFor, Settled, Waiting
<1> QED BY <1>0, <1>1, <1>2, <1>4, <1>5, <1>6, <1>7, <1>9, DispatcherMoves

LEMMA SpawnFailsSafe ==
  ASSUME IInv, NEW d \in Dispatchers, SpawnFails(d)
  PROVE  SafeInv'
<1>0. PICK b \in Attempts : b = First(d)
  BY AtFirst DEF SpawnFails, Owing
<1>1. /\ disp[d].pc = "spawn" /\ DispatchGoto(d, "spawnFailed")
      /\ UNCHANGED <<att, job, tree, run, can, sub, hold, early, torn, strays>>
  BY <1>0 DEF SpawnFails, history, stores
<1>2. /\ b \in Attempts /\ RunnerInv(b) /\ JobInv(b) /\ DebtInv(b) /\ Waiting(b)
      /\ job[b].rt \notin {"none", "queued"}
  BY <1>0, <1>1, AtFirst
<1>3. \A a \in Attempts : Same(a)
  BY <1>1 DEF Same, HeldFor
<1>4. RunnerInv(b)' /\ JobInv(b)' /\ Waiting(b)'
  BY <1>1, <1>2, <1>3, SameKeeps DEF Waiting, Unlaunched
<1>5. /\ DispatchInv(d)'
      /\ \A e \in Dispatchers \ {d} : disp'[e] = disp[e]
      /\ disp'[d].todo \subseteq disp[d].todo
  BY <1>0, <1>1, <1>2, <1>3, <1>4, GotoKeeps DEF Owing, Waiting, Unlaunched
<1>6. DebtInv(b)'
  BY <1>1, <1>2, <1>3, <1>5, DebtStays, SameDebt DEF Owing
<1> QED BY <1>0, <1>1, <1>2, <1>3, <1>4, <1>5, <1>6, DispatcherMoves

LEMMA RecordSafe ==
  ASSUME IInv, NEW d \in Dispatchers, Record(d)
  PROVE  SafeInv'
<1>0. PICK b \in Attempts : b = First(d)
  BY AtFirst DEF Record, Owing
<1>1. /\ disp[d].pc = "record" /\ DispatchNext(d)
      /\ job' = IF job[b].rt = "launching" THEN [job EXCEPT ![b].runner = TRUE] ELSE job
      /\ UNCHANGED <<att, tree, run, can, sub, hold, early, torn, strays>>
  BY <1>0 DEF Record, history, stores
<1>2. b \in Attempts /\ RunnerInv(b) /\ JobInv(b) /\ DebtInv(b)
  BY <1>0, <1>1, AtFirst
<1>3. /\ \A a \in Attempts \ {b} : job'[a] = job[a]
      /\ job'[b].rt = job[b].rt /\ job'[b].pid = job[b].pid
      /\ job[b].runner => job'[b].runner
  BY <1>1, <1>2 DEF IInv, TypeOK, Job
<1>4. \A a \in Attempts \ {b} : Same(a)
  BY <1>1, <1>3 DEF Same, HeldFor
<1>5. RunnerInv(b)'
  BY <1>1, <1>2, <1>3 DEF RunnerInv, Owned, Attached, Unlaunched, WorkerAlive
<1>6. JobInv(b)'
  BY <1>1, <1>2, <1>3 DEF Unlaunched, JobInv, HeldFor
<1>7. /\ DispatchInv(d)'
      /\ \A e \in Dispatchers \ {d} : disp'[e] = disp[e]
      /\ disp'[d].todo \subseteq disp[d].todo
  BY <1>0, <1>1, <1>2, <1>4, NextKeeps
<1>8. DispatcherOwes(b) => DispatcherOwes(b)'
  BY <1>1, <1>2, <1>7, DebtStays DEF Owing
<1>9. DebtInv(b)'
  BY <1>1, <1>2, <1>3, <1>8 DEF DebtInv, Indebted, HeldFor, Settled
<1> QED BY <1>0, <1>1, <1>2, <1>4, <1>5, <1>6, <1>7, <1>9, DispatcherMoves

LEMMA SpawnFailedSafe ==
  ASSUME IInv, NEW d \in Dispatchers, SpawnFailed(d)
  PROVE  SafeInv'
<1>0. PICK b \in Attempts : b = First(d)
  BY AtFirst DEF SpawnFailed, Owing
<1>1. /\ disp[d].pc = "spawnFailed" /\ DispatchGoto(d, "blockEvent")
      /\ job' = FinishJob(b, "interrupted")
      /\ UNCHANGED <<att, tree, run, can, sub, hold, early, torn, strays>>
  BY <1>0 DEF SpawnFailed, history
<1>2. /\ b \in Attempts /\ RunnerInv(b) /\ JobInv(b) /\ DebtInv(b) /\ Waiting(b)
      /\ job[b].rt \notin {"none", "queued"}
  BY <1>0, <1>1, AtFirst
<1>3. /\ \A a \in Attempts \ {b} : job'[a] = job[a]
      /\ job'[b].rt = "interrupted" /\ job'[b].pid = FALSE
  BY <1>1, <1>2, FinishMoves DEF IInv, TypeOK
<1>4. \A a \in Attempts \ {b} : Same(a)
  BY <1>1, <1>3 DEF Same, HeldFor
<1>5. Waiting(b)' /\ RunnerInv(b)'
  BY <1>1, <1>2, <1>3 DEF Waiting, Unlaunched, RunnerInv, Closed
<1>6. JobInv(b)'
  BY <1>1, <1>2, <1>3 DEF JobInv, Closed
<1>7. /\ DispatchInv(d)' /\ disp'[d].pc = "blockEvent" /\ First(d)' = b
      /\ \A e \in Dispatchers \ {d} : disp'[e] = disp[e]
      /\ disp'[d].todo \subseteq disp[d].todo
  BY <1>0, <1>1, <1>2, <1>3, <1>4, <1>5, GotoKeeps DEF Closed, Waiting, Unlaunched
<1>8. DispatcherOwes(b)'
  BY <1>7 DEF DispatcherOwes, Owing
<1>9. DebtInv(b)'
  BY <1>8 DEF DebtInv, Indebted
<1> QED BY <1>0, <1>1, <1>2, <1>4, <1>5, <1>6, <1>7, <1>9, DispatcherMoves

LEMMA DispatchEventSafe ==
  ASSUME IInv, NEW d \in Dispatchers, DispatchEvent(d)
  PROVE  SafeInv'
<1>0. PICK b \in Attempts : b = First(d)
  BY AtFirst DEF DispatchEvent, Owing
<1> DEFINE to == IF disp[d].pc = "cancelEvent" THEN "cancelled" ELSE "blocked"
<1>1. /\ disp[d].pc \in Owing /\ att' = Appended(b, to, "other")
      /\ DispatchNext(d) \/ disp' = [disp EXCEPT ![d] = IdleDispatcher]
      /\ UNCHANGED <<job, tree, run, can, sub, hold, early, torn, strays>>
  BY <1>0 DEF DispatchEvent, history, Owing
<1>2. /\ b \in Attempts /\ RunnerInv(b) /\ JobInv(b) /\ DebtInv(b) /\ Waiting(b)
      /\ job[b].rt \in Closed /\ disp[d].pc # "idle"
  BY <1>0, <1>1, AtFirst DEF Owing
<1>3. to \in {"failed", "cancelled", "blocked", "timed_out"} /\ to \in Statuses
      /\ "other" \in Reasons
  BY StatusNames DEF Reasons
<1>4. att \in [Attempts -> Lifecycle] /\ att[b].st # "none"
  BY <1>2 DEF IInv, TypeOK, JobInv, Closed
<1> HIDE DEF to
<1>5. /\ \A a \in Attempts \ {b} : att'[a] = att[a]
      /\ att'[b].st = IF Accepts(b, to, "other") THEN to ELSE att[b].st
  BY <1>1, <1>2, <1>3, <1>4, AppendMoves
<1>6. Settled(b)' /\ att'[b].st # "none"
  BY <1>2, <1>3, <1>4, <1>5, EndSettles DEF Settled, Terminal
<1>7. \A a \in Attempts \ {b} : Same(a)
  BY <1>1, <1>5 DEF Same, HeldFor
<1>8. RunnerInv(b)'
  BY <1>1, <1>2 DEF RunnerInv, Owned, Attached, Unlaunched, WorkerAlive
<1>9. JobInv(b)'
  BY <1>1, <1>2, <1>6 DEF JobInv, Unlaunched, HeldFor, Closed
<1>10. DebtInv(b)'
  BY <1>6 DEF DebtInv
<1>11. /\ DispatchInv(d)'
       /\ \A e \in Dispatchers \ {d} : disp'[e] = disp[e]
       /\ disp'[d].todo \subseteq disp[d].todo
  BY <1>0, <1>1, <1>2, <1>7, NextKeeps
<1> QED BY <1>0, <1>2, <1>7, <1>8, <1>9, <1>10, <1>11, DispatcherMoves

LEMMA KillDispatcherSafe ==
  ASSUME IInv, NEW d \in Dispatchers, KillDispatcher(d)
  PROVE  SafeInv'
<1>0. PICK b \in Attempts : b = First(d)
  BY AtFirst DEF KillDispatcher, Owing
<1>1. /\ disp[d].pc # "idle" /\ disp' = [disp EXCEPT ![d] = IdleDispatcher]
      /\ torn' = IF disp[d].pc \in Owing THEN torn \cup {b} ELSE torn
      /\ UNCHANGED <<att, job, tree, run, can, sub, hold, early, strays>>
  BY <1>0 DEF KillDispatcher, stores, Owing
<1>2. b \in Attempts /\ RunnerInv(b) /\ JobInv(b) /\ DebtInv(b)
  BY <1>0, <1>1, AtFirst
<1>3. /\ \A e \in Dispatchers \ {d} : disp'[e] = disp[e]
      /\ disp'[d] = [pc |-> "idle", todo |-> {}]
  BY <1>1 DEF IInv, TypeOK, IdleDispatcher
<1>4. \A a \in Attempts : Same(a)
  BY <1>1 DEF Same, HeldFor
<1>5. RunnerInv(b)' /\ JobInv(b)'
  BY <1>2, <1>4, SameKeeps
<1>6. DispatchInv(d)' /\ disp'[d].todo \subseteq disp[d].todo
  BY <1>3 DEF DispatchInv, Owing
<1>7. DebtInv(b)'
  <2>1. CASE disp[d].pc \in Owing
    BY <1>1, <2>1 DEF DebtInv
  <2>2. CASE disp[d].pc \notin Owing
    BY <1>2, <1>3, <1>4, <2>2, DebtStays, SameDebt
  <2> QED BY <2>1, <2>2
<1> QED BY <1>0, <1>1, <1>2, <1>3, <1>4, <1>5, <1>6, <1>7, DispatcherMoves

LEMMA HeldEventSafe ==
  ASSUME IInv, HeldEvent
  PROVE  SafeInv'
<1>0. PICK b \in Attempts : b = hold.of
  BY DEF HeldEvent, IInv, TypeOK, Holds
<1> DEFINE why == IF hold.to = "failed" THEN "mismatch" ELSE "other"
<1>1. /\ hold # Free /\ hold' = Free
      /\ UNCHANGED <<job, tree, run, disp, can, sub, early, torn, strays>>
  BY <1>0 DEF HeldEvent, history
<1>2. b \in Attempts /\ hold.to \in {"cancelled", "blocked", "failed"}
  BY <1>0, <1>1 DEF IInv, TypeOK, Holds
<1>3. /\ RunnerInv(b) /\ JobInv(b) /\ DebtInv(b) /\ HeldFor(b)
      /\ job[b].rt \in Closed /\ att[b].st # "none"
  BY <1>0, <1>1 DEF IInv, SafeInv, JobInv, HeldFor, Closed
<1>4. why \in Reasons /\ hold.to \in Statuses /\ att \in [Attempts -> Lifecycle]
  BY <1>2, StatusNames DEF Reasons, IInv, TypeOK
<1>5. att' = Appended(b, hold.to, why) => Settled(b)' /\ \A a \in Attempts \ {b} : att'[a] = att[a]
  <2> HIDE DEF why
  <2> HAVE att' = Appended(b, hold.to, why)
  <2>1. /\ \A a \in Attempts \ {b} : att'[a] = att[a]
        /\ att'[b].st = IF Accepts(b, hold.to, why) THEN hold.to ELSE att[b].st
    BY <1>2, <1>4, AppendMoves
  <2>2. Settled(b)'
    BY <1>2, <1>3, <1>4, <2>1, EndSettles DEF Settled, Terminal
  <2> QED BY <2>1, <2>2
<1>6. att' = att /\ ~(att[b].st \in Live /\ (att[b].st # "blocked" \/ hold.to = "failed"))
        => Settled(b)'
  <2>1. att[b].st \in Statuses
    BY <1>2, <1>4 DEF Lifecycle
  <2> QED BY <1>3, <2>1 DEF Settled, Statuses
<1>7. Settled(b)' /\ \A a \in Attempts \ {b} : att'[a] = att[a]
  BY <1>0, <1>5, <1>6 DEF HeldEvent
<1>8. att'[b].st # "none"
  BY <1>7 DEF Settled, Terminal
<1>9. \A a \in Attempts \ {b} : Same(a)
  BY <1>0, <1>1, <1>7 DEF Same, HeldFor
<1>10. RunnerInv(b)'
  BY <1>1, <1>3 DEF RunnerInv, Owned, Attached, Unlaunched, WorkerAlive
<1>11. JobInv(b)'
  BY <1>1, <1>3, <1>8 DEF JobInv, Unlaunched, HeldFor, Closed
<1>12. DebtInv(b)'
  BY <1>7 DEF DebtInv
<1>13. Kept(b)
  BY <1>1 DEF Kept, Waiting, Unlaunched
<1> QED BY <1>2, <1>9, <1>10, <1>11, <1>12, <1>13, OneMoves

LEMMA KillHolderSafe ==
  ASSUME IInv, KillHolder
  PROVE  SafeInv'
<1>0. PICK b \in Attempts : b = hold.of
  BY DEF KillHolder, IInv, TypeOK, Holds
<1>1. /\ hold # Free /\ hold' = Free /\ torn' = torn \cup {b}
      /\ UNCHANGED <<att, job, tree, run, disp, can, sub, early, strays>>
  BY <1>0 DEF KillHolder, stores
<1>2. b \in Attempts
  BY <1>0
<1>3. RunnerInv(b) /\ JobInv(b)
  BY <1>2 DEF IInv, SafeInv
<1>4. \A a \in Attempts \ {b} : Same(a)
  BY <1>0, <1>1 DEF Same, HeldFor
<1>5. RunnerInv(b)'
  BY <1>1, <1>3 DEF RunnerInv, Owned, Attached, Unlaunched, WorkerAlive
<1>6. JobInv(b)'
  BY <1>1, <1>3 DEF JobInv, Unlaunched, HeldFor, Closed
<1>7. DebtInv(b)'
  BY <1>1 DEF DebtInv
<1>8. Kept(b)
  BY <1>1 DEF Kept, Waiting, Unlaunched
<1> QED BY <1>2, <1>4, <1>5, <1>6, <1>7, <1>8, OneMoves

LEMMA CompactSafe ==
  ASSUME IInv, NEW D \in SUBSET Attempts, Compact(D)
  PROVE  SafeInv'
<1>1. /\ UNCHANGED <<job, tree, run, disp, can, sub, hold, early, torn, strays>>
      /\ \A a \in D : att[a].st \in Terminal /\ att'[a].st = "dropped"
      /\ \A a \in Attempts \ D : att'[a] = att[a]
  <2>1. UNCHANGED <<job, tree, run, disp, can, sub, hold, early, torn, strays>>
    BY DEF Compact, procs, history
  <2>2. \A a \in D : att[a].st \in Terminal
    BY DEF Compact
  <2>3. att' = [a \in Attempts |-> IF a \in D THEN [att[a] EXCEPT !.st = "dropped"]
                                   ELSE att[a]]
    BY DEF Compact
  <2>4. \A a \in Attempts : att[a] \in Lifecycle
    BY DEF IInv, TypeOK
  <2> QED BY <2>1, <2>2, <2>3, <2>4 DEF Lifecycle
<1>2. ASSUME NEW a \in Attempts PROVE RunnerInv(a)' /\ JobInv(a)' /\ DebtInv(a)'
  <2>1. RunnerInv(a) /\ JobInv(a) /\ DebtInv(a)
    BY DEF IInv, SafeInv
  <2>2. CASE a \notin D
    <3>1. Same(a)
      BY <1>1, <2>2 DEF Same, HeldFor
    <3> QED BY <1>1, <2>1, <3>1, SameKeeps, SameDebt, OwesKept
  <2>3. CASE a \in D
    <3>1. RunnerInv(a)'
      BY <1>1, <2>1 DEF RunnerInv, Owned, Attached, Unlaunched, WorkerAlive
    <3>2. JobInv(a)'
      BY <1>1, <2>1, <2>3 DEF JobInv, Unlaunched, HeldFor, Terminal
    <3>3. DebtInv(a)'
      BY <1>1, <2>3 DEF DebtInv, Settled
    <3> QED BY <3>1, <3>2, <3>3
  <2> QED BY <2>2, <2>3
<1>3. ASSUME NEW d \in Dispatchers PROVE DispatchInv(d)'
  <2>1. First(d)' = First(d) /\ DispatchInv(d)
    BY <1>1, FirstKept DEF IInv, SafeInv
  <2> QED BY <1>1, <2>1 DEF DispatchInv, Waiting, Unlaunched
<1> QED BY <1>2, <1>3 DEF SafeInv

LEMMA ReserveSafe ==
  ASSUME IInv, NEW d \in Dispatchers, NEW n, Reserve(d, n)
  PROVE  SafeInv'
<1>1. PICK S \in SUBSET Attempts :
        /\ S # {} /\ Reservation(S, n)
        /\ job' = [a \in Attempts |-> IF a \in S THEN [job[a] EXCEPT !.rt = "launching"]
                                     ELSE job[a]]
        /\ disp' = [disp EXCEPT ![d] = [pc |-> "check", todo |-> S]]
  BY DEF Reserve
<1>2. /\ disp[d].pc = "idle"
      /\ UNCHANGED <<att, tree, run, can, sub, hold, early, torn, strays>>
  BY DEF Reserve, history
<1>3. \A a \in S : a \in Attempts /\ job[a].rt = "queued"
  BY <1>1 DEF Reservation
<1>4. \A a \in S : job'[a].rt = "launching" /\ job'[a].pid = job[a].pid
  <2>1. \A a \in Attempts : job[a] \in Job
    BY DEF IInv, TypeOK
  <2> QED BY <1>1, <1>3, <2>1 DEF Job
<1>5. \A a \in Attempts \ S : Same(a)
  BY <1>1, <1>2 DEF Same, HeldFor
<1>6. /\ \A e \in Dispatchers \ {d} : disp'[e] = disp[e]
      /\ disp'[d].pc = "check" /\ disp'[d].todo = S
  BY <1>1 DEF IInv, TypeOK
<1>7. ASSUME NEW a \in Attempts PROVE RunnerInv(a)' /\ JobInv(a)' /\ DebtInv(a)'
  <2>1. RunnerInv(a) /\ JobInv(a) /\ DebtInv(a)
    BY DEF IInv, SafeInv
  <2>2. CASE a \notin S
    <3>1. DispatcherOwes(a) => DispatcherOwes(a)'
      BY <1>2, <1>6, DebtStays DEF Owing
    <3> QED BY <1>5, <2>1, <2>2, <3>1, SameKeeps, SameDebt
  <2>3. CASE a \in S
    <3>1. RunnerInv(a)'
      BY <1>2, <1>3, <1>4, <2>1, <2>3
         DEF RunnerInv, JobInv, Unlaunched, WorkerAlive, NoTree, DelegatePcs
    <3>2. JobInv(a)'
      BY <1>2, <1>3, <1>4, <2>1, <2>3 DEF JobInv, Unlaunched, HeldFor, Closed
    <3>3. DebtInv(a)'
      BY <1>4, <2>3 DEF DebtInv, Closed
    <3> QED BY <3>1, <3>2, <3>3
  <2> QED BY <2>2, <2>3
<1>8. ASSUME NEW e \in Dispatchers \ {d} PROVE DispatchInv(e)' /\ disp'[e].todo \cap S = {}
  <2>1. First(e)' = First(e) /\ DispatchInv(e) /\ disp'[e] = disp[e]
        /\ disp[e].todo \subseteq Attempts
    BY <1>6, FirstKept DEF IInv, SafeInv, TypeOK, Dispatcher
  <2>2. disp[e].todo \cap S = {}
    BY <1>3, <2>1 DEF DispatchInv
  <2>3. \A a \in disp[e].todo : Same(a)
    BY <1>5, <2>1, <2>2
  <2>4. \A a \in disp[e].todo : (Waiting(a) => Waiting(a)') /\ job'[a].rt = job[a].rt
    BY <2>3 DEF Same, Waiting, Unlaunched
  <2>5. disp[e].pc \in Owing => job'[First(e)].rt = job[First(e)].rt
    BY <2>4, FirstOf DEF Owing
  <2>6. \A a \in disp[e].todo : \A c \in Dispatchers \ {e} : a \notin disp'[c].todo
    BY <1>6, <2>1, <2>2 DEF DispatchInv
  <2> QED BY <2>1, <2>2, <2>4, <2>5, <2>6 DEF DispatchInv
<1>9. DispatchInv(d)'
  <2>1. ASSUME NEW a \in S
        PROVE  /\ job'[a].rt \notin {"none", "queued"} /\ Waiting(a)'
               /\ \A e \in Dispatchers \ {d} : a \notin disp'[e].todo
    <3>1. JobInv(a)
      BY <1>3 DEF IInv, SafeInv
    <3>2. Waiting(a)'
      BY <1>2, <1>3, <1>4, <3>1 DEF JobInv, Waiting, Unlaunched, SafeInv
    <3> QED BY <1>4, <1>8, <3>2
  <2>2. S # {}
    BY <1>1
  <2> QED BY <1>6, <2>1, <2>2 DEF DispatchInv, Owing
<1> QED BY <1>7, <1>8, <1>9 DEF SafeInv

-----------------------------------------------------------------------------
(* The inductive invariant, and what follows from it. *)

LEMMA InitSafe == Init => IInv
<1> HAVE Init
<1>1. (CHOOSE t \in Tools : TRUE) \in Tools
  BY ToolsAssumption
<1>2. /\ att \in [Attempts -> Lifecycle]
      /\ \A a \in Attempts : att[a].st = "none"
  <2>1. 0 \in 0..MaxAttempts
    BY AttemptsAssumption
  <2> QED BY <1>1, <2>1, StatusNames DEF Init, Lifecycle, Reasons
<1>3. /\ job \in [Attempts -> Job] /\ \A a \in Attempts : job[a] = NoJob
  BY JobStateNames DEF Init, NoJob, Job
<1>4. /\ tree \in [Attempts -> Tree] /\ \A a \in Attempts : tree[a] = NoTree
  BY DEF Init, NoTree, Tree
<1>5. /\ run \in [Attempts -> Runner] /\ \A a \in Attempts : run[a] = NoRunner
  BY PcNames DEF Init, NoRunner, Runner, Cuts
<1>6. /\ disp \in [Dispatchers -> Dispatcher]
      /\ \A d \in Dispatchers : disp[d] = IdleDispatcher
  BY DEF Init, IdleDispatcher, Dispatcher, DispatcherPcs
<1>7. TypeOK
  <2>1. /\ can \in [Attempts -> {"none", "signal", "event"}]
        /\ sub \in [Attempts -> {"none", "publish", "fail"}]
        /\ hold \in Holds \cup {Free}
    BY DEF Init
  <2>2. 0 \in 0..MaxFaults
    BY AttemptsAssumption
  <2>3. faults = 0 /\ early = {} /\ torn = {} /\ strays = {}
    BY DEF Init
  <2> QED BY <1>2, <1>3, <1>4, <1>5, <1>6, <2>1, <2>2, <2>3 DEF TypeOK
<1>8. ASSUME NEW a \in Attempts PROVE RunnerInv(a) /\ JobInv(a) /\ DebtInv(a)
  <2>1. /\ att[a].st = "none" /\ job[a] = NoJob /\ tree[a] = NoTree /\ run[a] = NoRunner
        /\ can[a] = "none" /\ sub[a] = "none" /\ hold = Free /\ early = {}
    BY <1>2, <1>3, <1>4, <1>5 DEF Init
  <2>2. RunnerInv(a)
    BY <2>1 DEF RunnerInv, NoRunner, NoTree, NoJob, DelegatePcs, WorkerAlive
  <2>3. JobInv(a)
    BY <2>1 DEF JobInv, NoRunner, NoJob, HeldFor
  <2>4. DebtInv(a)
    BY <2>1 DEF DebtInv, NoJob, Closed
  <2> QED BY <2>2, <2>3, <2>4
<1>9. ASSUME NEW d \in Dispatchers PROVE DispatchInv(d)
  BY <1>6 DEF DispatchInv, IdleDispatcher, Owing
<1> QED BY <1>7, <1>8, <1>9 DEF IInv, SafeInv

LEMMA AttemptSafe ==
  ASSUME IInv, NEW a \in Attempts,
         \/ Submit(a) \/ DelegateOpen(a) \/ \E p \in Attempts : Resume(a, p)
         \/ Runs(a) \/ Commands(a) \/ Reconciles(a)
         \/ CancelQueued(a) \/ CancelReserved(a)
         \/ \E to \in {"done", "failed", "abandoned", "cancelled"} : OwnerMoves(a, to)
         \/ GcRuntime(a) \/ WorkerExits(a) \/ KidsExit(a)
         \/ PublishFails(a) \/ LaunchFails(a) \/ RunnerError(a)
         \/ \E reached \in {"working", "verifying"} : DelegateRecoverTorn(a, reached)
         \/ PidReused(a) \/ KillRunner(a) \/ KillCommand(a)
  PROVE  SafeInv'
<1>1. CASE Runs(a)
  BY <1>1, RunnerBootSafe, RunnerFirstEventSafe, LaunchSafe, LaunchFailedSafe, EnrolSafe,
     RunnerEventSafe, WatchSafe, StopTreeSafe, CloseJobSafe, SettleSafe, AbortSafe,
     AbortJobSafe, AbortEventSafe, DelegateEventSafe, DelegateRecoverSafe DEF Runs
<1>2. CASE Commands(a)
  BY <1>2, PublishSafe, SubmitIncompleteSafe, CancelSignalSafe, CancelEventSafe DEF Commands
<1>3. CASE Reconciles(a)
  BY <1>3, RecOrphanSafe, RecJobSafe, HeartbeatExpiresSafe DEF Reconciles
<1>4. CASE Submit(a) \/ DelegateOpen(a) \/ \E p \in Attempts : Resume(a, p)
  BY <1>4, SubmitSafe, DelegateOpenSafe, ResumeSafe
<1>5. CASE \/ CancelQueued(a) \/ CancelReserved(a)
           \/ \E to \in {"done", "failed", "abandoned", "cancelled"} : OwnerMoves(a, to)
  BY <1>5, CancelQueuedSafe, CancelReservedSafe, OwnerMovesSafe
<1>6. CASE \/ GcRuntime(a) \/ WorkerExits(a) \/ KidsExit(a)
           \/ PublishFails(a) \/ LaunchFails(a) \/ RunnerError(a)
  BY <1>6, GcRuntimeSafe, WorkerExitsSafe, KidsExitSafe, PublishFailsSafe, LaunchFailsSafe,
     RunnerErrorSafe
<1>7. CASE \/ \E reached \in {"working", "verifying"} : DelegateRecoverTorn(a, reached)
           \/ PidReused(a) \/ KillRunner(a) \/ KillCommand(a)
  BY <1>7, DelegateRecoverTornSafe, PidReusedSafe, KillRunnerSafe, KillCommandSafe
<1> QED BY <1>1, <1>2, <1>3, <1>4, <1>5, <1>6, <1>7

LEMMA StutterSafe == IInv /\ UNCHANGED vars => IInv'
<1> SUFFICES ASSUME IInv, UNCHANGED vars PROVE IInv'
  OBVIOUS
<1>1. UNCHANGED <<att, job, tree, run, disp, can, sub, hold, faults, limits, early, torn, strays>>
  BY DEF vars, stores, procs, bounds, history
<1>2. TypeOK'
  BY <1>1 DEF IInv, TypeOK
<1>3. \A a \in Attempts : Same(a)
  BY <1>1 DEF Same, HeldFor
<1>4. \A a \in Attempts : RunnerInv(a)' /\ JobInv(a)' /\ DebtInv(a)'
  BY <1>1, <1>3, SameKeeps, SameDebt, OwesKept DEF IInv, SafeInv
<1>5. ASSUME NEW d \in Dispatchers PROVE DispatchInv(d)'
  <2>1. First(d)' = First(d) /\ DispatchInv(d)
    BY <1>1, FirstKept DEF IInv, SafeInv
  <2> QED BY <1>1, <2>1 DEF DispatchInv, Waiting, Unlaunched
<1> QED BY <1>2, <1>4, <1>5 DEF IInv, SafeInv

LEMMA NextSafe == IInv /\ [Next]_vars => IInv'
<1> SUFFICES ASSUME IInv, Next PROVE IInv'
  BY StutterSafe
<1>1. TypeOK'
  BY TypeStep DEF IInv, SafeInv, DispatchInv
<1>2. SafeInv'
  <2>1. CASE HeldEvent \/ KillHolder \/ \E D \in SUBSET Attempts : Compact(D)
    BY <2>1, HeldEventSafe, KillHolderSafe, CompactSafe
  <2>2. ASSUME NEW d \in Dispatchers,
               \/ \E n \in 1..MaxAttempts : Reserve(d, n)
               \/ Dispatches(d) \/ SpawnFails(d) \/ KillDispatcher(d)
        PROVE  SafeInv'
    BY <2>2, ReserveSafe, DispatchCheckSafe, SpawnSafe, RecordSafe, SpawnFailedSafe,
       DispatchEventSafe, SpawnFailsSafe, KillDispatcherSafe DEF Dispatches
  <2>3. CASE \E d \in Dispatchers :
               \/ \E n \in 1..MaxAttempts : Reserve(d, n)
               \/ Dispatches(d) \/ SpawnFails(d) \/ KillDispatcher(d)
    BY <2>2, <2>3
  <2>4. CASE ~ \E d \in Dispatchers :
               \/ \E n \in 1..MaxAttempts : Reserve(d, n)
               \/ Dispatches(d) \/ SpawnFails(d) \/ KillDispatcher(d)
    <3>1. CASE ~(HeldEvent \/ KillHolder \/ \E D \in SUBSET Attempts : Compact(D))
      BY <2>4, <3>1, AttemptSafe DEF Next
    <3> QED BY <2>1, <3>1
  <2> QED BY <2>3, <2>4
<1> QED BY <1>1, <1>2 DEF IInv

\* Every reachable state satisfies the inductive invariant.
THEOREM InvariantCorrect == Spec => []IInv
<1> QED BY InitSafe, NextSafe, PTL DEF Spec

\* Every variable keeps its type.
THEOREM AttemptTypeCorrect == Spec => []TypeOK
<1>1. IInv => TypeOK
  BY DEF IInv
<1> QED BY <1>1, InvariantCorrect, PTL

\* A job recorded as finished or cancelled has left no member of its worker's
\* group alive, whoever closed it and whoever died on the way.
THEOREM ClosedMeansStoppedCorrect == Spec => []ClosedMeansStopped
<1>1. ASSUME IInv, NEW a \in Attempts \ strays, job[a].rt \in {"finished", "cancelled"}
      PROVE  ~WorkerAlive(a)
  <2>1. RunnerInv(a) /\ JobInv(a) /\ run[a].pc \in Pcs
    BY <1>1 DEF IInv, SafeInv, TypeOK, Runner
  <2>2. job[a].rt \in Closed /\ ~job[a].pid
    BY <1>1, <2>1 DEF Closed, JobInv
  <2>3. CASE run[a].pc = "none"
    BY <1>1, <2>1, <2>2, <2>3 DEF RunnerInv, Reserved
  <2>4. CASE run[a].pc # "none"
    <3>1. tree[a] = Stopped \/ Unlaunched(a) => ~WorkerAlive(a)
      BY DEF Stopped, Unlaunched, NoTree, WorkerAlive
    <3> QED BY <1>1, <2>1, <2>2, <2>4, <3>1
            DEF RunnerInv, Pcs, RunnerPcs, DelegatePcs, Owned
  <2> QED BY <2>3, <2>4
<1>2. IInv => ClosedMeansStopped
  BY <1>1 DEF ClosedMeansStopped
<1> QED BY <1>2, InvariantCorrect, PTL

\* No command is launched for an attempt whose cancellation was accepted before
\* its runner began.
THEOREM CancelBeforeStartCorrect == Spec => []CancelBeforeStart
<1>1. IInv => CancelBeforeStart
  BY DEF IInv, SafeInv, TypeOK, JobInv, CancelBeforeStart
<1> QED BY <1>1, InvariantCorrect, PTL

\* Once nobody works on an attempt and its job is closed, its lifecycle is
\* settled, unless a process died between the job and the event it owed.
THEOREM AgreesWhenQuietCorrect == Spec => []AgreesWhenQuiet
<1>1. ASSUME IInv, NEW a \in Attempts \ torn, Idle(a), job[a].rt \in Closed
      PROVE  Settled(a)
  <2>1. run[a].pc = "none" /\ can[a] = "none" /\ ~HeldFor(a)
    BY <1>1 DEF Idle, RunnerAlive, HeldFor
  <2>2. ~DispatcherOwes(a)
    BY <1>1, FirstOf DEF Idle, DispatcherOwes, Owing
  <2>3. DebtInv(a)
    BY <1>1 DEF IInv, SafeInv
  <2> QED BY <1>1, <2>1, <2>2, <2>3 DEF DebtInv, Indebted
<1>2. IInv => AgreesWhenQuiet
  BY <1>1 DEF AgreesWhenQuiet, Settled
<1> QED BY <1>2, InvariantCorrect, PTL

-----------------------------------------------------------------------------
(* A terminal attempt never lives again. *)

Final == \A a \in Attempts :
  att[a].st \in Terminal \cup {"dropped"} => att'[a].st \in {att[a].st, "dropped"}

LEMMA KeptIsFinal == att' = att => Final
  BY DEF Final

LEMMA AppendIsFinal ==
  ASSUME att \in [Attempts -> Lifecycle], NEW a \in Attempts, NEW to \in Statuses,
         NEW why \in Reasons, att' = Appended(a, to, why)
  PROVE  Final
<1>1. ASSUME NEW b \in Attempts, att[b].st \in Terminal \cup {"dropped"}
      PROVE  att'[b].st \in {att[b].st, "dropped"}
  <2>1. CASE b # a
    BY <2>1, AppendMoves
  <2>2. CASE b = a
    <3>1. att[a].st \notin Live
      BY <1>1, <2>2, LiveIs DEF Terminal
    <3>2. Accepts(a, to, why) => to = att[a].st
      BY <3>1, AcceptsMeans
    <3> QED BY <2>2, <3>2, AppendMoves
  <2> QED BY <2>1, <2>2
<1> QED BY <1>1 DEF Final

LEMMA CreateIsFinal ==
  ASSUME att \in [Attempts -> Lifecycle], NEW a \in Attempts, NEW tool,
         NEW parent \in 0..MaxAttempts, Create(a, tool, parent)
  PROVE  Final
<1>1. "none" \notin Terminal \cup {"dropped"}
  BY DEF Terminal
<1> QED BY <1>1, CreateIs DEF Final

LEMMA RunsFinal ==
  ASSUME IInv, NEW a \in Attempts, Runs(a)
  PROVE  Final
<1>1. att \in [Attempts -> Lifecycle] /\ run \in [Attempts -> Runner] /\ "other" \in Reasons
  BY DEF IInv, TypeOK, Reasons
<1>2. CASE \/ RunnerBoot(a) \/ Launch(a) \/ LaunchFailed(a) \/ Enrol(a) \/ Watch(a)
           \/ StopTree(a) \/ CloseJob(a) \/ Abort(a) \/ AbortJob(a)
  <2>1. att' = att
    BY <1>2 DEF RunnerBoot, Launch, LaunchFailed, Enrol, Watch, StopTree, CloseJob, Abort,
       AbortJob, stores
  <2> QED BY <2>1, KeptIsFinal
<1>3. CASE RunnerFirstEvent(a)
  <2>1. \E to \in {"cancelled", "starting", "failed"} : att' = Appended(a, to, "other")
    BY <1>3 DEF RunnerFirstEvent
  <2> QED BY <1>1, <2>1, StatusNames, AppendIsFinal
<1>4. CASE RunnerEvent(a)
  <2>1. \E to \in {"working", "verifying", "review", "done"} : att' = Appended(a, to, "other")
    BY <1>4 DEF RunnerEvent
  <2> QED BY <1>1, <2>1, StatusNames, AppendIsFinal
<1>5. CASE Settle(a)
  <2>1. \/ att' = att
        \/ \E to \in {"failed", "timed_out", "cancelled"}, why \in {"mismatch", "other"} :
             att' = Appended(a, to, why)
    <3>1. run[a].cut \in Cuts
      BY <1>1 DEF Runner
    <3>2. run[a].cut \notin {"none", "mismatch"} => run[a].cut \in {"timed_out", "cancelled"}
      BY <3>1 DEF Cuts
    <3> QED BY <1>5, <3>2 DEF Settle
  <2>2. {"mismatch", "other"} \subseteq Reasons
    BY DEF Reasons
  <2> QED BY <1>1, <2>1, <2>2, StatusNames, AppendIsFinal, KeptIsFinal
<1>6. CASE AbortEvent(a)
  BY <1>1, <1>6, StatusNames, AppendIsFinal DEF AbortEvent
<1>7. CASE DelegateEvent(a)
  <2>1. \/ att' = att
        \/ \E to \in {"starting", "working", "verifying", "failed", "review"} :
             att' = Appended(a, to, "other")
    <3>1. PICK to \in {"starting", "working", "verifying", "failed", "review"} :
            IF Accepts(a, to, "other") THEN att' = Appended(a, to, "other")
            ELSE IF to = "review" THEN att' = att
            ELSE att' = IF to = "verifying" THEN Appended(a, "failed", "other") ELSE att
      BY <1>7 DEF DelegateEvent
    <3> QED BY <3>1
  <2> QED BY <1>1, <2>1, StatusNames, AppendIsFinal, KeptIsFinal
<1>8. CASE DelegateRecover(a)
  <2>1. CASE att[a].st = "blocked" /\ att[a].why = "expired"
    <3>1. att' = [att EXCEPT ![a].st = "review", ![a].why = "other"]
      BY <1>8, <2>1 DEF DelegateRecover
    <3>2. \A b \in Attempts \ {a} : att'[b] = att[b]
      BY <1>1, <3>1
    <3> QED BY <2>1, <3>2 DEF Final, Terminal
  <2>2. CASE ~(att[a].st = "blocked" /\ att[a].why = "expired")
    BY <1>1, <1>8, <2>2, StatusNames, AppendIsFinal DEF DelegateRecover
  <2> QED BY <2>1, <2>2
<1> QED BY <1>2, <1>3, <1>4, <1>5, <1>6, <1>7, <1>8 DEF Runs

LEMMA CommandsFinal ==
  ASSUME IInv, NEW a \in Attempts, Commands(a) \/ Reconciles(a)
  PROVE  Final
<1>1. att \in [Attempts -> Lifecycle] /\ {"other", "mismatch", "expired"} \subseteq Reasons
  BY DEF IInv, TypeOK, Reasons
<1>2. \/ att' = att
      \/ \E to \in {"blocked", "failed"}, why \in {"other", "mismatch", "expired"} :
           att' = Appended(a, to, why)
  BY DEF Commands, Publish, SubmitIncomplete, CancelSignal, CancelEvent, Reconciles, RecOrphan,
     RecJob, HeartbeatExpires
<1> QED BY <1>1, <1>2, StatusNames, AppendIsFinal, KeptIsFinal

LEMMA AttemptFinal ==
  ASSUME IInv, NEW a \in Attempts,
         \/ Submit(a) \/ DelegateOpen(a) \/ \E p \in Attempts : Resume(a, p)
         \/ Runs(a) \/ Commands(a) \/ Reconciles(a)
         \/ CancelQueued(a) \/ CancelReserved(a)
         \/ \E to \in {"done", "failed", "abandoned", "cancelled"} : OwnerMoves(a, to)
         \/ GcRuntime(a) \/ WorkerExits(a) \/ KidsExit(a)
         \/ PublishFails(a) \/ LaunchFails(a) \/ RunnerError(a)
         \/ \E reached \in {"working", "verifying"} : DelegateRecoverTorn(a, reached)
         \/ PidReused(a) \/ KillRunner(a) \/ KillCommand(a)
  PROVE  Final
<1>1. att \in [Attempts -> Lifecycle] /\ "other" \in Reasons
  BY DEF IInv, TypeOK, Reasons
<1>2. CASE Submit(a) \/ DelegateOpen(a) \/ \E p \in Attempts : Resume(a, p)
  <2>1. 0 \in 0..MaxAttempts /\ Attempts \subseteq 0..MaxAttempts
    BY AttemptsAssumption DEF Attempts
  <2>2. \/ Create(a, "agent-supervisor", 0) \/ Create(a, "peer-delegate", 0)
        \/ \E p \in Attempts : Create(a, "agent-supervisor", p)
    BY <1>2 DEF Submit, DelegateOpen, Resume
  <2> QED BY <1>1, <2>1, <2>2, CreateIsFinal
<1>3. CASE \E to \in {"done", "failed", "abandoned", "cancelled"} : OwnerMoves(a, to)
  BY <1>1, <1>3, StatusNames, AppendIsFinal DEF OwnerMoves
<1>4. CASE \E reached \in {"working", "verifying"} : DelegateRecoverTorn(a, reached)
  <2>1. att[a].st = "blocked" /\ \A b \in Attempts \ {a} : att'[b] = att[b]
    BY <1>1, <1>4 DEF DelegateRecoverTorn
  <2> QED BY <2>1 DEF Final, Terminal
<1>5. CASE \/ CancelQueued(a) \/ CancelReserved(a) \/ GcRuntime(a) \/ WorkerExits(a)
           \/ KidsExit(a) \/ PublishFails(a) \/ LaunchFails(a) \/ RunnerError(a)
           \/ PidReused(a) \/ KillRunner(a) \/ KillCommand(a)
  <2>1. att' = att
    BY <1>5 DEF CancelQueued, CancelReserved, GcRuntime, WorkerExits, KidsExit, PublishFails,
       LaunchFails, RunnerError, PidReused, KillRunner, KillCommand, stores
  <2> QED BY <2>1, KeptIsFinal
<1> QED BY <1>2, <1>3, <1>4, <1>5, RunsFinal, CommandsFinal

LEMMA NextFinal == IInv /\ Next => Final
<1> SUFFICES ASSUME IInv, Next PROVE Final
  OBVIOUS
<1>1. att \in [Attempts -> Lifecycle] /\ {"other", "mismatch"} \subseteq Reasons
  BY DEF IInv, TypeOK, Reasons
<1>2. CASE HeldEvent
  <2>1. hold.of \in Attempts /\ hold.to \in {"cancelled", "blocked", "failed"}
    BY <1>2 DEF HeldEvent, IInv, TypeOK, Holds
  <2>2. \/ att' = att
        \/ \E why \in {"mismatch", "other"} : att' = Appended(hold.of, hold.to, why)
    BY <1>2 DEF HeldEvent
  <2> QED BY <1>1, <2>1, <2>2, StatusNames, AppendIsFinal, KeptIsFinal
<1>3. CASE KillHolder
  BY <1>3, KeptIsFinal DEF KillHolder, stores
<1>4. ASSUME NEW D \in SUBSET Attempts, Compact(D) PROVE Final
  <2>1. att' = [a \in Attempts |-> IF a \in D THEN [att[a] EXCEPT !.st = "dropped"] ELSE att[a]]
    BY <1>4 DEF Compact
  <2>2. \A a \in Attempts : att[a] \in Lifecycle
    BY <1>1
  <2>3. \A a \in Attempts : att'[a].st \in {att[a].st, "dropped"}
    BY <2>1, <2>2 DEF Lifecycle
  <2> QED BY <2>3 DEF Final
<1>5. ASSUME NEW d \in Dispatchers,
             \/ \E n \in 1..MaxAttempts : Reserve(d, n)
             \/ Dispatches(d) \/ SpawnFails(d) \/ KillDispatcher(d)
      PROVE  Final
  <2>1. CASE DispatchEvent(d)
    <3>1. First(d) \in Attempts
      BY <2>1, AtFirst DEF DispatchEvent
    <3>2. \E to \in {"cancelled", "blocked"} : att' = Appended(First(d), to, "other")
      BY <2>1 DEF DispatchEvent
    <3> QED BY <1>1, <3>1, <3>2, StatusNames, AppendIsFinal
  <2>2. CASE ~DispatchEvent(d)
    <3>1. att' = att
      BY <1>5, <2>2 DEF Reserve, Dispatches, DispatchCheck, Spawn, Record, SpawnFailed,
         SpawnFails, KillDispatcher, stores
    <3> QED BY <3>1, KeptIsFinal
  <2> QED BY <2>1, <2>2
<1>6. CASE \E d \in Dispatchers :
             \/ \E n \in 1..MaxAttempts : Reserve(d, n)
             \/ Dispatches(d) \/ SpawnFails(d) \/ KillDispatcher(d)
  BY <1>5, <1>6
<1>7. CASE ~ \E d \in Dispatchers :
             \/ \E n \in 1..MaxAttempts : Reserve(d, n)
             \/ Dispatches(d) \/ SpawnFails(d) \/ KillDispatcher(d)
  <2>1. CASE ~(HeldEvent \/ KillHolder \/ \E D \in SUBSET Attempts : Compact(D))
    BY <1>7, <2>1, AttemptFinal DEF Next
  <2> QED BY <1>2, <1>3, <1>4, <2>1
<1> QED BY <1>6, <1>7

\* A terminal attempt never lives again, and a dropped one is never created anew:
\* no append, recovery or compaction moves it.
THEOREM TerminalIsFinalCorrect == Spec => TerminalIsFinal
<1>1. IInv /\ [Next]_vars => [Final]_vars
  BY NextFinal
<1>2. Final => \A a \in Attempts :
        att[a].st \in Terminal \cup {"dropped"} => att'[a].st \in {att[a].st, "dropped"}
  BY DEF Final
<1> QED BY <1>1, <1>2, InvariantCorrect, PTL DEF Spec, TerminalIsFinal

-----------------------------------------------------------------------------
(* The caps.  Only a reservation makes a job active, and the last job that it *)
(* takes of a provider has counted all the others.                            *)

Grows == \E a \in Attempts : job'[a].rt \in Reserved /\ job[a].rt \notin Reserved

LEMMA AttemptsFinite ==
  ASSUME NEW S, S \subseteq Attempts
  PROVE  IsFiniteSet(S) /\ Cardinality(S) \in Nat
<1>1. IsFiniteSet(Attempts)
  BY FS_Interval, AttemptsAssumption DEF Attempts
<1> QED BY <1>1, FS_Subset, FS_CardinalityType

LEMMA SmallerSet ==
  ASSUME NEW S, NEW T, S \subseteq T, T \subseteq Attempts
  PROVE  Cardinality(S) <= Cardinality(T) /\ Cardinality(S) \in Nat /\ Cardinality(T) \in Nat
<1>1. S \in SUBSET T
  OBVIOUS
<1> QED BY <1>1, AttemptsFinite, FS_Subset

LEMMA OneMore ==
  ASSUME NEW S, NEW T, NEW x, T \subseteq Attempts, S \subseteq T \cup {x}, x \in Attempts
  PROVE  Cardinality(S) <= Cardinality(T) + 1
<1>1. IsFiniteSet(T) /\ Cardinality(T) \in Nat
  BY AttemptsFinite
<1>2. Cardinality(T \cup {x}) <= Cardinality(T) + 1
  <2>1. Cardinality(T \cup {x}) = IF x \in T THEN Cardinality(T) ELSE Cardinality(T) + 1
    BY <1>1, FS_AddElement, Zenon
  <2> QED BY <1>1, <2>1
<1>3. T \cup {x} \subseteq Attempts
  OBVIOUS
<1>4. /\ Cardinality(S) <= Cardinality(T \cup {x})
      /\ Cardinality(S) \in Nat /\ Cardinality(T \cup {x}) \in Nat
  BY <1>3, SmallerSet
<1> QED BY <1>1, <1>2, <1>4

LEMMA LimitIsNat ==
  ASSUME limits \in Limits, NEW q \in DOMAIN limits
  PROVE  limits[q] \in Nat
  BY LimitsAssumption

LEMMA ShrinkKeepsCaps ==
  ASSUME CapInv, ~Grows, limits' = limits
  PROVE  CapInv'
<1>1. Active' \subseteq Active /\ Active \subseteq Attempts
  BY DEF Active, Grows
<1>2. Cardinality(Active)' <= MaxRunning
  <2>1. Cardinality(Active') <= Cardinality(Active)
        /\ Cardinality(Active') \in Nat /\ Cardinality(Active) \in Nat
    BY <1>1, SmallerSet
  <2> QED BY <2>1, RunningAssumption DEF CapInv, Capacity
<1>3. ASSUME NEW q \in DOMAIN limits
      PROVE  Cardinality({a \in Active' : Provider[a] = q}) <= limits[q]
  <2> DEFINE S == {a \in Active' : Provider[a] = q}
             T == {a \in Active : Provider[a] = q}
  <2>1. S \subseteq T /\ T \subseteq Attempts
    BY <1>1
  <2>2. limits[q] \in Nat /\ Cardinality(T) <= limits[q]
    BY LimitIsNat DEF CapInv, Capacity
  <2> HIDE DEF S, T
  <2>3. Cardinality(S) <= Cardinality(T) /\ Cardinality(S) \in Nat /\ Cardinality(T) \in Nat
    BY <2>1, SmallerSet
  <2>4. Cardinality(S) <= limits[q]
    BY <2>2, <2>3
  <2> QED BY <2>4 DEF S
<1> QED BY <1>2, <1>3 DEF CapInv, Capacity

LEMMA ReserveKeepsCaps ==
  ASSUME IInv, CapInv, NEW d \in Dispatchers, NEW n \in Nat, Reserve(d, n)
  PROVE  CapInv'
<1>1. PICK S \in SUBSET Attempts :
        /\ S # {} /\ Reservation(S, n)
        /\ job' = [a \in Attempts |-> IF a \in S THEN [job[a] EXCEPT !.rt = "launching"]
                                     ELSE job[a]]
  BY DEF Reserve
<1>2. limits' = limits
  BY DEF Reserve, bounds
<1>3. Active' \subseteq Active \cup S /\ Active \subseteq Attempts
  BY <1>1 DEF Active
<1>4. \A a \in S : LET before == {b \in S : b < a}
                  IN  /\ Cardinality(Active) + Cardinality(before) < MaxRunning
                      /\ ~ProviderFull(a, before)
  BY <1>1 DEF Reservation
<1>5. ASSUME NEW R, R \subseteq S, R # {}
      PROVE  \E m \in R : R \subseteq {b \in S : b < m} \cup {m}
  <2>1. R \subseteq 1..MaxAttempts /\ MaxAttempts \in Nat
    BY <1>5, AttemptsAssumption DEF Attempts
  <2>2. PICK m \in R : \A y \in R : y <= m
    BY <1>5, <2>1, HasLargest
  <2>3. \A y \in R : y \in Int /\ (y = m \/ y < m)
    BY <2>1, <2>2
  <2> QED BY <1>5, <2>3
<1>6. Cardinality(Active)' <= MaxRunning
  <2>1. PICK m \in S : S \subseteq {b \in S : b < m} \cup {m}
    BY <1>1, <1>5
  <2> DEFINE before == {b \in S : b < m}
  <2>2. before \subseteq Attempts /\ m \in Attempts
    OBVIOUS
  <2>3. Cardinality(Active) + Cardinality(before) < MaxRunning
    BY <1>4
  <2>4. Active' \subseteq (Active \cup before) \cup {m} /\ Active \cup before \subseteq Attempts
    BY <1>3, <2>1, <2>2
  <2> HIDE DEF before
  <2>5. /\ IsFiniteSet(Active) /\ IsFiniteSet(before)
        /\ Cardinality(Active) \in Nat /\ Cardinality(before) \in Nat
        /\ Cardinality(Active \cup before) \in Nat /\ Cardinality(Active \cap before) \in Nat
    BY <1>3, <2>2, <2>4, AttemptsFinite
  <2>6. Cardinality(Active \cup before) <= Cardinality(Active) + Cardinality(before)
    <3>1. Cardinality(Active \cup before) =
            Cardinality(Active) + Cardinality(before) - Cardinality(Active \cap before)
      BY <2>5, FS_Union, Zenon
    <3> QED BY <2>5, <3>1
  <2>7. Cardinality(Active') <= Cardinality(Active \cup before) + 1
    BY <2>2, <2>4, OneMore
  <2>8. Active' \subseteq Attempts /\ Cardinality(Active') \in Nat
    BY <2>2, <2>4, AttemptsFinite
  <2> QED BY <2>3, <2>5, <2>6, <2>7, <2>8, RunningAssumption
<1>7. ASSUME NEW q \in DOMAIN limits
      PROVE  Cardinality({a \in Active' : Provider[a] = q}) <= limits[q]
  <2> DEFINE New == {a \in Active' : Provider[a] = q}
             Old == {a \in Active : Provider[a] = q}
             R == {a \in S : Provider[a] = q}
  <2>1. New \subseteq Old \cup R /\ Old \subseteq Attempts /\ R \subseteq S
    BY <1>3
  <2>2. limits[q] \in Nat /\ Cardinality(Old) <= limits[q]
    BY LimitIsNat DEF CapInv, Capacity
  <2>3. CASE R = {}
    <3>1. New \subseteq Old
      BY <2>1, <2>3
    <3> HIDE DEF New, Old
    <3>2. Cardinality(New) <= Cardinality(Old) /\ Cardinality(New) \in Nat
          /\ Cardinality(Old) \in Nat
      BY <2>1, <3>1, SmallerSet
    <3>3. Cardinality(New) <= limits[q]
      BY <2>2, <3>2
    <3> QED BY <3>3 DEF New
  <2>4. CASE R # {}
    <3>1. PICK m \in R : R \subseteq {b \in S : b < m} \cup {m}
      BY <1>5, <2>1, <2>4
    <3> DEFINE Full == {b \in Active \cup {c \in S : c < m} : Provider[b] = q}
    <3>2. ~ProviderFull(m, {b \in S : b < m})
      BY <1>4, <2>1
    <3>3. ~(Cardinality(Full) >= limits[q])
      BY <3>2 DEF ProviderFull
    <3>4. New \subseteq Full \cup {m} /\ Full \subseteq Attempts /\ m \in Attempts
      BY <1>3, <2>1, <3>1
    <3> HIDE DEF New, Full
    <3>5. Cardinality(New) <= Cardinality(Full) + 1
      BY <3>4, OneMore
    <3>6. Cardinality(Full) \in Nat /\ Cardinality(New) \in Nat
      BY <3>4, AttemptsFinite
    <3>7. Cardinality(New) <= limits[q]
      BY <2>2, <3>3, <3>5, <3>6
    <3> QED BY <3>7 DEF New
  <2> QED BY <2>3, <2>4
<1> QED BY <1>2, <1>6, <1>7 DEF CapInv, Capacity

LEMMA LimitsStay == Next => limits' = limits
<1> SUFFICES ASSUME Next PROVE limits' = limits
  OBVIOUS
<1>1. CASE HeldEvent \/ KillHolder \/ \E D \in SUBSET Attempts : Compact(D)
  BY <1>1 DEF HeldEvent, KillHolder, Compact, bounds, Fault
<1>2. ASSUME NEW d \in Dispatchers,
             \/ \E n \in 1..MaxAttempts : Reserve(d, n)
             \/ Dispatches(d) \/ SpawnFails(d) \/ KillDispatcher(d)
      PROVE  limits' = limits
  BY <1>2 DEF Reserve, Dispatches, DispatchCheck, Spawn, Record, SpawnFailed, DispatchEvent,
     SpawnFails, KillDispatcher, bounds, Fault
<1>3. ASSUME NEW a \in Attempts,
             \/ Submit(a) \/ DelegateOpen(a) \/ \E p \in Attempts : Resume(a, p)
             \/ Runs(a) \/ Commands(a) \/ Reconciles(a)
             \/ CancelQueued(a) \/ CancelReserved(a)
             \/ \E to \in {"done", "failed", "abandoned", "cancelled"} : OwnerMoves(a, to)
             \/ GcRuntime(a) \/ WorkerExits(a) \/ KidsExit(a)
             \/ PublishFails(a) \/ LaunchFails(a) \/ RunnerError(a)
             \/ \E reached \in {"working", "verifying"} : DelegateRecoverTorn(a, reached)
             \/ PidReused(a) \/ KillRunner(a) \/ KillCommand(a)
      PROVE  limits' = limits
  <2>1. CASE Runs(a)
    BY <2>1 DEF Runs, RunnerBoot, RunnerFirstEvent, Launch, LaunchFailed, Enrol, RunnerEvent,
       Watch, StopTree, CloseJob, Settle, Abort, AbortJob, AbortEvent, DelegateEvent,
       DelegateRecover, bounds, Fault
  <2>2. CASE Commands(a) \/ Reconciles(a)
    BY <2>2 DEF Commands, Publish, SubmitIncomplete, CancelSignal, CancelEvent, Reconciles,
       RecOrphan, RecJob, HeartbeatExpires, bounds, Fault
  <2>3. CASE ~Runs(a) /\ ~Commands(a) /\ ~Reconciles(a)
    BY <1>3, <2>3 DEF Submit, DelegateOpen, Resume, CancelQueued, CancelReserved, OwnerMoves,
       GcRuntime, WorkerExits, KidsExit, PublishFails, LaunchFails, RunnerError,
       DelegateRecoverTorn, PidReused, KillRunner, KillCommand, bounds, Fault
  <2> QED BY <2>1, <2>2, <2>3
<1> QED BY <1>1, <1>2, <1>3 DEF Next

LEMMA OneJob ==
  ASSUME NEW a \in Attempts, \A b \in Attempts \ {a} : job'[b] = job[b],
         job'[a].rt \in Reserved => job[a].rt \in Reserved
  PROVE  ~Grows
  BY DEF Grows

LEMMA SameJobs == job' = job => ~Grows
  BY DEF Grows

LEMMA Finishes ==
  ASSUME NEW a \in Attempts, NEW rt, rt \notin Reserved, job \in [Attempts -> Job],
         job' = FinishJob(a, rt)
  PROVE  ~Grows
  BY FinishMoves, OneJob

LEMMA RunsGrowsNot ==
  ASSUME IInv, NEW a \in Attempts, Runs(a)
  PROVE  ~Grows
<1>1. job \in [Attempts -> Job] /\ RunnerInv(a) /\ JobInv(a)
  BY DEF IInv, SafeInv, TypeOK
<1>2. {"finished", "cancelled", "interrupted"} \cap Reserved = {}
  BY DEF Reserved
<1>3. CASE RunnerBoot(a)
  <2>1. CASE job' = FinishJob(a, "cancelled") \/ job' = FinishJob(a, "finished") \/ job' = job
    BY <1>1, <1>2, <2>1, Finishes, SameJobs
  <2>2. CASE /\ job[a].rt \in {"queued", "launching"}
             /\ job' = [job EXCEPT ![a].rt = "starting", ![a].runner = TRUE]
    <3>1. job[a].rt = "launching"
      BY <1>1, <1>3, <2>2 DEF JobInv, RunnerBoot
    <3>2. \A b \in Attempts \ {a} : job'[b] = job[b]
      BY <1>1, <2>2
    <3> QED BY <3>1, <3>2, OneJob DEF Reserved
  <2> QED BY <1>3, <2>1, <2>2 DEF RunnerBoot
<1>4. CASE LaunchFailed(a)
  BY <1>1, <1>2, <1>4, Finishes DEF LaunchFailed
<1>5. CASE Enrol(a)
  <2>1. CASE job' = job
    BY <2>1, SameJobs
  <2>2. CASE /\ job[a].rt \in {"cancel_requested", "starting"}
             /\ \/ job' = [job EXCEPT ![a].pid = TRUE]
                \/ job' = [job EXCEPT ![a].pid = TRUE, ![a].rt = "running"]
    <3>1. \A b \in Attempts \ {a} : job'[b] = job[b]
      BY <1>1, <2>2
    <3> QED BY <2>2, <3>1, OneJob DEF Reserved
  <2> QED BY <1>5, <2>1, <2>2 DEF Enrol
<1>6. CASE CloseJob(a)
  <2>1. \E rt \in {"finished", "cancelled", "interrupted"} : job' = FinishJob(a, rt)
    BY <1>6 DEF CloseJob
  <2> QED BY <1>1, <1>2, <2>1, Finishes
<1>7. CASE AbortJob(a)
  <2>1. CASE job' = job
    BY <2>1, SameJobs
  <2>2. CASE job' = [job EXCEPT ![a].rt = IF run[a].bad THEN "cleanup_failed" ELSE "interrupted",
                                ![a].pid = run[a].bad, ![a].runner = FALSE]
    <3>1. \A b \in Attempts \ {a} : job'[b] = job[b]
      BY <1>1, <2>2
    <3>2. job'[a].rt = IF run[a].bad THEN "cleanup_failed" ELSE "interrupted"
      BY <1>1, <2>2 DEF Job
    <3>3. run[a].bad => job[a].rt \in Reserved
      BY <1>1, <1>7 DEF AbortJob, RunnerInv, Attached, Stopped, Owned, Reserved
    <3> QED BY <1>2, <3>1, <3>2, <3>3, OneJob
  <2> QED BY <1>7, <2>1, <2>2 DEF AbortJob
<1>8. CASE \/ RunnerFirstEvent(a) \/ Launch(a) \/ RunnerEvent(a) \/ Watch(a) \/ StopTree(a)
           \/ Settle(a) \/ Abort(a) \/ AbortEvent(a) \/ DelegateEvent(a) \/ DelegateRecover(a)
  <2>1. job' = job
    BY <1>8 DEF RunnerFirstEvent, Launch, RunnerEvent, Watch, StopTree, Settle, Abort,
       AbortEvent, DelegateEvent, DelegateRecover, stores
  <2> QED BY <2>1, SameJobs
<1> QED BY <1>3, <1>4, <1>5, <1>6, <1>7, <1>8 DEF Runs

LEMMA AttemptGrowsNot ==
  ASSUME IInv, NEW a \in Attempts,
         \/ Submit(a) \/ DelegateOpen(a) \/ \E p \in Attempts : Resume(a, p)
         \/ Runs(a) \/ Commands(a) \/ Reconciles(a)
         \/ CancelQueued(a) \/ CancelReserved(a)
         \/ \E to \in {"done", "failed", "abandoned", "cancelled"} : OwnerMoves(a, to)
         \/ GcRuntime(a) \/ WorkerExits(a) \/ KidsExit(a)
         \/ PublishFails(a) \/ LaunchFails(a) \/ RunnerError(a)
         \/ \E reached \in {"working", "verifying"} : DelegateRecoverTorn(a, reached)
         \/ PidReused(a) \/ KillRunner(a) \/ KillCommand(a)
  PROVE  ~Grows
<1>1. job \in [Attempts -> Job]
  BY DEF IInv, TypeOK
<1>2. {"none", "queued", "finished", "cancelled", "interrupted"} \cap Reserved = {}
  BY DEF Reserved
<1>3. CASE Commands(a)
  <2>1. CASE job' = job
    BY <2>1, SameJobs
  <2>2. CASE \E kind \in Kinds :
               job' = [job EXCEPT ![a] = [NoJob EXCEPT !.rt = "queued", !.kind = kind]]
    <3>1. job'[a].rt = "queued" /\ \A b \in Attempts \ {a} : job'[b] = job[b]
      BY <1>1, <2>2 DEF NoJob
    <3> QED BY <1>2, <3>1, OneJob
  <2>3. CASE job' = [job EXCEPT ![a].rt = "interrupted", ![a].pid = FALSE]
    <3>1. job'[a].rt = "interrupted" /\ \A b \in Attempts \ {a} : job'[b] = job[b]
      BY <1>1, <2>3 DEF Job
    <3> QED BY <1>2, <3>1, OneJob
  <2> QED BY <1>3, <2>1, <2>2, <2>3 DEF Commands, Publish, SubmitIncomplete, CancelSignal,
             CancelEvent
<1>4. CASE Reconciles(a)
  <2>1. CASE job' = job
    BY <2>1, SameJobs
  <2>2. CASE \E rt \in {"interrupted", "cancelled"} : job' = FinishJob(a, rt)
    BY <1>1, <1>2, <2>2, Finishes
  <2>3. CASE /\ job[a].rt \in Reserved
             /\ job' = [job EXCEPT ![a].rt = "cleanup_failed", ![a].runner = FALSE]
    BY <1>1, <2>3, OneJob
  <2> QED BY <1>4, <2>1, <2>2, <2>3
          DEF Reconciles, RecOrphan, RecJob, RecordAndHold, Lost, HeartbeatExpires
<1>5. CASE CancelQueued(a)
  BY <1>1, <1>2, <1>5, Finishes DEF CancelQueued
<1>6. CASE CancelReserved(a)
  <2>1. job[a].rt \in Reserved /\ \A b \in Attempts \ {a} : job'[b] = job[b]
    BY <1>1, <1>6 DEF CancelReserved
  <2> QED BY <2>1, OneJob
<1>7. CASE GcRuntime(a)
  <2>1. job'[a].rt = "none" /\ \A b \in Attempts \ {a} : job'[b] = job[b]
    BY <1>1, <1>7 DEF GcRuntime, NoJob
  <2> QED BY <1>2, <2>1, OneJob
<1>8. CASE \/ Submit(a) \/ DelegateOpen(a) \/ \E p \in Attempts : Resume(a, p)
           \/ \E to \in {"done", "failed", "abandoned", "cancelled"} : OwnerMoves(a, to)
           \/ WorkerExits(a) \/ KidsExit(a)
           \/ PublishFails(a) \/ LaunchFails(a) \/ RunnerError(a)
           \/ \E reached \in {"working", "verifying"} : DelegateRecoverTorn(a, reached)
           \/ PidReused(a) \/ KillRunner(a) \/ KillCommand(a)
  <2>1. job' = job
    BY <1>8 DEF Submit, DelegateOpen, Resume, OwnerMoves, WorkerExits, KidsExit, PublishFails,
       LaunchFails, RunnerError, DelegateRecoverTorn, PidReused, KillRunner, KillCommand, stores
  <2> QED BY <2>1, SameJobs
<1> QED BY <1>3, <1>4, <1>5, <1>6, <1>7, <1>8, RunsGrowsNot

LEMMA DispatchGrowsNot ==
  ASSUME IInv, NEW d \in Dispatchers, Dispatches(d) \/ SpawnFails(d) \/ KillDispatcher(d)
  PROVE  ~Grows
<1>1. job \in [Attempts -> Job]
  BY DEF IInv, TypeOK
<1>2. {"cancelled", "interrupted"} \cap Reserved = {}
  BY DEF Reserved
<1>3. CASE job' = job
  BY <1>3, SameJobs
<1>4. CASE DispatchCheck(d) /\ job' # job
  BY <1>1, <1>2, <1>4, AtFirst, Finishes DEF DispatchCheck
<1>5. CASE Record(d) /\ job' # job
  <2>1. First(d) \in Attempts
    BY <1>5, AtFirst DEF Record
  <2>2. job' = [job EXCEPT ![First(d)].runner = TRUE]
    BY <1>5 DEF Record
  <2>3. job'[First(d)].rt = job[First(d)].rt
        /\ \A b \in Attempts \ {First(d)} : job'[b] = job[b]
    BY <1>1, <2>1, <2>2 DEF Job
  <2> QED BY <2>1, <2>3 DEF Grows
<1>6. CASE SpawnFailed(d)
  BY <1>1, <1>2, <1>6, AtFirst, Finishes DEF SpawnFailed
<1>7. CASE Spawn(d) \/ DispatchEvent(d) \/ SpawnFails(d) \/ KillDispatcher(d)
  BY <1>7, SameJobs DEF Spawn, DispatchEvent, SpawnFails, KillDispatcher, stores
<1> QED BY <1>3, <1>4, <1>5, <1>6, <1>7 DEF Dispatches

LEMMA NextKeepsCaps == IInv /\ CapInv /\ Next => CapInv'
<1> SUFFICES ASSUME IInv, CapInv, Next PROVE CapInv'
  OBVIOUS
<1>1. limits' = limits
  BY LimitsStay
<1>2. CASE HeldEvent \/ KillHolder \/ \E D \in SUBSET Attempts : Compact(D)
  <2>1. job' = job
    BY <1>2 DEF HeldEvent, KillHolder, Compact, stores
  <2> QED BY <1>1, <2>1, SameJobs, ShrinkKeepsCaps
<1>3. CASE \E d \in Dispatchers : \E n \in 1..MaxAttempts : Reserve(d, n)
  <2>1. 1..MaxAttempts \subseteq Nat
    BY AttemptsAssumption
  <2> QED BY <1>3, <2>1, ReserveKeepsCaps
<1>4. CASE \E d \in Dispatchers : Dispatches(d) \/ SpawnFails(d) \/ KillDispatcher(d)
  BY <1>1, <1>4, DispatchGrowsNot, ShrinkKeepsCaps
<1>5. ASSUME NEW a \in Attempts,
             \/ Submit(a) \/ DelegateOpen(a) \/ \E p \in Attempts : Resume(a, p)
             \/ Runs(a) \/ Commands(a) \/ Reconciles(a)
             \/ CancelQueued(a) \/ CancelReserved(a)
             \/ \E to \in {"done", "failed", "abandoned", "cancelled"} : OwnerMoves(a, to)
             \/ GcRuntime(a) \/ WorkerExits(a) \/ KidsExit(a)
             \/ PublishFails(a) \/ LaunchFails(a) \/ RunnerError(a)
             \/ \E reached \in {"working", "verifying"} : DelegateRecoverTorn(a, reached)
             \/ PidReused(a) \/ KillRunner(a) \/ KillCommand(a)
      PROVE  CapInv'
  BY <1>1, <1>5, AttemptGrowsNot, ShrinkKeepsCaps
<1> QED BY <1>2, <1>3, <1>4, <1>5 DEF Next

\* However dispatchers, cancellers, runners and reconcilers interleave, no more
\* jobs are active than --max-running, nor more of a provider than its limit.
THEOREM CapacityCorrect == Spec => []Capacity
<1>1. Init => CapInv
  <2> HAVE Init
  <2>1. Active = {} /\ limits \in Limits
    BY DEF Init, Active, NoJob, Reserved
  <2>2. Cardinality({}) = 0
    BY FS_EmptySet
  <2>3. Cardinality(Active) <= MaxRunning
    BY <2>1, <2>2, RunningAssumption
  <2>4. ASSUME NEW q \in DOMAIN limits
        PROVE  Cardinality({a \in Active : Provider[a] = q}) <= limits[q]
    <3>1. {a \in Active : Provider[a] = q} = {}
      BY <2>1
    <3>2. limits[q] \in Nat
      BY <2>1, LimitIsNat
    <3> QED BY <2>2, <3>1, <3>2
  <2> QED BY <2>1, <2>3, <2>4 DEF CapInv, Capacity
<1>2. IInv /\ CapInv /\ [Next]_vars => CapInv'
  <2>1. CapInv /\ UNCHANGED vars => CapInv'
    BY DEF CapInv, Capacity, Active, vars, stores, bounds
  <2> QED BY <2>1, NextKeepsCaps
<1>3. CapInv => Capacity
  BY DEF CapInv
<1> QED BY <1>1, <1>2, <1>3, InvariantCorrect, PTL DEF Spec

-----------------------------------------------------------------------------
(* While no live writer misses its heartbeats, a resumed attempt has no live  *)
(* runner beside its worker.                                                  *)

LEMMA SameBeats ==
  ASSUME NEW a \in Attempts, Beats(a), Same(a), Resumed(a)' => Resumed(a)
  PROVE  Beats(a)'
<1>1. BeatInv(a)'
  BY DEF Beats, BeatInv, Same, Attached
<1>2. ParentInv(a)'
  BY DEF Beats, ParentInv, Same, WorkerAlive
<1> QED BY <1>1, <1>2 DEF Beats

LEMMA AloneBeats ==
  ASSUME ~Stalls, \A b \in Attempts : Beats(b), NEW a \in Attempts, KeepsBeats(a)
  PROVE  \A b \in Attempts : Beats(b)'
<1>1. \A b \in Attempts : att'[b].parent = att[b].parent
  BY DEF KeepsBeats, Alone, Same
<1>2. \A b \in Attempts : Resumed(b)' => Resumed(b)
  BY <1>1 DEF Resumed
<1> QED BY <1>2, SameBeats DEF KeepsBeats, Alone

\* A new attempt has no children, and its parent's runner has stopped its worker.
LEMMA CreateBeats ==
  ASSUME IInv, \A b \in Attempts : Beats(b), NEW a \in Attempts, Alone(a),
         \/ Submit(a) \/ DelegateOpen(a) \/ \E p \in Attempts : Resume(a, p)
  PROVE  \A b \in Attempts : Beats(b)'
<1>1. /\ att[a].st = "none" /\ ~Resumed(a) /\ Beats(a)
      /\ RunnerInv(a) /\ JobInv(a)
  BY DEF Submit, DelegateOpen, Resume, Create, Beats, ParentInv, IInv, SafeInv
<1>2. run'[a].pc \in {"none", "open"}
  BY <1>1, RunnerMoves, PcNames
     DEF Submit, DelegateOpen, Resume, JobInv, procs, bounds, IInv, TypeOK
<1>3. BeatInv(a)'
  BY <1>2 DEF BeatInv
<1>4. \A b \in Attempts \ {a} : att'[b] = att[b]
  BY DEF Alone, Same
<1>5. ~Resumed(a)'
  BY <1>1, <1>4 DEF Resumed
<1>6. CASE Submit(a) \/ DelegateOpen(a)
  <2>1. att'[a].parent = 0
    BY <1>6, CreateIs, AttemptsAssumption DEF Submit, DelegateOpen, IInv, TypeOK
  <2>2. 0 \notin Attempts
    BY AttemptsAssumption DEF Attempts
  <2>3. \A b \in Attempts : Resumed(b)' => Resumed(b)
    BY <1>4, <2>1, <2>2 DEF Resumed
  <2>4. Beats(a)'
    BY <1>3, <1>5, <2>1, <2>2 DEF Beats, ParentInv
  <2> QED BY <2>3, <2>4, SameBeats DEF Alone
<1>7. ASSUME NEW p \in Attempts, Resume(a, p) PROVE \A b \in Attempts : Beats(b)'
  <2>1. /\ att[p].st \in Terminal \cup {"blocked"} /\ job[p].rt # "none"
        /\ p # a
    BY <1>1, <1>7 DEF Resume, Terminal
  <2>2. att'[a].parent = p
    BY <1>7, CreateIs, AttemptsAssumption DEF Resume, IInv, TypeOK, Attempts
  <2>3. \A b \in Attempts \ {p} : Resumed(b)' => Resumed(b)
    BY <1>4, <2>2 DEF Resumed
  <2>4. Beats(a)'
    BY <1>3, <1>5, <2>1, <2>2 DEF Beats, ParentInv
  <2>5. \A b \in Attempts \ {p, a} : Beats(b)'
    BY <2>3, SameBeats DEF Alone
  <2>6. Same(p) /\ Beats(p) /\ RunnerInv(p) /\ JobInv(p) /\ run[p].pc \in Pcs
    BY <2>1 DEF Alone, IInv, SafeInv, TypeOK, Runner
  <2>7. BeatInv(p)'
    BY <2>6 DEF Beats, BeatInv, Same, Attached
  <2>8. /\ att[p].st \notin {"none", "queued", "starting", "working"}
    BY <2>1 DEF Terminal
  <2>9. run[p].pc \notin {"starting", "launch", "launchFailed", "enrol", "working", "watch", "stop"}
    BY <2>6, <2>8 DEF Beats, BeatInv
  <2>10. run[p].pc \in {"abort", "abortJob"} => tree[p] = Stopped
    BY <2>6, <2>8 DEF Beats, BeatInv, RunnerInv
  <2>11. run[p].pc = "abortEvent" => ~WorkerAlive(p)
    BY <2>6, <2>8 DEF Beats, BeatInv, RunnerInv, Reserved
  <2>12. sub[p] = "none" /\ job[p].rt \notin {"queued", "launching"}
    BY <2>1, <2>6, <2>8 DEF JobInv
  <2>13. ParentInv(p)'
    BY <2>6, <2>8, <2>9, <2>10, <2>11, <2>12 DEF ParentInv, Same, Beats, WorkerAlive
  <2> QED BY <2>4, <2>5, <2>7, <2>13 DEF Beats
<1> QED BY <1>6, <1>7

\* What the steps of dispatchers, of holders and of the compactor keep.
LEMMA SharedBeats ==
  ASSUME NEW a \in Attempts, Beats(a), RunnerInv(a), tree' = tree, sub' = sub,
         \A b \in Attempts : att'[b].parent = att[b].parent,
         att[a].st # "none" => att'[a].st # "none",
         \/ job'[a].rt \notin {"queued", "launching"}
         \/ job'[a].rt = job[a].rt
         \/ job[a].rt = "queued",
         \/ run'[a].pc \in {"none", "boot"}
         \/ run'[a] = run[a] /\ att'[a].st = att[a].st /\ job'[a].rt = job[a].rt
         \/ run'[a] = run[a] /\ job'[a].rt \in Closed /\ job[a].rt \in Closed
  PROVE  Beats(a)'
<1>1. Resumed(a)' => Resumed(a)
  BY DEF Resumed
<1>2. BeatInv(a)'
  BY DEF Beats, BeatInv, RunnerInv, Owned, Attached, Closed, Reserved, Stopped
<1>3. ParentInv(a)'
  BY <1>1 DEF Beats, ParentInv, WorkerAlive, Closed
<1> QED BY <1>2, <1>3 DEF Beats

LEMMA DispatchBeats ==
  ASSUME IInv, \A a \in Attempts : Beats(a), NEW d \in Dispatchers,
         Dispatches(d) \/ SpawnFails(d) \/ KillDispatcher(d)
  PROVE  \A a \in Attempts : Beats(a)'
<1>0. disp[d].pc # "idle"
  BY DEF Dispatches, DispatchCheck, Spawn, Record, SpawnFailed, DispatchEvent, SpawnFails,
     KillDispatcher
<1>1. PICK b \in Attempts : b = First(d)
  BY <1>0, AtFirst
<1>2. /\ RunnerInv(b) /\ JobInv(b) /\ job[b].rt \notin {"none", "queued"} /\ att[b].st # "none"
      /\ disp[d].pc # "record" => run[b].pc = "none"
      /\ disp[d].pc \in Owing => job[b].rt \in Closed
  BY <1>0, <1>1, AtFirst DEF Waiting, JobInv
<1>3. job \in [Attempts -> Job] /\ att \in [Attempts -> Lifecycle] /\ run \in [Attempts -> Runner]
  BY DEF IInv, TypeOK
<1>4. \A a \in Attempts : RunnerInv(a)
  BY DEF IInv, SafeInv
<1>5. CASE DispatchCheck(d) \/ SpawnFailed(d)
  <2>1. /\ disp[d].pc # "record" /\ UNCHANGED <<att, tree, run, sub>>
        /\ \/ job' = job
           \/ \E rt \in {"cancelled", "interrupted"} : job' = FinishJob(b, rt)
    BY <1>1, <1>5 DEF DispatchCheck, SpawnFailed
  <2>2. \/ job' = job
        \/ /\ \A a \in Attempts \ {b} : job'[a] = job[a]
           /\ job'[b].rt \in {"cancelled", "interrupted"}
    BY <1>3, <2>1, FinishMoves
  <2>3. ASSUME NEW a \in Attempts PROVE Beats(a)'
    BY <1>2, <1>4, <2>1, <2>2, SharedBeats
  <2> QED BY <2>3
<1>6. CASE Spawn(d)
  <2>1. UNCHANGED <<att, job, tree, sub>> /\ Goto(b, "boot")
    BY <1>1, <1>6 DEF Spawn, stores
  <2>2. run'[b].pc = "boot" /\ \A a \in Attempts \ {b} : run'[a] = run[a]
    BY <1>3, <2>1, RunnerMoves, PcNames
  <2>3. ASSUME NEW a \in Attempts PROVE Beats(a)'
    BY <1>4, <2>1, <2>2, SharedBeats
  <2> QED BY <2>3
<1>7. CASE Record(d)
  <2>1. /\ UNCHANGED <<att, tree, run, sub>>
        /\ job' = job \/ job' = [job EXCEPT ![b].runner = TRUE]
    BY <1>1, <1>7 DEF Record
  <2>2. \A a \in Attempts : job'[a].rt = job[a].rt
    BY <1>3, <2>1 DEF Job
  <2>3. ASSUME NEW a \in Attempts PROVE Beats(a)'
    BY <1>4, <2>1, <2>2, SharedBeats
  <2> QED BY <2>3
<1>8. CASE DispatchEvent(d)
  <2>1. /\ disp[d].pc \in Owing /\ UNCHANGED <<job, tree, run, sub>>
        /\ \E to \in {"cancelled", "blocked"} : att' = Appended(b, to, "other")
    BY <1>1, <1>8 DEF DispatchEvent, Owing
  <2>2. /\ \A a \in Attempts \ {b} : att'[a] = att[a]
        /\ \A a \in Attempts : att'[a].parent = att[a].parent
        /\ att'[b].st \in {"cancelled", "blocked", att[b].st}
    <3>1. "other" \in Reasons
      BY DEF Reasons
    <3> QED BY <1>3, <2>1, <3>1, AppendMoves, StatusNames
  <2>3. ASSUME NEW a \in Attempts PROVE Beats(a)'
    BY <1>2, <1>4, <2>1, <2>2, SharedBeats
  <2> QED BY <2>3
<1>9. CASE SpawnFails(d) \/ KillDispatcher(d)
  <2>1. UNCHANGED <<att, job, tree, run, sub>>
    BY <1>9 DEF SpawnFails, KillDispatcher, stores
  <2>2. ASSUME NEW a \in Attempts PROVE Beats(a)'
    BY <1>4, <2>1, SharedBeats
  <2> QED BY <2>2
<1> QED BY <1>5, <1>6, <1>7, <1>8, <1>9 DEF Dispatches

LEMMA ReserveBeats ==
  ASSUME IInv, \A a \in Attempts : Beats(a), NEW d \in Dispatchers, NEW n, Reserve(d, n)
  PROVE  \A a \in Attempts : Beats(a)'
<1>1. UNCHANGED <<att, tree, run, sub>>
  BY DEF Reserve
<1>2. \A a \in Attempts : job'[a] = job[a] \/ job[a].rt = "queued"
  BY DEF Reserve, Reservation
<1>3. ASSUME NEW a \in Attempts PROVE Beats(a)'
  <2>1. RunnerInv(a) /\ JobInv(a)
    BY DEF IInv, SafeInv
  <2>2. job[a].rt = "queued" => run[a].pc = "none"
    BY <2>1 DEF JobInv
  <2> QED BY <1>1, <1>2, <2>1, <2>2, SharedBeats
<1> QED BY <1>3

LEMMA OthersBeat ==
  ASSUME IInv, \A a \in Attempts : Beats(a),
         HeldEvent \/ KillHolder \/ \E D \in SUBSET Attempts : Compact(D)
  PROVE  \A a \in Attempts : Beats(a)'
<1>1. \A a \in Attempts : RunnerInv(a) /\ JobInv(a) /\ att[a] \in Lifecycle
  BY DEF IInv, SafeInv, TypeOK
<1>2. CASE HeldEvent
  <2>1. PICK b \in Attempts : b = hold.of
    BY <1>2 DEF HeldEvent, IInv, TypeOK, Holds
  <2>2. /\ UNCHANGED <<job, tree, run, sub>> /\ hold.to \in {"cancelled", "blocked", "failed"}
        /\ job[b].rt \in Closed
        /\ \/ att' = att
           \/ \E why \in {"mismatch", "other"} : att' = Appended(b, hold.to, why)
    BY <1>1, <1>2, <2>1 DEF HeldEvent, HeldFor, JobInv, IInv, TypeOK, Holds
  <2>3. /\ \A a \in Attempts \ {b} : att'[a] = att[a]
        /\ \A a \in Attempts : att'[a].parent = att[a].parent
        /\ att'[b].st \in {hold.to, att[b].st}
    <3>1. {"mismatch", "other"} \subseteq Reasons /\ att \in [Attempts -> Lifecycle]
      BY DEF Reasons, IInv, TypeOK
    <3> QED BY <2>2, <3>1, AppendMoves, StatusNames
  <2>4. ASSUME NEW a \in Attempts PROVE Beats(a)'
    BY <1>1, <2>2, <2>3, SharedBeats
  <2> QED BY <2>4
<1>3. CASE KillHolder
  <2>1. UNCHANGED <<att, job, tree, run, sub>>
    BY <1>3 DEF KillHolder, stores
  <2>2. ASSUME NEW a \in Attempts PROVE Beats(a)'
    BY <1>1, <2>1, SharedBeats
  <2> QED BY <2>2
<1>4. ASSUME NEW D \in SUBSET Attempts, Compact(D) PROVE \A a \in Attempts : Beats(a)'
  <2>1. UNCHANGED <<job, tree, run, sub>> /\ \A a \in D : run[a].pc = "none"
    BY <1>4 DEF Compact, procs, Idle, RunnerAlive
  <2>2. att' = [a \in Attempts |-> IF a \in D THEN [att[a] EXCEPT !.st = "dropped"] ELSE att[a]]
    BY <1>4 DEF Compact
  <2>3. \A a \in Attempts : /\ att'[a].parent = att[a].parent
                            /\ att'[a].st = IF a \in D THEN "dropped" ELSE att[a].st
    BY <1>1, <2>2 DEF Lifecycle
  <2>4. ASSUME NEW a \in Attempts PROVE Beats(a)'
    BY <1>1, <2>1, <2>3, SharedBeats
  <2> QED BY <2>4
<1> QED BY <1>2, <1>3, <1>4

LEMMA AttemptBeats ==
  ASSUME IInv, ~Stalls, \A b \in Attempts : Beats(b), NEW a \in Attempts,
         \/ Runs(a) \/ Commands(a) \/ Reconciles(a)
         \/ CancelQueued(a) \/ CancelReserved(a)
         \/ \E to \in {"done", "failed", "abandoned", "cancelled"} : OwnerMoves(a, to)
         \/ GcRuntime(a) \/ WorkerExits(a) \/ KidsExit(a)
         \/ PublishFails(a) \/ LaunchFails(a) \/ RunnerError(a)
         \/ \E reached \in {"working", "verifying"} : DelegateRecoverTorn(a, reached)
         \/ PidReused(a) \/ KillRunner(a) \/ KillCommand(a)
  PROVE  \A b \in Attempts : Beats(b)'
<1>1. KeepsBeats(a)
  <2>1. CASE Runs(a)
    BY <2>1, RunnerBootSafe, RunnerFirstEventSafe, LaunchSafe, LaunchFailedSafe, EnrolSafe,
       RunnerEventSafe, WatchSafe, StopTreeSafe, CloseJobSafe, SettleSafe, AbortSafe,
       AbortJobSafe, AbortEventSafe, DelegateEventSafe, DelegateRecoverSafe DEF Runs
  <2>2. CASE Commands(a)
    BY <2>2, PublishSafe, SubmitIncompleteSafe, CancelSignalSafe, CancelEventSafe DEF Commands
  <2>3. CASE Reconciles(a)
    BY <2>3, RecOrphanSafe, RecJobSafe, HeartbeatExpiresSafe DEF Reconciles
  <2>4. CASE \/ CancelQueued(a) \/ CancelReserved(a)
             \/ \E to \in {"done", "failed", "abandoned", "cancelled"} : OwnerMoves(a, to)
    BY <2>4, CancelQueuedSafe, CancelReservedSafe, OwnerMovesSafe
  <2>5. CASE \/ GcRuntime(a) \/ WorkerExits(a) \/ KidsExit(a)
             \/ PublishFails(a) \/ LaunchFails(a) \/ RunnerError(a)
    BY <2>5, GcRuntimeSafe, WorkerExitsSafe, KidsExitSafe, PublishFailsSafe, LaunchFailsSafe,
       RunnerErrorSafe
  <2>6. CASE \/ \E reached \in {"working", "verifying"} : DelegateRecoverTorn(a, reached)
             \/ PidReused(a) \/ KillRunner(a) \/ KillCommand(a)
    BY <2>6, DelegateRecoverTornSafe, PidReusedSafe, KillRunnerSafe, KillCommandSafe
  <2> QED BY <2>1, <2>2, <2>3, <2>4, <2>5, <2>6
<1> QED BY <1>1, AloneBeats

LEMMA NextBeats ==
  ASSUME ~Stalls, ExclusiveInv, Next
  PROVE  \A a \in Attempts : Beats(a)'
<1>1. IInv /\ \A a \in Attempts : Beats(a)
  BY DEF ExclusiveInv, Beats
<1>2. CASE HeldEvent \/ KillHolder \/ \E D \in SUBSET Attempts : Compact(D)
  BY <1>1, <1>2, OthersBeat
<1>3. CASE \E d \in Dispatchers :
             \/ \E n \in 1..MaxAttempts : Reserve(d, n)
             \/ Dispatches(d) \/ SpawnFails(d) \/ KillDispatcher(d)
  BY <1>1, <1>3, ReserveBeats, DispatchBeats
<1>4. ASSUME NEW a \in Attempts,
             Submit(a) \/ DelegateOpen(a) \/ \E p \in Attempts : Resume(a, p)
      PROVE  \A b \in Attempts : Beats(b)'
  <2>1. Alone(a)
    BY <1>1, <1>4, SubmitSafe, DelegateOpenSafe, ResumeSafe
  <2> QED BY <1>1, <1>4, <2>1, CreateBeats
<1>5. ASSUME NEW a \in Attempts,
             \/ Runs(a) \/ Commands(a) \/ Reconciles(a)
             \/ CancelQueued(a) \/ CancelReserved(a)
             \/ \E to \in {"done", "failed", "abandoned", "cancelled"} : OwnerMoves(a, to)
             \/ GcRuntime(a) \/ WorkerExits(a) \/ KidsExit(a)
             \/ PublishFails(a) \/ LaunchFails(a) \/ RunnerError(a)
             \/ \E reached \in {"working", "verifying"} : DelegateRecoverTorn(a, reached)
             \/ PidReused(a) \/ KillRunner(a) \/ KillCommand(a)
      PROVE  \A b \in Attempts : Beats(b)'
  BY <1>1, <1>5, AttemptBeats
<1> QED BY <1>2, <1>3, <1>4, <1>5 DEF Next

LEMMA ExclusiveMeans == ExclusiveInv => ResumeIsExclusive
<1> SUFFICES ASSUME ExclusiveInv, NEW a \in Attempts, att[a].parent # 0,
                    WorkerAlive(att[a].parent), RunnerAlive(att[a].parent)
             PROVE  FALSE
  BY DEF ResumeIsExclusive
<1> DEFINE p == att[a].parent
<1>1. p \in Attempts
  <2>1. p \in 0..MaxAttempts
    BY DEF ExclusiveInv, IInv, TypeOK, Lifecycle
  <2> QED BY <2>1, AttemptsAssumption DEF Attempts
<1>2. p # a /\ Resumed(p) /\ ParentInv(p) /\ RunnerInv(p) /\ run[p].pc \in Pcs
  BY <1>1 DEF ExclusiveInv, ParentInv, Resumed, IInv, SafeInv, TypeOK, Runner
<1>3. WorkerAlive(p) /\ run[p].pc # "none"
  BY DEF RunnerAlive
<1>4. ~Unlaunched(p) /\ tree[p] # Stopped
  BY <1>3 DEF WorkerAlive, Unlaunched, NoTree, Stopped
<1> HIDE DEF p
<1> QED BY <1>2, <1>3, <1>4 DEF ParentInv, RunnerInv, Pcs, RunnerPcs, DelegatePcs

\* A resumed attempt's command does not run beside its parent's while the parent's
\* runner lives, as long as no live writer misses its heartbeats: one that does
\* may be declared blocked, and then be resumed, while it runs.
THEOREM ResumeIsExclusiveCorrect ==
  ASSUME Stalls = FALSE
  PROVE  Spec => []ResumeIsExclusive
<1>1. Init => ExclusiveInv
  <2> HAVE Init
  <2>1. IInv
    BY InitSafe
  <2>2. ASSUME NEW a \in Attempts PROVE BeatInv(a) /\ ParentInv(a)
    <3>1. run[a].pc = "none" /\ \A b \in Attempts : att[b].parent = 0
      BY DEF Init, NoRunner
    <3>2. 0 \notin Attempts
      BY AttemptsAssumption DEF Attempts
    <3> QED BY <3>1, <3>2 DEF BeatInv, ParentInv, Resumed
  <2> QED BY <2>1, <2>2 DEF ExclusiveInv
<1>2. ExclusiveInv /\ [Next]_vars => ExclusiveInv'
  <2> SUFFICES ASSUME ExclusiveInv, [Next]_vars PROVE ExclusiveInv'
    OBVIOUS
  <2>1. IInv'
    BY NextSafe DEF ExclusiveInv
  <2>2. CASE Next
    BY <2>1, <2>2, NextBeats DEF ExclusiveInv, Beats
  <2>3. CASE UNCHANGED vars
    <3>1. ASSUME NEW a \in Attempts PROVE BeatInv(a)' /\ ParentInv(a)'
      BY <2>3 DEF ExclusiveInv, BeatInv, ParentInv, Resumed, Attached, WorkerAlive, vars,
         stores, procs, bounds, history
    <3> QED BY <2>1, <3>1 DEF ExclusiveInv
  <2> QED BY <2>2, <2>3
<1> QED BY <1>1, <1>2, ExclusiveMeans, PTL DEF Spec

=============================================================================
