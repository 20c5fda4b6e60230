---------------------------- MODULE PlanRunProofs ----------------------------
(* What PlanRun keeps for every set of tasks, runners, modes and operator   *)
(* verbs, and every bound on claims and kills: leases and review evidence,  *)
(* and what reaches the tree - one worker and one patch per lease, and a    *)
(* done task whose patch is there.                                         *)
EXTENDS PlanRun, PlanTaskProofs

\* A plan-run and a worker that do nothing are typed.
LEMMA IdleTyped == IdleDriver \in Driver /\ NoWorker \in Worker
<1>1. NoTask \in Tasks BY ConstantsAssumption DEF NoTask
<1>2. IdleDriver \in Driver
  BY <1>1, AddedTyped, ReceiptTyped DEF IdleDriver, Driver, DriverPcs, AllModes, Rounds
<1>3. NoWorker \in Worker
  BY <1>1, AddedTyped DEF NoWorker, Worker, WorkerPcs
<1> QED BY <1>2, <1>3

-----------------------------------------------------------------------------
(* Type correctness, one lemma per process.                                *)

\* One field of a driver, or of a worker, at a time.
LEMMA DriverFields ==
  ASSUME NEW v \in Driver
  PROVE  /\ \A x \in DriverPcs : [v EXCEPT !.pc = x] \in Driver
         /\ \A x \in AllModes : [v EXCEPT !.mode = x] \in Driver
         /\ \A x \in Tasks : [v EXCEPT !.task = x] \in Driver
         /\ \A x \in Nat : [v EXCEPT !.lease = x] \in Driver
         /\ \A x \in BOOLEAN : [v EXCEPT !.owns = x] \in Driver
         /\ \A x \in Rounds : [v EXCEPT !.round = x] \in Driver
         /\ \A x \in Receipts : [v EXCEPT !.seen = x] \in Driver
BY DEF Driver

\* The same of a worker.
LEMMA WorkerFields ==
  ASSUME NEW v \in Worker
  PROVE  /\ \A x \in WorkerPcs : [v EXCEPT !.pc = x] \in Worker
         /\ \A x \in Nat : [v EXCEPT !.lease = x] \in Worker
         /\ \A x \in Row : [v EXCEPT !.frozen = x] \in Worker
         /\ \A x \in BOOLEAN : [v EXCEPT !.ok = x] \in Worker
BY DEF Worker

\* A plan-run that ends a task or itself.
LEMMA LeaveTyped ==
  ASSUME TypeOK, NEW d \in Runners
  PROVE  Leave(d) \in Driver /\ LandFails(d) \in Driver
BY IdleTyped DEF TypeOK, Leave, LandFails, Driver, DriverPcs

\* A worker that boots.
LEMMA BootTyped ==
  ASSUME NEW t \in Tasks, NEW b \in BOOLEAN PROVE Boot(t, b) \in Worker
BY IdleTyped DEF Boot, Worker, WorkerPcs

\* Every step of plan-run outside the landing gate.
LEMMA DriverTyped ==
  ASSUME TypeOK, NEW d \in Runners, DriverStep(d) PROVE TypeOK'
<1> USE VerbsTyped, IdleTyped, LeaveTyped
<1> USE DEF TypeOK
<1>1. CASE Begin(d)
  <2>1. plan' \in [Tasks -> Row] BY <1>1 DEF Begin
  <2>2. ASSUME NEW m \in Modes
        PROVE [[drv[d] EXCEPT !.pc = "pick"] EXCEPT !.mode = m] \in Driver
    <3>1. "pick" \in DriverPcs /\ m \in AllModes
      BY ConstantsAssumption DEF DriverPcs
    <3> QED BY <3>1, DriverFields
  <2>3. drv' \in [Runners -> Driver] BY <1>1, <2>2 DEF Begin
  <2> QED BY <1>1, <2>1, <2>3 DEF Begin
<1>2. CASE GiveUp(d)
  BY <1>2 DEF GiveUp
<1>3. CASE ClaimId(d)
  <2>1. [[drv[d] EXCEPT !.pc = "adopt"] EXCEPT !.owns = TRUE] \in Driver
    <3>1. [drv[d] EXCEPT !.pc = "adopt"] \in Driver
      BY DriverFields DEF DriverPcs
    <3> QED BY <3>1, DriverFields
  <2>2. drv' \in [Runners -> Driver] BY <1>3, <2>1 DEF ClaimId
  <2>3. drv[d].task \in Tasks BY DEF Driver
  <2>4. plan' \in [Tasks -> Row] BY <1>3, <2>3 DEF ClaimId
  <2> QED BY <1>3, <2>2, <2>4 DEF ClaimId
<1>4. CASE Adopt(d)
  <2> DEFINE r == plan[drv[d].task]
             pc(x) == [drv[d] EXCEPT !.pc = x]
             adopted(x) == [pc(x) EXCEPT !.lease = r.lease]
  <2>1. r.lease \in Nat BY DEF Driver, Row
  <2>2. \A x \in {"cleanup", "checks"} : adopted(x) \in Driver
    <3>1. \A x \in {"cleanup", "checks"} : pc(x) \in Driver
      BY DriverFields DEF DriverPcs
    <3> QED BY <2>1, <3>1, DriverFields
  <2>3. \A x \in Rounds : [adopted("checks") EXCEPT !.round = x] \in Driver
    BY <2>2, DriverFields
  <2>4. drv' \in [Runners -> Driver]
    BY <1>4, <2>2, <2>3 DEF Adopt, Rounds
  <2> QED BY <1>4, <2>4 DEF Adopt
<1>5. CASE ChecksFail(d)
  BY <1>5 DEF ChecksFail
<1>6. CASE Delegate(d)
  <2>1. [drv[d] EXCEPT !.pc = "wait"] \in Driver
    BY DriverFields DEF DriverPcs
  <2>2. drv' \in [Runners -> Driver] BY <1>6, <2>1 DEF Delegate, DrvGo
  <2>3. drv[d].task \in Tasks BY DEF Driver
  <2>4. wrk' \in [Runners -> Worker] BY <1>6, <2>3, BootTyped DEF Delegate
  <2> QED BY <1>6, <2>2, <2>4 DEF Delegate
<1>7. CASE Reap(d)
  <2>1. \A x \in {"land", "termShow", "block"} : [drv[d] EXCEPT !.pc = x] \in Driver
    BY DriverFields DEF DriverPcs
  <2>2. [[drv[d] EXCEPT !.pc = "land"] EXCEPT !.owns = FALSE] \in Driver
    BY <2>1, DriverFields
  <2>3. drv[d].round \in Rounds BY DEF Driver
  <2>4. drv' \in [Runners -> Driver]
    BY <1>7, <2>1, <2>2, <2>3 DEF Reap, Rounds
  <2>5. wrk' \in [Runners -> Worker] BY <1>7 DEF Reap
  <2> QED BY <1>7, <2>4, <2>5 DEF Reap
<1>8. CASE TermShow(d)
  <2>1. [drv[d] EXCEPT !.pc = "termBlock"] \in Driver
    BY DriverFields DEF DriverPcs
  <2>2. Leave(d) \in Driver BY LeaveTyped
  <2>3. drv' \in [Runners -> Driver]
    BY <1>8, <2>1, <2>2, IdleTyped DEF TermShow
  <2> QED BY <1>8, <2>3 DEF TermShow
<1>9. CASE TermBlock(d)
  <2>1. drv' \in [Runners -> Driver] BY <1>9 DEF TermBlock, BlockByLease
  <2>2. drv[d].task \in Tasks BY DEF Driver
  <2>3. plan' \in [Tasks -> Row] BY <1>9, <2>2 DEF TermBlock, BlockByLease
  <2> QED BY <1>9, <2>1, <2>3 DEF TermBlock, BlockByLease
<1>10. CASE ParkFailedRepair(d)
  <2>1. drv' \in [Runners -> Driver] BY <1>10 DEF ParkFailedRepair, BlockByLease
  <2>2. drv[d].task \in Tasks BY DEF Driver
  <2>3. plan' \in [Tasks -> Row] BY <1>10, <2>2 DEF ParkFailedRepair, BlockByLease
  <2> QED BY <1>10, <2>1, <2>3 DEF ParkFailedRepair, BlockByLease
<1>11. CASE CleanupShow(d)
  <2>1. [drv[d] EXCEPT !.pc = "release"] \in Driver
    BY DriverFields DEF DriverPcs
  <2>2. drv' \in [Runners -> Driver] BY <1>11, <2>1 DEF CleanupShow
  <2> QED BY <1>11, <2>2 DEF CleanupShow
<1>12. CASE CleanupRelease(d)
  <2>1. drv' \in [Runners -> Driver] BY <1>12 DEF CleanupRelease
  <2>2. drv[d].task \in Tasks BY DEF Driver
  <2>3. plan' \in [Tasks -> Row] BY <1>12, <2>2 DEF CleanupRelease
  <2> QED BY <1>12, <2>1, <2>3 DEF CleanupRelease
<1>13. CASE Signal(d)
  <2>1. [drv[d] EXCEPT !.pc = "stopping"] \in Driver
    BY DriverFields DEF DriverPcs
  <2>2. drv' \in [Runners -> Driver] BY <1>13, <2>1 DEF Signal
  <2> QED BY <1>13, <2>2 DEF Signal
<1>14. CASE Stopped(d)
  BY <1>14 DEF Stopped
<1>15. ASSUME NEW t \in Tasks, ClaimNext(d, t) PROVE TypeOK'
  <2>1. plan[t].epoch + 1 \in Nat BY DEF Row
  <2>2. [[[[drv[d] EXCEPT !.pc = "checks"] EXCEPT !.task = t] EXCEPT !.owns = TRUE]
           EXCEPT !.lease = plan[t].epoch + 1] \in Driver
    <3>1. [[drv[d] EXCEPT !.pc = "checks"] EXCEPT !.task = t] \in Driver
      BY DriverFields DEF DriverPcs
    <3> QED BY <2>1, <3>1, DriverFields
  <2>3. drv' \in [Runners -> Driver] BY <1>15, <2>2 DEF ClaimNext
  <2>4. plan' \in [Tasks -> Row] BY <1>15 DEF ClaimNext, SetRow
  <2> QED BY <1>15, <2>3, <2>4 DEF ClaimNext
<1>16. ASSUME NEW t \in Tasks, LookUp(d, t) PROVE TypeOK'
  <2> DEFINE go(x, round) == [drv[d] EXCEPT !.pc = x, !.task = t, !.lease = plan[t].lease,
                                            !.round = round]
  <2>1. plan[t].lease \in Nat BY DEF Row
  <2>2. ASSUME NEW x \in {"claim", "land", "checks"}, NEW round \in {"first", "resume"}
        PROVE  go(x, round) \in Driver
    <3>1. [[drv[d] EXCEPT !.pc = x] EXCEPT !.task = t] \in Driver
      BY DriverFields DEF DriverPcs
    <3>2. [[[drv[d] EXCEPT !.pc = x] EXCEPT !.task = t] EXCEPT !.lease = plan[t].lease] \in Driver
      BY <2>1, <3>1, DriverFields
    <3>3. round \in Rounds BY DEF Rounds
    <3> QED BY <3>2, <3>3, DriverFields
  <2>3. [go("claim", "first") EXCEPT !.lease = 0] \in Driver
    BY <2>2, DriverFields
  <2> HIDE DEF go
  <2>4. drv'[d] \in Driver
    BY <1>16, <2>2, <2>3 DEF LookUp, go
  <2>5. drv' \in [Runners -> Driver]
    BY <1>16, <2>4 DEF LookUp
  <2> QED BY <1>16, <2>5 DEF LookUp
<1> QED
  BY <1>1, <1>2, <1>3, <1>4, <1>5, <1>6, <1>7, <1>8, <1>9, <1>10, <1>11,
     <1>12, <1>13, <1>14, <1>15, <1>16 DEF DriverStep

\* Every step of a landing and of its repair.
LEMMA LandTyped ==
  ASSUME TypeOK, NEW d \in Runners, LandStep(d) PROVE TypeOK'
<1> USE VerbsTyped, IdleTyped, LeaveTyped
<1> USE DEF TypeOK
<1>1. CASE LandSnapshot(d)
  <2>1. \A x \in Receipts : [[drv[d] EXCEPT !.pc = "lock"] EXCEPT !.seen = x] \in Driver
    <3>1. [drv[d] EXCEPT !.pc = "lock"] \in Driver
      BY DriverFields DEF DriverPcs
    <3> QED BY <3>1, DriverFields
  <2>2. drv[d].task \in Tasks BY DEF Driver
  <2>3. Receipt(plan[drv[d].task]) \in Receipts BY <2>2, ReceiptTyped
  <2>4. drv' \in [Runners -> Driver] BY <1>1, <2>1, <2>3 DEF LandSnapshot
  <2> QED BY <1>1, <2>4 DEF LandSnapshot
<1>2. CASE LandLock(d)
  <2>1. [drv[d] EXCEPT !.pc = "admit"] \in Driver
    BY DriverFields DEF DriverPcs
  <2>2. drv' \in [Runners -> Driver]
    BY <1>2, <2>1 DEF LandLock, DrvGo
  <2>3. lander' \in Runners \cup {NoOne}
    BY <1>2 DEF LandLock
  <2> QED BY <1>2, <2>2, <2>3 DEF LandLock
<1>3. CASE Admit(d)
  <2>1. [drv[d] EXCEPT !.pc = "fence"] \in Driver
    BY DriverFields DEF DriverPcs
  <2>2. drv' \in [Runners -> Driver]
    BY <1>3, <2>1 DEF Admit, DrvGo
  <2>3. lander' \in Runners \cup {NoOne}
    BY <1>3 DEF Admit
  <2> QED BY <1>3, <2>2, <2>3 DEF Admit
<1>4. CASE Fence(d)
  <2>1. [drv[d] EXCEPT !.pc = "apply"] \in Driver
    BY DriverFields DEF DriverPcs
  <2>2. drv' \in [Runners -> Driver] BY <1>4, <2>1 DEF Fence
  <2>3. drv[d].task \in Tasks BY DEF Driver
  <2>4. plan' \in [Tasks -> Row] BY <1>4, <2>3 DEF Fence
  <2>5. lander' \in Runners \cup {NoOne} BY <1>4 DEF Fence
  <2> QED BY <1>4, <2>2, <2>4, <2>5 DEF Fence
<1>5. CASE ApplyFails(d)
  <2>1. drv' \in [Runners -> Driver] BY <1>5 DEF ApplyFails
  <2>2. drv[d].task \in Tasks BY DEF Driver
  <2>3. plan' \in [Tasks -> Row] BY <1>5, <2>2 DEF ApplyFails
  <2>4. lander' \in Runners \cup {NoOne} BY <1>5 DEF ApplyFails
  <2> QED BY <1>5, <2>1, <2>3, <2>4 DEF ApplyFails
<1>6. CASE Apply(d)
  <2>1. [drv[d] EXCEPT !.pc = "finish"] \in Driver
    BY DriverFields DEF DriverPcs
  <2>2. drv' \in [Runners -> Driver]
    BY <1>6, <2>1 DEF Apply, DrvGo
  <2>3. drv[d].seen.patch \in Patches BY DEF Driver, Receipts
  <2>4. applied' \in [Tasks -> SUBSET Patches]
    BY <1>6, <2>3 DEF Apply
  <2> QED BY <1>6, <2>2, <2>4 DEF Apply
<1>7. CASE Finish(d)
  <2>1. drv' \in [Runners -> Driver] BY <1>7 DEF Finish
  <2>2. drv[d].task \in Tasks BY DEF Driver
  <2>3. plan' \in [Tasks -> Row] BY <1>7, <2>2 DEF Finish
  <2>4. lander' \in Runners \cup {NoOne} BY <1>7 DEF Finish
  <2> QED BY <1>7, <2>1, <2>3, <2>4 DEF Finish
<1>8. CASE Repair(d)
  <2>1. \A x \in {"wait", "block"} : [drv[d] EXCEPT !.pc = x] \in Driver
    BY DriverFields DEF DriverPcs
  <2>2. [[drv[d] EXCEPT !.pc = "wait"] EXCEPT !.round = "repair"] \in Driver
    BY <2>1, DriverFields DEF Rounds
  <2>3. drv' \in [Runners -> Driver]
    BY <1>8, <2>1, <2>2 DEF Repair
  <2>4. drv[d].task \in Tasks BY DEF Driver
  <2>5. plan' \in [Tasks -> Row] /\ wrk' \in [Runners -> Worker]
    BY <1>8, <2>4, BootTyped DEF Repair
  <2> QED BY <1>8, <2>3, <2>5 DEF Repair
<1> QED
  BY <1>1, <1>2, <1>3, <1>4, <1>5, <1>6, <1>7, <1>8 DEF LandStep

\* Every step of a delegate.
LEMMA WorkerTyped ==
  ASSUME TypeOK, NEW d \in Runners, WorkerStep(d) PROVE TypeOK'
<1> USE VerbsTyped, IdleTyped
<1> USE DEF TypeOK
<1>1. CASE Snapshot(d)
  <2> DEFINE r == plan[wrk[d].task]
  <2>1. r.lease \in Nat BY DEF Worker, Row
  <2>2. \A x \in {"snapped", "exited"} : [wrk[d] EXCEPT !.pc = x] \in Worker
    BY WorkerFields DEF WorkerPcs
  <2>3. [[wrk[d] EXCEPT !.pc = "snapped"] EXCEPT !.lease = r.lease] \in Worker
    BY <2>1, <2>2, WorkerFields
  <2>4. wrk' \in [Runners -> Worker]
    BY <1>1, <2>2, <2>3 DEF Snapshot
  <2> QED BY <1>1, <2>4 DEF Snapshot
<1>2. CASE Register(d)
  <2>1. [wrk[d] EXCEPT !.pc = "marked"] \in Worker
    BY WorkerFields DEF WorkerPcs
  <2>2. wrk' \in [Runners -> Worker] BY <1>2, <2>1 DEF Register, WrkGo
  <2>3. MyMarker(d) \in Marker BY DEF MyMarker, Marker, Worker
  <2> QED BY <1>2, <2>2, <2>3 DEF Register
<1>3. CASE Start(d)
  <2>1. \A x \in {"started", "exiting"} : [wrk[d] EXCEPT !.pc = x] \in Worker
    BY WorkerFields DEF WorkerPcs
  <2>2. wrk' \in [Runners -> Worker] BY <1>3, <2>1 DEF Start, WrkGo
  <2>3. wrk[d].task \in Tasks BY DEF Worker
  <2>4. plan' \in [Tasks -> Row] BY <1>3, <2>3 DEF Start
  <2> QED BY <1>3, <2>2, <2>4 DEF Start
<1>4. CASE Freeze(d)
  <2>1. \A x \in {"working", "failing"} : [wrk[d] EXCEPT !.pc = x] \in Worker
    BY WorkerFields DEF WorkerPcs
  <2>2. plan[wrk[d].task] \in Row BY DEF Worker
  <2>3. [[wrk[d] EXCEPT !.pc = "working"] EXCEPT !.frozen = plan[wrk[d].task]] \in Worker
    BY <2>1, <2>2, WorkerFields
  <2>4. wrk' \in [Runners -> Worker] BY <1>4, <2>1, <2>3 DEF Freeze
  <2> QED BY <1>4, <2>4 DEF Freeze
<1>5. CASE Guard(d)
  <2>1. \A x \in {"restoring", "publishing", "failing"} : [wrk[d] EXCEPT !.pc = x] \in Worker
    BY WorkerFields DEF WorkerPcs
  <2>2. wrk' \in [Runners -> Worker] BY <1>5, <2>1 DEF Guard, WrkGo
  <2> QED BY <1>5, <2>2 DEF Guard
<1>6. CASE Restore(d)
  <2>1. [wrk[d] EXCEPT !.pc = "failing"] \in Worker
    BY WorkerFields DEF WorkerPcs
  <2>2. wrk' \in [Runners -> Worker] BY <1>6, <2>1 DEF Restore, WrkGo
  <2>3. wrk[d].task \in Tasks /\ wrk[d].frozen \in Row BY DEF Worker
  <2>4. plan' \in [Tasks -> Row] BY <1>6, <2>3, RestoredTyped DEF Restore, SetRow
  <2> QED BY <1>6, <2>2, <2>4 DEF Restore
<1>7. CASE Publish(d)
  <2>1. MyPatch(d) \in Patches
    <3>1. wrk[d].lease \in Nat /\ wrk[d].frozen \in Row BY DEF Worker
    <3>2. wrk[d].frozen.repair \in {0, 1} BY <3>1 DEF Row
    <3> QED BY <3>1, <3>2 DEF MyPatch, Patches
  <2>2. plan' \in [Tasks -> Row]
    BY <1>7, <2>1, ReviewedTyped DEF Publish
  <2>3. \A x \in {"exiting", "retrying"}, b \in BOOLEAN :
          [[wrk[d] EXCEPT !.pc = x] EXCEPT !.ok = b] \in Worker
    BY WorkerFields DEF WorkerPcs
  <2>4. wrk' \in [Runners -> Worker]
    <3> DEFINE can == Loads /\ CanReview(plan[wrk[d].task], wrk[d].lease)
    <3>1. CASE can BY <1>7, <2>3, <3>1 DEF Publish
    <3>2. CASE ~can BY <1>7, <2>3, <3>2 DEF Publish, AfterFailure
    <3> QED BY <3>1, <3>2
  <2> QED BY <1>7, <2>2, <2>4 DEF Publish
<1>8. CASE Fail(d)
  <2>1. \A x \in {"exiting", "retrying"} : [wrk[d] EXCEPT !.pc = x] \in Worker
    BY WorkerFields DEF WorkerPcs
  <2>2. wrk' \in [Runners -> Worker] BY <1>8, <2>1 DEF Fail, AfterFailure, WrkGo
  <2>3. wrk[d].task \in Tasks BY DEF Worker
  <2>4. plan' \in [Tasks -> Row] BY <1>8, <2>3 DEF Fail
  <2> QED BY <1>8, <2>2, <2>4 DEF Fail
<1>9. CASE Abort(d)
  <2>1. \A x \in {"exiting", "retrying"} : [wrk[d] EXCEPT !.pc = x] \in Worker
    BY WorkerFields DEF WorkerPcs
  <2>2. wrk' \in [Runners -> Worker] BY <1>9, <2>1 DEF Abort, WrkGo
  <2> QED BY <1>9, <2>2 DEF Abort
<1>10. CASE Exit(d)
  <2>1. \A x \in BOOLEAN : [[NoWorker EXCEPT !.pc = "exited"] EXCEPT !.ok = x] \in Worker
    BY WorkerFields DEF WorkerPcs
  <2>2. wrk[d].ok \in BOOLEAN BY DEF Worker
  <2>3. wrk' \in [Runners -> Worker] BY <1>10, <2>1, <2>2 DEF Exit
  <2> QED BY <1>10, <2>3 DEF Exit
<1> QED
  BY <1>1, <1>2, <1>3, <1>4, <1>5, <1>6, <1>7, <1>8, <1>9, <1>10 DEF WorkerStep

\* Kills, gc, the clock and the operator.
LEMMA OtherTyped ==
  ASSUME TypeOK,
         \/ \E d \in Runners : KillDriver(d) \/ KillWorker(d)
         \/ \E m \in markers : CollectMarker(m)
         \/ \E t \in Tasks : Age(t)
         \/ OperatorStep
  PROVE  TypeOK'
<1> USE VerbsTyped, IdleTyped
<1> USE DEF TypeOK
<1>1. ASSUME NEW d \in Runners, KillDriver(d) PROVE TypeOK'
  BY <1>1 DEF KillDriver
<1>2. ASSUME NEW d \in Runners, KillWorker(d) PROVE TypeOK'
  <2>1. [NoWorker EXCEPT !.pc = "exited"] \in Worker
    BY WorkerFields DEF WorkerPcs
  <2>2. wrk' \in [Runners -> Worker] BY <1>2, <2>1 DEF KillWorker
  <2>3. \A m \in markers : [m EXCEPT !.by = NoOne] \in Marker BY DEF Marker
  <2>4. markers' \subseteq Marker BY <1>2, <2>3 DEF KillWorker
  <2>5. crashes' \in Nat BY <1>2 DEF KillWorker
  <2> QED BY <1>2, <2>2, <2>4, <2>5 DEF KillWorker
<1>3. ASSUME NEW m \in markers, CollectMarker(m) PROVE TypeOK'
  BY <1>3 DEF CollectMarker, Marker
<1>4. ASSUME NEW t \in Tasks, Age(t) PROVE TypeOK'
  BY <1>4 DEF Age, SetRow
<1>5. ASSUME NEW t \in Tasks, OperatorRow(t) PROVE TypeOK'
  BY <1>5 DEF OperatorRow, SetRow
<1>6. ASSUME NEW t \in Tasks, OperatorCancel(t) PROVE TypeOK'
  BY <1>6 DEF OperatorCancel, SetRow
<1>7. ASSUME NEW t \in Tasks, OperatorReclaim(t) PROVE TypeOK'
  BY <1>7 DEF OperatorReclaim, SetRow
<1>8. ASSUME NEW t \in Tasks, OperatorFinish(t) PROVE TypeOK'
  <2>1. plan[t].patch \in Patches BY DEF Row
  <2>2. applied' \in [Tasks -> SUBSET Patches] BY <1>8, <2>1 DEF OperatorFinish
  <2>3. plan' \in [Tasks -> Row] BY <1>8 DEF OperatorFinish, SetRow
  <2> QED BY <1>8, <2>2, <2>3 DEF OperatorFinish
<1>9. ASSUME NEW d \in Runners, NEW t \in Tasks, OperatorDelegate(d, t) PROVE TypeOK'
  BY <1>9, BootTyped DEF OperatorDelegate
<1> QED
  BY <1>1, <1>2, <1>3, <1>4, <1>5, <1>6, <1>7, <1>8, <1>9 DEF OperatorStep

\* Every step, operator and failures included.
LEMMA TypeStep == TypeOK /\ [Next]_vars => TypeOK'
<1> SUFFICES ASSUME TypeOK, [Next]_vars PROVE TypeOK'
  OBVIOUS
<1>1. CASE Next
  BY <1>1, DriverTyped, LandTyped, WorkerTyped, OtherTyped DEF Next
<1>2. CASE UNCHANGED vars
  BY <1>2 DEF vars, TypeOK
<1> QED BY <1>1, <1>2

\* Every variable keeps its type, whatever the processes and the operator do.
THEOREM TypeCorrect == Spec => []TypeOK
<1>1. Init => TypeOK
  BY AddedTyped, IdleTyped, ConstantsAssumption DEF Init, TypeOK
<1> QED BY <1>1, TypeStep, PTL DEF Spec

-----------------------------------------------------------------------------
(* How one row moves in one step.  The invariants below are proved by cases *)
(* on this list of verbs and not on the list of actions.                    *)

RowMove(t) ==
  LET r == plan[t]
      s == plan'[t]
  IN \/ s = r
     \/ s \in {ClearClaim(r), Touched(r), Blocked(r), [r EXCEPT !.aged = TRUE]}
     \/ r.state \in {"ready", "claimed"} /\ s = Claimed(r)
     \/ r.state = "claimed" /\ s = Started(r)
     \/ r.state = "review" /\ s = Fenced(r)
     \/ r.state = "review" /\ r.repair = 0 /\ s = Repaired(r)
     \/ OperatorCancel(t) /\ r.state \in {"ready", "blocked"} /\ s = Cancelled(r)
     \/ OperatorFinish(t) /\ r.state = "review" /\ s = Finished(r)
     \/ \E d \in Runners : /\ drv[d].pc = "finish" /\ drv[d].task = t
                           /\ r.state = "landing" /\ Receipt(r) = drv[d].seen
                           /\ s = Finished(r)
     \/ \E d \in Runners : /\ wrk[d].pc = "restoring" /\ wrk[d].task = t
                           /\ s = Restored(r, wrk[d].frozen)
     \/ \E d \in Runners : /\ Publish(d) /\ wrk[d].task = t
                           /\ CanReview(r, wrk[d].lease)
                           /\ s = Reviewed(r, MyPatch(d))

\* A step that does not write the plan moves no row.
LEMMA PlanStays == ASSUME plan' = plan PROVE \A t \in Tasks : RowMove(t)
BY DEF RowMove

\* A command that moves task t, or does nothing, moves no other.
LEMMA OneRowMoves ==
  ASSUME TypeOK, NEW t \in Tasks, NEW r,
         plan' = plan \/ plan' = [plan EXCEPT ![t] = r],
         plan'[t] = r => RowMove(t)
  PROVE  \A x \in Tasks : RowMove(x)
<1>1. CASE plan' = plan BY <1>1, PlanStays
<1>2. CASE plan' = [plan EXCEPT ![t] = r]
  <2>1. plan'[t] = r BY <1>2 DEF TypeOK
  <2>2. ASSUME NEW x \in Tasks, x # t PROVE RowMove(x)
    <3>1. plan'[x] = plan[x] BY <1>2, <2>2 DEF TypeOK
    <3> QED BY <3>1 DEF RowMove
  <2> QED BY <2>1, <2>2
<1> QED BY <1>1, <1>2

\* The verbs plan-run issues.
LEMMA DriverMovesRows ==
  ASSUME TypeOK, NEW d \in Runners, DriverStep(d)
  PROVE  \A t \in Tasks : RowMove(t)
<1> DEFINE x == drv[d].task
<1>1. x \in Tasks BY DEF TypeOK, Driver
<1> HIDE DEF x
<1>2. CASE Begin(d)
  <2>1. ASSUME NEW t \in Tasks PROVE plan'[t] \in {plan[t], ClearClaim(plan[t])}
    BY <1>2 DEF Begin, TypeOK
  <2> QED BY <2>1 DEF RowMove
<1>3. CASE ClaimId(d)
  <2>1. \/ plan' = plan
        \/ plan[x].state = "ready" /\ plan' = [plan EXCEPT ![x] = Claimed(plan[x])]
    BY <1>3 DEF ClaimId, CanClaim, x
  <2> QED BY <1>1, <2>1, PlanStays, OneRowMoves DEF RowMove
<1>4. CASE TermBlock(d) \/ ParkFailedRepair(d)
  <2>1. plan' = plan \/ plan' = [plan EXCEPT ![x] = Blocked(plan[x])]
    BY <1>4 DEF TermBlock, ParkFailedRepair, BlockByLease, x
  <2> QED BY <1>1, <2>1, OneRowMoves DEF RowMove
<1>5. CASE CleanupRelease(d)
  <2>1. plan' = plan \/ plan' = [plan EXCEPT ![x] = ClearClaim(plan[x])]
    BY <1>5 DEF CleanupRelease, x
  <2> QED BY <1>1, <2>1, OneRowMoves DEF RowMove
<1>6. ASSUME NEW t \in Tasks, ClaimNext(d, t) PROVE \A y \in Tasks : RowMove(y)
  <2>1. plan[t].state \in {"ready", "claimed"} /\ plan' = [plan EXCEPT ![t] = Claimed(plan[t])]
    BY <1>6 DEF ClaimNext, SetRow, Actionable, ClaimExpired
  <2> QED BY <2>1, OneRowMoves DEF RowMove
<1>7. CASE plan' = plan
  BY <1>7, PlanStays
<1> QED
  BY <1>2, <1>3, <1>4, <1>5, <1>6, <1>7
     DEF DriverStep, GiveUp, Adopt, ChecksFail, Delegate, Reap, TermShow,
         CleanupShow, Signal, Stopped, LookUp

\* The verbs a landing issues.
LEMMA LandMovesRows ==
  ASSUME TypeOK, NEW d \in Runners, LandStep(d)
  PROVE  \A t \in Tasks : RowMove(t)
<1> DEFINE x == drv[d].task
<1>1. x \in Tasks BY DEF TypeOK, Driver
<1>2. CASE Fence(d)
  <2>1. \/ plan' = plan
        \/ plan[x].state = "review" /\ plan' = [plan EXCEPT ![x] = Fenced(plan[x])]
    BY <1>2 DEF Fence, CanLand, NamesReview
  <2> HIDE DEF x
  <2> QED BY <1>1, <2>1, PlanStays, OneRowMoves DEF RowMove
<1>3. CASE ApplyFails(d)
  <2>1. plan' = plan \/ plan' = [plan EXCEPT ![x] = ClearClaim(plan[x])]
    BY <1>3 DEF ApplyFails
  <2> HIDE DEF x
  <2> QED BY <1>1, <2>1, OneRowMoves DEF RowMove
<1>4. CASE Finish(d)
  <2>1. \/ plan' = plan
        \/ /\ drv[d].pc = "finish" /\ plan[x].state = "landing"
           /\ Receipt(plan[x]) = drv[d].seen
           /\ plan' = [plan EXCEPT ![x] = Finished(plan[x])]
    BY <1>4 DEF Finish, CanFinish
  <2>2. CASE plan' = plan BY <2>2, PlanStays
  <2>3. CASE plan' # plan
    <3>1. ASSUME plan'[x] = Finished(plan[x]) PROVE RowMove(x)
      BY <2>1, <2>3, <3>1 DEF RowMove
    <3> HIDE DEF x
    <3> QED BY <1>1, <2>1, <2>3, <3>1, OneRowMoves
  <2> QED BY <2>2, <2>3
<1>5. CASE Repair(d)
  <2>1. \/ plan' = plan
        \/ /\ plan[x].state = "review" /\ plan[x].repair = 0
           /\ plan' = [plan EXCEPT ![x] = Repaired(plan[x])]
    BY <1>5 DEF Repair, CanRepair, NamesReview
  <2> HIDE DEF x
  <2> QED BY <1>1, <2>1, PlanStays, OneRowMoves DEF RowMove
<1>6. CASE plan' = plan
  BY <1>6, PlanStays
<1> QED
  BY <1>2, <1>3, <1>4, <1>5, <1>6
     DEF LandStep, LandSnapshot, LandLock, Admit, Apply

\* The verbs a delegate issues, and its restore.
LEMMA WorkerMovesRows ==
  ASSUME TypeOK, NEW d \in Runners, WorkerStep(d)
  PROVE  \A t \in Tasks : RowMove(t)
<1> DEFINE x == wrk[d].task
<1>1. x \in Tasks BY DEF TypeOK, Worker
<1>2. CASE Start(d)
  <2>1. \/ plan' = plan
        \/ plan[x].state = "claimed" /\ plan' = [plan EXCEPT ![x] = Started(plan[x])]
    BY <1>2 DEF Start, CanStart
  <2> HIDE DEF x
  <2> QED BY <1>1, <2>1, PlanStays, OneRowMoves DEF RowMove
<1>3. CASE Restore(d)
  <2>1. plan' = [plan EXCEPT ![x] = Restored(plan[x], wrk[d].frozen)]
    BY <1>3 DEF Restore, SetRow
  <2>2. ASSUME plan'[x] = Restored(plan[x], wrk[d].frozen) PROVE RowMove(x)
    BY <1>3, <2>2 DEF RowMove, Restore
  <2> HIDE DEF x
  <2> QED BY <1>1, <2>1, <2>2, OneRowMoves
<1>4. CASE Publish(d)
  <2>1. \/ plan' = plan
        \/ /\ CanReview(plan[x], wrk[d].lease)
           /\ plan' = [plan EXCEPT ![x] = Reviewed(plan[x], MyPatch(d))]
    BY <1>4 DEF Publish
  <2>2. CASE plan' = plan BY <2>2, PlanStays
  <2>3. CASE plan' # plan
    <3>1. ASSUME plan'[x] = Reviewed(plan[x], MyPatch(d)) PROVE RowMove(x)
      BY <1>4, <2>1, <2>3, <3>1 DEF RowMove
    <3> HIDE DEF x
    <3> QED BY <1>1, <2>1, <2>3, <3>1, OneRowMoves
  <2> QED BY <2>2, <2>3
<1>5. CASE Fail(d)
  <2>1. \/ plan' = plan
        \/ plan' = [plan EXCEPT ![x] = Blocked(plan[x])]
        \/ plan' = [plan EXCEPT ![x] = ClearClaim(plan[x])]
    BY <1>5 DEF Fail
  <2> HIDE DEF x
  <2> QED BY <1>1, <2>1, OneRowMoves DEF RowMove
<1>6. CASE plan' = plan
  BY <1>6, PlanStays
<1> QED
  BY <1>2, <1>3, <1>4, <1>5, <1>6
     DEF WorkerStep, Snapshot, Register, Freeze, Guard, Abort, Exit

\* The verbs typed by hand.
LEMMA OperatorMovesRows ==
  ASSUME TypeOK, NEW t \in Tasks,
         \/ Age(t) \/ OperatorRow(t) \/ OperatorCancel(t) \/ OperatorReclaim(t)
         \/ OperatorFinish(t)
  PROVE  \A x \in Tasks : RowMove(x)
<1>1. CASE Age(t)
  BY <1>1, OneRowMoves DEF Age, SetRow, RowMove
<1>2. CASE OperatorRow(t)
  <2>1. \/ plan[t].state = "ready" /\ plan' = [plan EXCEPT ![t] = Claimed(plan[t])]
        \/ \E r \in {Blocked(plan[t]), ClearClaim(plan[t]), Touched(plan[t])} :
             plan' = [plan EXCEPT ![t] = r]
    BY <1>2 DEF OperatorRow, CanClaim, SetRow
  <2> QED BY <2>1, OneRowMoves DEF RowMove
<1>3. CASE OperatorCancel(t)
  BY <1>3, OneRowMoves DEF OperatorCancel, SetRow, CanCancel, RowMove
<1>4. CASE OperatorReclaim(t)
  BY <1>4, OneRowMoves DEF OperatorReclaim, SetRow, RowMove
<1>5. CASE OperatorFinish(t)
  <2>1. plan[t].state = "review" /\ plan' = [plan EXCEPT ![t] = Finished(plan[t])]
    BY <1>5 DEF OperatorFinish, CanFinishCommit, SetRow
  <2> QED BY <1>5, <2>1, OneRowMoves DEF RowMove
<1> QED BY <1>1, <1>2, <1>3, <1>4, <1>5

\* No step of the system moves a row in another way.
LEMMA RowsMove == ASSUME TypeOK, [Next]_vars PROVE \A t \in Tasks : RowMove(t)
<1>1. ASSUME NEW m \in markers, CollectMarker(m) PROVE \A t \in Tasks : RowMove(t)
  <2>1. m.task \in Tasks BY DEF TypeOK, Marker
  <2>2. plan' = plan \/ plan' = [plan EXCEPT ![m.task] = ClearClaim(plan[m.task])]
    BY <1>1 DEF CollectMarker
  <2> QED BY <2>1, <2>2, OneRowMoves DEF RowMove
<1>2. CASE plan' = plan
  BY <1>2, PlanStays
<1> QED
  BY <1>1, <1>2, DriverMovesRows, LandMovesRows, WorkerMovesRows, OperatorMovesRows
     DEF Next, vars, KillDriver, KillWorker, OperatorStep, OperatorDelegate

-----------------------------------------------------------------------------
(* How one worker moves in one step.                                       *)

\* From its `start` to its outcome, the restore included.
Busy == {"started", "working", "restoring", "publishing"}

AttemptMove(c) ==
  LET w == wrk[c]
      v == wrk'[c]
      r == plan[w.task]
  IN \/ v = w
     \/ /\ v.pc \notin Busy
        /\ \/ v.frozen = Added
           \/ v.frozen = w.frozen /\ v.task = w.task
     \/ /\ w.pc = "marked" /\ v = [w EXCEPT !.pc = "started"]
        /\ CanStart(r, w.lease) /\ plan' = [plan EXCEPT ![w.task] = Started(r)]
        /\ \A e \in Runners \ {c} : wrk'[e] = wrk[e]
     \/ /\ w.pc = "started" /\ v = [w EXCEPT !.pc = "working", !.frozen = r]
        /\ w.lease # 0 /\ r.lease = w.lease
        /\ plan' = plan
     \/ /\ w.pc = "working" /\ plan' = plan
        /\ v \in {[w EXCEPT !.pc = "restoring"], [w EXCEPT !.pc = "publishing"]}

\* A step that leaves all workers alone moves none.
LEMMA AttemptsStay == ASSUME wrk' = wrk PROVE \A c \in Runners : AttemptMove(c)
BY DEF AttemptMove

\* A step of one worker moves no other.
LEMMA OneAttemptMoves ==
  ASSUME TypeOK, NEW d \in Runners, NEW w,
         wrk' = [wrk EXCEPT ![d] = w], wrk'[d] = w => AttemptMove(d)
  PROVE  \A c \in Runners : AttemptMove(c)
<1>1. wrk'[d] = w BY DEF TypeOK
<1>2. \A c \in Runners \ {d} : wrk'[c] = wrk[c] BY DEF TypeOK
<1>3. \A c \in Runners \ {d} : AttemptMove(c) BY <1>2 DEF AttemptMove
<1> QED BY <1>1, <1>3

\* A worker that boots or has exited is not busy.
LEMMA FreshAttempts ==
  ASSUME NEW t \in Tasks, NEW b \in BOOLEAN
  PROVE  \A w \in {NoWorker, Boot(t, b), [NoWorker EXCEPT !.pc = "exited"],
                   [NoWorker EXCEPT !.pc = "exited", !.ok = b]} :
           w.pc \notin Busy /\ w.frozen = Added
<1>1. NoWorker.pc = "none" /\ NoWorker.frozen = Added
  BY DEF NoWorker
<1>2. Boot(t, b).pc = "boot" /\ Boot(t, b).frozen = Added
  BY DEF Boot, NoWorker
<1>3. /\ [NoWorker EXCEPT !.pc = "exited"].pc = "exited"
      /\ [NoWorker EXCEPT !.pc = "exited"].frozen = Added
  BY DEF NoWorker
<1>4. /\ [NoWorker EXCEPT !.pc = "exited", !.ok = b].pc = "exited"
      /\ [NoWorker EXCEPT !.pc = "exited", !.ok = b].frozen = Added
  BY DEF NoWorker
<1> QED BY <1>1, <1>2, <1>3, <1>4 DEF Busy

\* How a delegate moves through its attempt.
LEMMA WorkerMovesAttempts ==
  ASSUME TypeOK, NEW d \in Runners, WorkerStep(d)
  PROVE  \A c \in Runners : AttemptMove(c)
<1> DEFINE w == wrk[d]
           w2 == wrk'[d]
<1>1. w \in Worker /\ wrk \in [Runners -> Worker] /\ w.ok \in BOOLEAN /\ w.task \in Tasks
  BY DEF TypeOK, Worker
<1>2. ASSUME NEW v, wrk' = [wrk EXCEPT ![d] = v], wrk'[d] = v => AttemptMove(d)
      PROVE  \A c \in Runners : AttemptMove(c)
  BY <1>2, OneAttemptMoves
<1>3. CASE Start(d)
  <2>1. CASE Loads /\ CanStart(plan[w.task], w.lease)
    <3>1. wrk' = [wrk EXCEPT ![d] = [w EXCEPT !.pc = "started"]]
      BY <1>3, <2>1 DEF Start, WrkGo
    <3>2. w.pc = "marked" /\ plan' = [plan EXCEPT ![w.task] = Started(plan[w.task])]
      BY <1>3, <2>1 DEF Start
    <3>3. wrk'[d] = [w EXCEPT !.pc = "started"] => AttemptMove(d)
      BY <1>1, <2>1, <3>1, <3>2 DEF AttemptMove
    <3> QED BY <1>2, <3>1, <3>3
  <2>2. CASE ~(Loads /\ CanStart(plan[w.task], w.lease))
    <3>1. wrk' = [wrk EXCEPT ![d] = [w EXCEPT !.pc = "exiting"]]
      BY <1>3, <2>2 DEF Start, WrkGo
    <3>2. wrk'[d] = [w EXCEPT !.pc = "exiting"] => AttemptMove(d)
      BY <1>1 DEF AttemptMove, Worker, Busy
    <3> QED BY <1>2, <3>1, <3>2
  <2> QED BY <2>1, <2>2
<1>4. CASE Freeze(d)
  <2>1. CASE w.lease # 0 /\ plan[w.task].lease = w.lease
    <3>1. wrk' = [wrk EXCEPT ![d] = [w EXCEPT !.pc = "working", !.frozen = plan[w.task]]]
      BY <1>4, <2>1 DEF Freeze
    <3>2. wrk'[d] = [w EXCEPT !.pc = "working", !.frozen = plan[w.task]] => AttemptMove(d)
      BY <1>4, <2>1 DEF AttemptMove, Freeze
    <3> QED BY <1>2, <3>1, <3>2
  <2>2. CASE ~(w.lease # 0 /\ plan[w.task].lease = w.lease)
    <3>1. wrk' = [wrk EXCEPT ![d] = [w EXCEPT !.pc = "failing"]]
      BY <1>4, <2>2 DEF Freeze
    <3>2. wrk'[d] = [w EXCEPT !.pc = "failing"] => AttemptMove(d)
      BY <1>1 DEF AttemptMove, Worker, Busy
    <3> QED BY <1>2, <3>1, <3>2
  <2> QED BY <2>1, <2>2
<1>5. CASE Guard(d)
  <2>1. PICK x \in {"restoring", "publishing", "failing"} :
          wrk' = [wrk EXCEPT ![d] = [w EXCEPT !.pc = x]]
    BY <1>5 DEF Guard, WrkGo
  <2>2. w.pc = "working" /\ plan' = plan BY <1>5 DEF Guard
  <2>3. wrk'[d] = [w EXCEPT !.pc = x] => AttemptMove(d)
    BY <1>1, <2>2 DEF AttemptMove, Worker, Busy
  <2> QED BY <1>2, <2>1, <2>3
<1>6. CASE /\ w2.pc \notin Busy
           /\ \/ w2.frozen = Added
              \/ w2.frozen = w.frozen /\ w2.task = w.task
           /\ \A c \in Runners \ {d} : wrk'[c] = wrk[c]
  BY <1>6 DEF AttemptMove
<1>7. CASE Snapshot(d)
  BY <1>1, <1>6, <1>7 DEF Snapshot, Worker, Busy
<1>8. CASE Register(d)
  BY <1>1, <1>6, <1>8 DEF Register, WrkGo, Worker, Busy
<1>9. CASE Restore(d)
  BY <1>1, <1>6, <1>9 DEF Restore, WrkGo, Worker, Busy
<1>10. CASE Publish(d)
  BY <1>1, <1>6, <1>10 DEF Publish, AfterFailure, Worker, Busy
<1>11. CASE Fail(d)
  BY <1>1, <1>6, <1>11 DEF Fail, AfterFailure, WrkGo, Worker, Busy
<1>12. CASE Abort(d)
  BY <1>1, <1>6, <1>12 DEF Abort, WrkGo, Worker, Busy
<1>13. CASE Exit(d)
  <2> DEFINE v == [NoWorker EXCEPT !.pc = "exited", !.ok = w.ok]
  <2>1. v.pc \notin Busy /\ v.frozen = Added BY <1>1, FreshAttempts
  <2>2. wrk' = [wrk EXCEPT ![d] = v] BY <1>13 DEF Exit
  <2> HIDE DEF v
  <2>3. wrk'[d] = v => AttemptMove(d) BY <2>1 DEF AttemptMove
  <2> QED BY <1>2, <2>2, <2>3
<1> QED
  BY <1>3, <1>4, <1>5, <1>7, <1>8, <1>9, <1>10, <1>11, <1>12, <1>13 DEF WorkerStep

\* No step of the system moves a worker in another way.
LEMMA AttemptsMove == ASSUME TypeOK, [Next]_vars PROVE \A c \in Runners : AttemptMove(c)
<1>1. CASE wrk' = wrk
  BY <1>1, AttemptsStay
<1>2. ASSUME NEW d \in Runners, NEW w, w.pc \notin Busy, w.frozen = Added,
             wrk' = [wrk EXCEPT ![d] = w]
      PROVE  \A c \in Runners : AttemptMove(c)
  <2>1. ASSUME wrk'[d] = w PROVE AttemptMove(d)
    <3>1. wrk'[d].pc \notin Busy /\ wrk'[d].frozen = Added BY <1>2, <2>1
    <3> QED BY <3>1 DEF AttemptMove
  <2> QED BY <1>2, <2>1, OneAttemptMoves
<1>3. ASSUME NEW d \in Runners, Delegate(d) \/ Reap(d) \/ Stopped(d) \/ Repair(d) \/ KillWorker(d)
      PROVE  \A c \in Runners : AttemptMove(c)
  <2>1. drv[d].task \in Tasks BY DEF TypeOK, Driver
  <2>2. CASE Delegate(d) BY <2>1, <2>2, <1>2, FreshAttempts DEF Delegate
  <2>3. CASE Reap(d) BY <2>1, <2>3, <1>2, FreshAttempts DEF Reap
  <2>4. CASE Stopped(d) BY <2>1, <2>4, <1>2, FreshAttempts DEF Stopped
  <2>5. CASE Repair(d) BY <2>1, <2>5, <1>1, <1>2, FreshAttempts DEF Repair
  <2>6. CASE KillWorker(d)
    <3> DEFINE w == [NoWorker EXCEPT !.pc = "exited"]
    <3>1. w.pc \notin Busy /\ w.frozen = Added BY <2>1, FreshAttempts
    <3>2. wrk' = [wrk EXCEPT ![d] = w] BY <2>6 DEF KillWorker
    <3> HIDE DEF w
    <3> QED BY <1>2, <3>1, <3>2
  <2> QED BY <1>3, <2>2, <2>3, <2>4, <2>5, <2>6
<1>4. ASSUME NEW d \in Runners, NEW t \in Tasks, OperatorDelegate(d, t)
      PROVE  \A c \in Runners : AttemptMove(c)
  BY <1>4, <1>2, FreshAttempts DEF OperatorDelegate
<1>5. ASSUME NEW d \in Runners, DriverStep(d) \/ LandStep(d) \/ KillDriver(d) \/ KillWorker(d)
      PROVE  \A c \in Runners : AttemptMove(c)
  BY <1>1, <1>3, <1>5
     DEF DriverStep, LandStep, Begin, GiveUp, ClaimId, Adopt, ChecksFail, TermShow, TermBlock,
         ParkFailedRepair, BlockByLease, CleanupShow, CleanupRelease, Signal, ClaimNext, LookUp,
         LandSnapshot, LandLock, Admit, Fence, ApplyFails, Apply, Finish, KillDriver
<1>6. CASE OperatorStep
  BY <1>1, <1>4, <1>6
     DEF OperatorStep, OperatorRow, OperatorCancel, OperatorReclaim, OperatorFinish
<1> QED BY <1>1, <1>5, <1>6, WorkerMovesAttempts DEF Next, vars, CollectMarker, Age

-----------------------------------------------------------------------------
(* The lease discipline of a row.  A worker's frozen copy is a row of the   *)
(* past, kept under the lease the worker still carries: that is what lets   *)
(* Restored put a claim cycle back without bringing back a lease.           *)

RowInv(r) == /\ r.lease \in {0, r.epoch}
             /\ r.state \in Active => r.lease # 0
             /\ r.state = "ready" => r.lease = 0
             /\ r.reviewLease = r.patch.lease

\* From row r to row s, no lease comes back.
NewLeaseOnly(r, s) == /\ s.epoch >= r.epoch
                      /\ s.lease \in {0, r.lease} \/ s.lease > r.epoch

RowStep(r, s) == RowInv(s) /\ NewLeaseOnly(r, s)

LeaseInv ==
  /\ \A t \in Tasks : RowInv(plan[t])
  /\ \A d \in Runners :
       /\ RowInv(wrk[d].frozen)
       /\ wrk[d].pc \in {"working", "restoring", "publishing"} =>
            wrk[d].lease # 0 /\ wrk[d].frozen.lease = wrk[d].lease

\* A new row carries no lease.
LEMMA AddedInv == RowInv(Added)
BY DEF RowInv, Added, NoPatch, Active

\* Nothing happens to the row.
LEMMA StayStep == ASSUME NEW r \in Row, RowInv(r) PROVE RowStep(r, r)
BY DEF RowStep, NewLeaseOnly, Row

\* The verbs that need no guard.
LEMMA FreeVerbs ==
  ASSUME NEW r \in Row, RowInv(r)
  PROVE  /\ RowStep(r, Claimed(r))
         /\ RowStep(r, ClearClaim(r))
         /\ RowStep(r, Touched(r))
         /\ RowStep(r, [r EXCEPT !.aged = TRUE])
         /\ RowStep(r, Finished(r))
         /\ RowStep(r, Blocked(r))
         /\ RowStep(r, Cancelled(r))
<1> USE DEF RowStep, NewLeaseOnly, RowInv, Active, Row
<1>1. RowStep(r, Claimed(r)) BY DEF Claimed
<1>2. RowStep(r, ClearClaim(r)) BY DEF ClearClaim
<1>3. RowStep(r, Touched(r)) /\ RowStep(r, [r EXCEPT !.aged = TRUE]) BY DEF Touched
<1>4. RowStep(r, Finished(r)) BY DEF Finished
<1>5. RowStep(r, Blocked(r)) /\ RowStep(r, Cancelled(r)) BY DEF Blocked, Cancelled
<1> HIDE DEF RowStep
<1> QED BY <1>1, <1>2, <1>3, <1>4, <1>5

\* The verbs that start from an active row.
LEMMA ActiveVerbs ==
  ASSUME NEW r \in Row, RowInv(r), r.state \in Active
  PROVE  /\ RowStep(r, Started(r))
         /\ RowStep(r, Repaired(r))
         /\ RowStep(r, Fenced(r))
         /\ \A p \in Patches : p.lease = r.lease => RowStep(r, Reviewed(r, p))
<1> USE DEF RowStep, NewLeaseOnly, RowInv, Active, Row
<1>1. RowStep(r, Started(r)) BY DEF Started
<1>2. RowStep(r, Repaired(r)) BY DEF Repaired
<1>3. RowStep(r, Fenced(r)) BY DEF Fenced
<1>4. ASSUME NEW p \in Patches, p.lease = r.lease PROVE RowStep(r, Reviewed(r, p))
  BY <1>4 DEF Reviewed
<1> HIDE DEF RowStep
<1> QED BY <1>1, <1>2, <1>3, <1>4

\* Putting a frozen row back brings back no lease.
LEMMA RestoredStep ==
  ASSUME NEW r \in Row, RowInv(r), NEW f \in Row, RowInv(f), f.lease # 0
  PROVE  RowStep(r, Restored(r, f))
<1>1. CASE r.lease = f.lease /\ r.state # "blocked"
  BY <1>1 DEF Restored, RestoredEvidence, RowStep, NewLeaseOnly, RowInv, Active, Row
<1>2. CASE ~(r.lease = f.lease /\ r.state # "blocked")
  BY <1>2 DEF Restored, RestoredEvidence, RowStep, NewLeaseOnly, RowInv, Active, Row
<1> QED BY <1>1, <1>2

\* Every move of a row keeps the lease discipline.
LEMMA RowsKeepLeases ==
  ASSUME TypeOK, LeaseInv, NEW t \in Tasks, RowMove(t)
  PROVE  RowStep(plan[t], plan'[t])
<1> DEFINE r == plan[t]
           s == plan'[t]
<1>1. r \in Row /\ RowInv(r) BY DEF TypeOK, LeaseInv
<1>2. CASE s = r BY <1>1, <1>2, StayStep
<1>3. CASE s \in {Claimed(r), ClearClaim(r), Touched(r), Blocked(r), [r EXCEPT !.aged = TRUE],
                  Cancelled(r), Finished(r)}
  BY <1>1, <1>3, FreeVerbs
<1>4. CASE \/ r.state = "claimed" /\ s = Started(r)
           \/ r.state = "review" /\ s \in {Repaired(r), Fenced(r)}
  BY <1>1, <1>4, ActiveVerbs DEF Active
<1>5. ASSUME NEW d \in Runners, wrk[d].pc = "restoring", s = Restored(r, wrk[d].frozen)
      PROVE  RowStep(r, s)
  <2>1. wrk[d].frozen \in Row /\ RowInv(wrk[d].frozen) /\ wrk[d].frozen.lease # 0
    BY <1>5 DEF TypeOK, Worker, LeaseInv
  <2> QED BY <1>1, <1>5, <2>1, RestoredStep
<1>6. ASSUME NEW d \in Runners, Publish(d), CanReview(r, wrk[d].lease),
             s = Reviewed(r, MyPatch(d))
      PROVE  RowStep(r, s)
  <2>1. wrk[d].lease \in Nat /\ wrk[d].frozen \in Row BY DEF TypeOK, Worker
  <2>2. wrk[d].frozen.repair \in {0, 1} BY <2>1 DEF Row
  <2>3. MyPatch(d) \in Patches /\ MyPatch(d).lease = wrk[d].lease
    BY <2>1, <2>2 DEF MyPatch, Patches
  <2>4. wrk[d].lease = r.lease /\ r.state \in Active
    BY <1>6 DEF Publish, LeaseInv, CanReview, Holds, Active
  <2> HIDE DEF r, s
  <2> QED BY <1>1, <1>6, <2>3, <2>4, ActiveVerbs
<1> QED BY <1>2, <1>3, <1>4, <1>5, <1>6 DEF RowMove

\* Every move of a worker keeps its frozen row a row of the past.
LEMMA AttemptsKeepFrozen ==
  ASSUME TypeOK, LeaseInv, NEW c \in Runners, AttemptMove(c)
  PROVE  /\ RowInv(wrk'[c].frozen)
         /\ wrk'[c].pc \in {"working", "restoring", "publishing"} =>
              wrk'[c].lease # 0 /\ wrk'[c].frozen.lease = wrk'[c].lease
<1>1. wrk[c] \in Worker /\ RowInv(wrk[c].frozen) /\ RowInv(plan[wrk[c].task])
  BY DEF TypeOK, Worker, LeaseInv
<1> QED BY <1>1, AddedInv DEF AttemptMove, LeaseInv, Worker, Busy

\* The discipline is inductive.
LEMMA LeaseInvStep == TypeOK /\ LeaseInv /\ [Next]_vars => LeaseInv'
<1> SUFFICES ASSUME TypeOK, LeaseInv, [Next]_vars PROVE LeaseInv'
  OBVIOUS
<1>1. \A t \in Tasks : RowInv(plan'[t])
  BY RowsMove, RowsKeepLeases DEF RowStep
<1> QED BY <1>1, AttemptsMove, AttemptsKeepFrozen DEF LeaseInv, RowInv

\* And so it always holds.
LEMMA LeaseInvCorrect == Spec => [](TypeOK /\ LeaseInv)
<1>1. Init => LeaseInv
  BY AddedInv DEF Init, LeaseInv, NoWorker
<1>2. Init => TypeOK
  BY AddedTyped, IdleTyped, ConstantsAssumption DEF Init, TypeOK
<1> QED BY <1>1, <1>2, TypeStep, LeaseInvStep, PTL DEF Spec

\* Whatever plan-runs, workers, gc and an operator do to each other, a row's
\* lease is the one its epoch minted while the row is active, and gone once it
\* is ready.
THEOREM LeaseMarksActiveCorrect == Spec => []LeaseMarksActive
<1>1. LeaseInv => LeaseMarksActive
  BY DEF LeaseInv, RowInv, LeaseMarksActive
<1> QED BY <1>1, LeaseInvCorrect, PTL

\* No lease comes back to a row that lost it, not even through the restore a
\* worker runs on its frozen copy.
THEOREM LeaseNeverReusedCorrect == Spec => LeaseNeverReused
<1>1. TypeOK /\ LeaseInv /\ [Next]_vars =>
        [\A t \in Tasks :
           /\ plan'[t].epoch >= plan[t].epoch
           /\ \/ plan'[t].lease \in {0, plan[t].lease}
              \/ plan'[t].lease > plan[t].epoch]_vars
  BY RowsMove, RowsKeepLeases DEF RowStep, NewLeaseOnly
<1> QED BY <1>1, LeaseInvCorrect, PTL DEF Spec, LeaseNeverReused

\* The evidence a row offers to the landing gate is always a pair one worker
\* wrote.
THEOREM PatchNamesItsLeaseCorrect == Spec => []PatchNamesItsLease
<1>1. LeaseInv => PatchNamesItsLease
  BY DEF LeaseInv, RowInv, PatchNamesItsLease
<1> QED BY <1>1, LeaseInvCorrect, PTL

-----------------------------------------------------------------------------
(* One worker per lease.  `start` moves a claimed row to running, and the   *)
(* only verb that moves a running row on under the same lease, other than   *)
(* into a dead end, is the `review` of the worker that started it.          *)

Kept == {"running", "blocked", "cancelled"}

AtWork(d) == wrk[d].pc \in Busy /\ wrk[d].lease # 0

BusyInv ==
  /\ \A c, d \in Runners :
       AtWork(c) /\ AtWork(d) /\ wrk[c].task = wrk[d].task /\ wrk[c].lease = wrk[d].lease
       => c = d
  /\ \A d \in Runners : AtWork(d) =>
       /\ plan[wrk[d].task].epoch >= wrk[d].lease
       /\ plan[wrk[d].task].lease = wrk[d].lease => plan[wrk[d].task].state \in Kept
  /\ \A d \in Runners : wrk[d].pc \in {"working", "restoring"} => wrk[d].frozen.state \in Kept

\* A kept row stays kept under its lease, until the worker at work on it
\* publishes.
LEMMA KeptRow ==
  ASSUME TypeOK, LeaseInv, BusyInv, NEW t \in Tasks, RowMove(t),
         plan[t].state \in Kept, plan[t].lease # 0, plan'[t].lease = plan[t].lease,
         plan'[t].state \notin Kept
  PROVE  \E d \in Runners : /\ Publish(d) /\ wrk[d].task = t
                            /\ AtWork(d) /\ wrk[d].lease = plan[t].lease
<1> DEFINE r == plan[t]
           s == plan'[t]
<1>1. r \in Row /\ RowInv(r) /\ r.state \in Kept BY DEF TypeOK, LeaseInv
<1>2. ~(s = r \/ s \in {Claimed(r), ClearClaim(r), Touched(r), Blocked(r), [r EXCEPT !.aged = TRUE]})
  <2>1. s # r BY <1>1
  <2>2. s # Claimed(r) /\ s # ClearClaim(r)
    <3>1. Claimed(r).lease = r.epoch + 1 /\ ClearClaim(r).lease = 0
      BY <1>1 DEF Claimed, ClearClaim, Row
    <3>2. r.lease # r.epoch + 1 BY <1>1 DEF RowInv, Row
    <3> QED BY <3>1, <3>2
  <2>3. s # Touched(r) /\ s # [r EXCEPT !.aged = TRUE]
    BY <1>1 DEF Touched, Row
  <2>4. s # Blocked(r) BY <1>1 DEF Blocked, Row, Kept
  <2> QED BY <2>1, <2>2, <2>3, <2>4
<1>3. ~(r.state = "claimed" \/ r.state = "review" \/ r.state = "landing" \/ s = Cancelled(r))
  BY <1>1 DEF Cancelled, Kept, Row
<1>4. ~\E d \in Runners : wrk[d].pc = "restoring" /\ s = Restored(r, wrk[d].frozen)
  BY <1>1 DEF BusyInv, Restored, RestoredEvidence, Row, Kept
<1>5. PICK d \in Runners : Publish(d) /\ wrk[d].task = t /\ CanReview(r, wrk[d].lease)
  BY <1>2, <1>3, <1>4 DEF RowMove
<1>6. AtWork(d) /\ wrk[d].lease = r.lease
  BY <1>5 DEF Publish, AtWork, Busy, CanReview, Holds, LeaseInv
<1> QED BY <1>5, <1>6

\* A worker is at work because it was, or because it just started.
LEMMA AtWorkMove ==
  ASSUME TypeOK, NEW c \in Runners, AttemptMove(c), AtWork(c)'
  PROVE  /\ wrk'[c].task = wrk[c].task /\ wrk'[c].lease = wrk[c].lease
         /\ \/ AtWork(c)
            \/ /\ CanStart(plan[wrk[c].task], wrk[c].lease)
               /\ plan' = [plan EXCEPT ![wrk[c].task] = Started(plan[wrk[c].task])]
               /\ \A e \in Runners \ {c} : wrk'[e] = wrk[e]
BY ZenonT(60) DEF TypeOK, AttemptMove, AtWork, Busy, Worker

\* A second worker of the lease loses its `start`.
LEMMA BusyStep == TypeOK /\ LeaseInv /\ BusyInv /\ [Next]_vars => BusyInv'
<1> SUFFICES ASSUME TypeOK, LeaseInv, BusyInv, [Next]_vars PROVE BusyInv'
  OBVIOUS
<1>1. \A t \in Tasks : RowMove(t) /\ RowStep(plan[t], plan'[t])
  BY RowsMove, RowsKeepLeases
<1>2. \A c \in Runners : AttemptMove(c)
  BY AttemptsMove
<1>3. \A d \in Runners : /\ wrk[d].task \in Tasks /\ wrk[d].lease \in Nat
                         /\ plan[wrk[d].task] \in Row /\ RowInv(plan[wrk[d].task])
                         /\ plan'[wrk[d].task] \in Row
  BY TypeStep DEF TypeOK, Worker, LeaseInv
<1>4. ASSUME NEW d \in Runners, AtWork(d)', ~AtWork(d)
      PROVE  /\ plan[wrk[d].task].state = "claimed"
             /\ plan[wrk[d].task].lease = wrk[d].lease
             /\ plan[wrk[d].task].epoch = wrk[d].lease
             /\ plan'[wrk[d].task] = Started(plan[wrk[d].task])
             /\ \A e \in Runners \ {d} : wrk'[e] = wrk[e]
  <2>1. wrk[d].lease # 0 BY <1>2, <1>4, AtWorkMove DEF AtWork
  <2> QED BY <1>2, <1>3, <1>4, <2>1, AtWorkMove DEF CanStart, Holds, RowInv, TypeOK
<1>5. ASSUME NEW c \in Runners, NEW d \in Runners, AtWork(c)', AtWork(d)',
             (wrk[c].task = wrk[d].task)', (wrk[c].lease = wrk[d].lease)'
      PROVE  c = d
  <2>1. wrk[c].task = wrk[d].task /\ wrk[c].lease = wrk[d].lease
    BY <1>2, <1>5, AtWorkMove
  <2>2. CASE AtWork(c) /\ AtWork(d) BY <2>1, <2>2 DEF BusyInv
  <2>3. CASE ~AtWork(c) /\ AtWork(d) BY <2>1, <2>3, <1>4, <1>5 DEF BusyInv, Kept
  <2>4. CASE AtWork(c) /\ ~AtWork(d) BY <2>1, <2>4, <1>4, <1>5 DEF BusyInv, Kept
  <2>5. CASE ~AtWork(c) /\ ~AtWork(d)
    <3>1. c # d => wrk'[d] = wrk[d] BY <2>5, <1>4, <1>5
    <3> QED BY <3>1, <2>5, <1>5 DEF AtWork
  <2> QED BY <2>2, <2>3, <2>4, <2>5
<1>6. ASSUME NEW d \in Runners, AtWork(d)'
      PROVE  /\ plan'[wrk'[d].task].epoch >= wrk'[d].lease
             /\ plan'[wrk'[d].task].lease = wrk'[d].lease => plan'[wrk'[d].task].state \in Kept
  <2> DEFINE t == wrk[d].task
             l == wrk[d].lease
  <2>1. wrk'[d].task = t /\ wrk'[d].lease = l BY <1>2, <1>6, AtWorkMove
  <2>2. CASE ~AtWork(d)
    <3>1. /\ plan[t].epoch = l /\ plan'[t] = Started(plan[t])
          /\ plan[t] \in Row /\ l \in Nat
      BY <2>2, <1>3, <1>4, <1>6
    <3>2. plan'[t].epoch = l /\ plan'[t].state \in Kept
      BY <3>1 DEF Started, Row, Kept
    <3> QED BY <2>1, <3>1, <3>2
  <2>3. CASE AtWork(d)
    <3>1. plan[t].epoch >= l /\ (plan[t].lease = l => plan[t].state \in Kept) /\ l # 0
      BY <2>3 DEF BusyInv, AtWork
    <3>2. plan'[t].epoch >= plan[t].epoch
      BY <1>1, <1>3 DEF RowStep, NewLeaseOnly
    <3>3. plan'[t].epoch >= l
      BY <3>1, <3>2, <1>3 DEF Row
    <3>4. ASSUME plan'[t].lease = l PROVE plan[t].lease = l
      BY <1>1, <1>3, <3>1, <3>4 DEF RowStep, NewLeaseOnly, Row
    <3>5. ASSUME plan'[t].lease = l, plan'[t].state \notin Kept PROVE FALSE
      <4>1. PICK e \in Runners : Publish(e) /\ wrk[e].task = t /\ AtWork(e) /\ wrk[e].lease = l
        BY <1>1, <1>3, <3>1, <3>4, <3>5, KeptRow
      <4>2. e = d BY <2>3, <4>1 DEF BusyInv
      <4>3. wrk'[d].pc \notin Busy
        BY <4>1, <4>2 DEF Publish, AfterFailure, Busy, TypeOK, Worker
      <4> QED BY <4>3, <1>6 DEF AtWork
    <3> QED BY <2>1, <3>3, <3>5
  <2> QED BY <2>2, <2>3
<1>7. ASSUME NEW d \in Runners, wrk'[d].pc \in {"working", "restoring"}
      PROVE  wrk'[d].frozen.state \in Kept
  <2>1. wrk[d] \in Worker /\ wrk'[d].pc \in Busy BY <1>7 DEF TypeOK, Busy
  <2>2. CASE wrk'[d] = wrk[d] BY <1>7, <2>2 DEF BusyInv
  <2>3. CASE wrk[d].pc = "working" /\ wrk'[d].frozen = wrk[d].frozen
    BY <2>3 DEF BusyInv
  <2>4. CASE /\ wrk[d].pc = "started" /\ wrk'[d].frozen = plan[wrk[d].task]
             /\ wrk[d].lease # 0 /\ plan[wrk[d].task].lease = wrk[d].lease
    BY <2>4 DEF BusyInv, AtWork, Busy
  <2> QED BY <1>2, <1>7, <2>1, <2>2, <2>3, <2>4 DEF AttemptMove, Worker
<1> QED BY <1>5, <1>6, <1>7 DEF BusyInv, AtWork

\* So the lease in a worker's hands is always its own.
LEMMA BusyInvCorrect == Spec => [](TypeOK /\ LeaseInv /\ BusyInv)
<1>1. Init => BusyInv
  BY DEF Init, BusyInv, AtWork, Busy, NoWorker
<1> QED BY <1>1, BusyStep, LeaseInvCorrect, PTL DEF Spec

\* A second delegate that starts on the same claim always loses: no lease has
\* two workers between `start` and outcome, with --auto-repair, crashes and an
\* operator as well.
THEOREM OneWorkerPerLeaseCorrect == Spec => []OneWorkerPerLease
<1>1. BusyInv => OneWorkerPerLease
  BY DEF BusyInv, OneWorkerPerLease, AtWork, Busy
<1> QED BY <1>1, BusyInvCorrect, PTL

-----------------------------------------------------------------------------
(* How one plan-run moves through the landing gate in one step.            *)

LandingPcs == {"lock", "admit", "fence", "apply", "finish"}

LandMove(d) ==
  LET u == drv[d]
      v == drv'[d]
      r == plan[u.task]
  IN \/ v = u
     \/ v.pc \notin LandingPcs
     \/ /\ NamesReview(r, r.lease)
        /\ v = [u EXCEPT !.pc = "lock", !.seen = Receipt(r)]
     \/ v \in {[u EXCEPT !.pc = "admit"], [u EXCEPT !.pc = "fence"]} /\ u.pc \in {"lock", "admit"}
     \/ /\ u.pc = "fence" /\ v = [u EXCEPT !.pc = "apply"]
        /\ CanLand(r, u.seen.lease, u.seen.patch)
        /\ plan' = [plan EXCEPT ![u.task] = Fenced(r)]
        /\ \A e \in Runners \ {d} : drv'[e] = drv[e]
        /\ UNCHANGED <<wrk, applied>>
     \/ /\ u.pc = "apply" /\ v = [u EXCEPT !.pc = "finish"]
        /\ applied' = [applied EXCEPT ![u.task] = @ \cup {u.seen.patch}]
        /\ \A e \in Runners \ {d} : drv'[e] = drv[e]
        /\ UNCHANGED <<plan, wrk>>

\* A step of one plan-run that is outside the gate moves no landing.
LEMMA OneDriverMoves ==
  ASSUME TypeOK, NEW d \in Runners, NEW u,
         drv' = [drv EXCEPT ![d] = u], u.pc \notin LandingPcs
  PROVE  \A e \in Runners : LandMove(e)
<1>1. drv'[d] = u BY DEF TypeOK
<1>2. \A e \in Runners \ {d} : drv'[e] = drv[e] BY DEF TypeOK
<1>3. LandMove(d) BY <1>1 DEF LandMove
<1>4. \A e \in Runners \ {d} : LandMove(e) BY <1>2 DEF LandMove
<1> QED BY <1>3, <1>4

\* Where a plan-run goes when it ends or gives up is outside the gate.
LEMMA OutsideGate ==
  ASSUME TypeOK, NEW d \in Runners
  PROVE  /\ IdleDriver.pc \notin LandingPcs
         /\ Leave(d).pc \notin LandingPcs
         /\ LandFails(d).pc \notin LandingPcs
         /\ drv[d].pc \in DriverPcs
         /\ \A x : [drv[d] EXCEPT !.pc = x].pc = x
BY DEF IdleDriver, Leave, LandFails, LandingPcs, TypeOK, Driver

\* The steps of plan-run before and after a landing.
LEMMA DriverMovesGate ==
  ASSUME TypeOK, NEW d \in Runners, DriverStep(d) PROVE \A e \in Runners : LandMove(e)
<1>1. drv[d] \in Driver BY DEF TypeOK
<1>2. ASSUME NEW u, drv' = [drv EXCEPT ![d] = u], u.pc \notin LandingPcs
      PROVE  \A e \in Runners : LandMove(e)
  BY <1>2, OneDriverMoves
<1> USE <1>1, <1>2, OutsideGate
<1> USE DEF LandingPcs, Driver
<1>3. CASE Begin(d)
  <2>1. PICK m \in Modes : drv' = [drv EXCEPT ![d].pc = "pick", ![d].mode = m]
    BY <1>3 DEF Begin
  <2> DEFINE u == [drv[d] EXCEPT !.pc = "pick", !.mode = m]
  <2>2. u.pc = "pick" OBVIOUS
  <2>3. drv' = [drv EXCEPT ![d] = u] BY <2>1
  <2> HIDE DEF u
  <2> QED BY <2>2, <2>3
<1>4. CASE GiveUp(d) BY <1>4 DEF GiveUp
<1>5. CASE ClaimId(d) BY <1>5 DEF ClaimId
<1>6. CASE Adopt(d) BY <1>6 DEF Adopt
<1>7. CASE ChecksFail(d) BY <1>7 DEF ChecksFail
<1>8. CASE Delegate(d) BY <1>8 DEF Delegate, DrvGo
<1>9. CASE Reap(d) BY <1>9 DEF Reap, Rounds
<1>10. CASE TermShow(d) BY <1>10 DEF TermShow
<1>11. CASE TermBlock(d) \/ ParkFailedRepair(d)
  BY <1>11 DEF TermBlock, ParkFailedRepair, BlockByLease
<1>12. CASE CleanupShow(d) BY <1>12 DEF CleanupShow
<1>13. CASE CleanupRelease(d) BY <1>13 DEF CleanupRelease
<1>14. CASE Signal(d) BY <1>14 DEF Signal
<1>15. CASE Stopped(d) BY <1>15 DEF Stopped
<1>16. ASSUME NEW t \in Tasks, ClaimNext(d, t) PROVE \A e \in Runners : LandMove(e)
  <2> DEFINE u == [drv[d] EXCEPT !.pc = "checks", !.task = t, !.owns = TRUE,
                                 !.lease = plan[t].epoch + 1]
  <2>1. u.pc = "checks" OBVIOUS
  <2>2. drv' = [drv EXCEPT ![d] = u] BY <1>16, ZenonT(60) DEF ClaimNext
  <2> HIDE DEF u
  <2> QED BY <2>1, <2>2
<1>17. ASSUME NEW t \in Tasks, LookUp(d, t) PROVE \A e \in Runners : LandMove(e)
  BY <1>17 DEF LookUp
<1> QED
  BY <1>3, <1>4, <1>5, <1>6, <1>7, <1>8, <1>9, <1>10, <1>11, <1>12, <1>13, <1>14,
     <1>15, <1>16, <1>17 DEF DriverStep

\* The steps of a landing.
LEMMA LandMovesGate ==
  ASSUME TypeOK, NEW d \in Runners, LandStep(d) PROVE \A e \in Runners : LandMove(e)
<1> DEFINE u == drv[d]
<1>1. u \in Driver /\ drv \in [Runners -> Driver] BY DEF TypeOK
<1>2. ASSUME NEW v, drv' = [drv EXCEPT ![d] = v], v.pc \notin LandingPcs
      PROVE  \A e \in Runners : LandMove(e)
  BY <1>2, OneDriverMoves
<1>3. ASSUME LandMove(d), \A e \in Runners \ {d} : drv'[e] = drv[e]
      PROVE  \A e \in Runners : LandMove(e)
  BY <1>3 DEF LandMove
<1>4. CASE drv' = [drv EXCEPT ![d] = LandFails(d)] \/ drv' = [drv EXCEPT ![d] = IdleDriver]
  BY <1>2, <1>4, OutsideGate
<1>5. CASE LandSnapshot(d)
  <2> DEFINE r == plan[u.task]
             v == [u EXCEPT !.pc = "lock", !.seen = Receipt(r)]
  <2>1. CASE NamesReview(r, r.lease) /\ drv' = [drv EXCEPT ![d] = v]
    <3>1. drv'[d] = v /\ \A e \in Runners \ {d} : drv'[e] = drv[e]
      BY <1>1, <2>1
    <3> QED BY <1>3, <2>1, <3>1 DEF LandMove
  <2> QED BY <1>4, <1>5, <2>1 DEF LandSnapshot
<1>6. CASE LandLock(d) \/ Admit(d)
  <2>1. CASE \E x \in {"admit", "fence"} : drv' = [drv EXCEPT ![d] = [u EXCEPT !.pc = x]]
    <3>1. PICK x \in {"admit", "fence"} : drv' = [drv EXCEPT ![d] = [u EXCEPT !.pc = x]]
      BY <2>1
    <3>2. drv'[d] = [u EXCEPT !.pc = x] /\ \A e \in Runners \ {d} : drv'[e] = drv[e]
      BY <1>1, <3>1
    <3>3. u.pc \in {"lock", "admit"} BY <1>6 DEF LandLock, Admit
    <3> QED BY <1>3, <3>2, <3>3 DEF LandMove
  <2> QED BY <1>4, <1>6, <2>1 DEF LandLock, Admit, DrvGo
<1>7. CASE Fence(d)
  <2>1. CASE /\ CanLand(plan[u.task], u.seen.lease, u.seen.patch) /\ u.pc = "fence"
             /\ plan' = [plan EXCEPT ![u.task] = Fenced(plan[u.task])]
             /\ drv' = [drv EXCEPT ![d] = [u EXCEPT !.pc = "apply"]]
             /\ UNCHANGED <<wrk, applied>>
    <3>1. drv'[d] = [u EXCEPT !.pc = "apply"] /\ \A e \in Runners \ {d} : drv'[e] = drv[e]
      BY <1>1, <2>1
    <3> QED BY <1>3, <2>1, <3>1 DEF LandMove
  <2> QED BY <1>4, <1>7, <2>1 DEF Fence
<1>8. CASE Apply(d)
  <2>1. drv' = [drv EXCEPT ![d] = [u EXCEPT !.pc = "finish"]]
    BY <1>8 DEF Apply, DrvGo
  <2>2. drv'[d] = [u EXCEPT !.pc = "finish"] /\ \A e \in Runners \ {d} : drv'[e] = drv[e]
    BY <1>1, <2>1
  <2>3. LandMove(d) BY <1>8, <2>2 DEF LandMove, Apply
  <2> QED BY <1>3, <2>2, <2>3
<1>9. CASE ApplyFails(d) \/ Finish(d)
  BY <1>4, <1>9 DEF ApplyFails, Finish
<1>10. CASE Repair(d)
  <2>1. \E v : /\ drv' = [drv EXCEPT ![d] = v]
               /\ v \in {[u EXCEPT !.pc = "wait", !.round = "repair"], [u EXCEPT !.pc = "block"]}
    BY <1>10 DEF Repair
  <2> QED BY <1>1, <1>2, <2>1 DEF LandingPcs, Driver
<1> QED BY <1>5, <1>6, <1>7, <1>8, <1>9, <1>10 DEF LandStep

\* No step of the system moves a landing in another way.
LEMMA GatesMove == ASSUME TypeOK, [Next]_vars PROVE \A e \in Runners : LandMove(e)
<1>1. CASE drv' = drv BY <1>1 DEF LandMove
<1>2. ASSUME NEW d \in Runners, KillDriver(d) PROVE \A e \in Runners : LandMove(e)
  BY <1>2, OneDriverMoves, OutsideGate DEF KillDriver
<1> QED
  BY <1>1, <1>2, DriverMovesGate, LandMovesGate
     DEF Next, vars, WorkerStep, Snapshot, Register, Start, Freeze, Guard, Restore, Publish,
         Fail, Abort, Exit, KillWorker, CollectMarker, Age, OperatorStep, OperatorRow,
         OperatorCancel, OperatorReclaim, OperatorFinish, OperatorDelegate

-----------------------------------------------------------------------------
(* Done means applied.  The review a plan-run lands names its own lease, so *)
(* the patch it applies was written under the lease it then finishes; a     *)
(* frozen copy of a done row keeps that witness.                           *)

Written(t, l) == \E p \in applied[t] : p.lease = l
WrittenNext(t, l) == \E p \in applied'[t] : p.lease = l

DoneInv ==
  /\ DoneMeansApplied
  /\ \A c \in Runners :
       wrk[c].frozen.state = "done" => Written(wrk[c].task, wrk[c].frozen.lease)
  /\ \A d \in Runners :
       drv[d].pc \in LandingPcs => drv[d].seen.patch.lease = drv[d].seen.lease
  /\ \A d \in Runners :
       drv[d].pc = "finish" => drv[d].seen.patch \in applied[drv[d].task]

\* Patches are applied by the landing gate alone and never taken back.
LEMMA AppliedGrows ==
  ASSUME TypeOK, [Next]_vars
  PROVE  \A t \in Tasks : applied[t] \subseteq applied'[t]
<1>1. CASE applied' = applied BY <1>1
<1>2. ASSUME NEW d \in Runners, Apply(d) PROVE \A t \in Tasks : applied[t] \subseteq applied'[t]
  BY <1>2 DEF Apply, TypeOK
<1>3. ASSUME NEW x \in Tasks, OperatorFinish(x)
      PROVE  \A t \in Tasks : applied[t] \subseteq applied'[t]
  BY <1>3 DEF OperatorFinish, TypeOK
<1>4. ASSUME NEW d \in Runners, DriverStep(d) PROVE applied' = applied
  BY <1>4
     DEF DriverStep, Begin, GiveUp, ClaimId, Adopt, ChecksFail, Delegate, Reap, TermShow,
         TermBlock, ParkFailedRepair, BlockByLease, CleanupShow, CleanupRelease, Signal,
         Stopped, ClaimNext, LookUp
<1>5. ASSUME NEW d \in Runners, LandStep(d), ~Apply(d) PROVE applied' = applied
  BY <1>5 DEF LandStep, LandSnapshot, LandLock, Admit, Fence, ApplyFails, Finish, Repair
<1>6. ASSUME NEW d \in Runners, WorkerStep(d) \/ KillDriver(d) \/ KillWorker(d)
      PROVE  applied' = applied
  BY <1>6 DEF WorkerStep, Snapshot, Register, Start, Freeze, Guard, Restore, Publish, Fail,
              Abort, Exit, KillDriver, KillWorker
<1>7. ASSUME OperatorStep, \A t \in Tasks : ~OperatorFinish(t) PROVE applied' = applied
  BY <1>7 DEF OperatorStep, OperatorRow, OperatorCancel, OperatorReclaim, OperatorDelegate
<1> QED
  BY <1>1, <1>2, <1>3, <1>4, <1>5, <1>6, <1>7 DEF Next, vars, CollectMarker, Age

\* How a row comes to be done.
LEMMA DoneRow ==
  ASSUME "finish" \notin OperatorVerbs, TypeOK, LeaseInv, DoneInv,
         NEW t \in Tasks, RowMove(t), plan'[t].state = "done"
  PROVE  Written(t, plan'[t].lease)
<1> DEFINE r == plan[t]
           s == plan'[t]
<1>1. r \in Row /\ (r.state = "done" => Written(t, r.lease))
  BY DEF TypeOK, DoneInv, DoneMeansApplied, Written
<1>2. CASE s.state = r.state /\ s.lease = r.lease
  BY <1>1, <1>2
<1>3. s \notin {Claimed(r), ClearClaim(r), Blocked(r), Started(r), Repaired(r), Fenced(r), Cancelled(r)}
  BY <1>1, ZenonT(60) DEF Claimed, ClearClaim, Blocked, Started, Repaired, Fenced, Cancelled,
     Row
<1>4. CASE s \in {Touched(r), [r EXCEPT !.aged = TRUE]}
  BY <1>1, <1>2, <1>4 DEF Touched, Row
<1>5. ASSUME NEW d \in Runners, drv[d].pc = "finish", drv[d].task = t,
             Receipt(r) = drv[d].seen, s = Finished(r)
      PROVE  Written(t, s.lease)
  <2>1. drv[d].seen.patch \in applied[t] /\ drv[d].seen.patch.lease = drv[d].seen.lease
    BY <1>5 DEF DoneInv, LandingPcs
  <2>2. drv[d].seen.lease = r.lease BY <1>5 DEF Receipt
  <2>3. s.lease = r.lease BY <1>1, <1>5 DEF Finished, Row
  <2> QED BY <2>1, <2>2, <2>3 DEF Written
<1>6. ASSUME NEW d \in Runners, wrk[d].pc = "restoring", wrk[d].task = t,
             s = Restored(r, wrk[d].frozen)
      PROVE  Written(t, s.lease)
  <2> DEFINE f == wrk[d].frozen
  <2>1. f.state = "done" => Written(t, f.lease) BY <1>6 DEF DoneInv
  <2>2. CASE r.lease = f.lease /\ r.state # "blocked"
    <3>1. s.state = f.state /\ s.lease = f.lease
      BY <1>1, <1>6, <2>2 DEF Restored, RestoredEvidence, Row
    <3> QED BY <2>1, <3>1
  <2>3. CASE ~(r.lease = f.lease /\ r.state # "blocked")
    <3>1. s.state = r.state /\ s.lease = r.lease
      BY <1>1, <1>6, <2>3 DEF Restored, RestoredEvidence, Row
    <3> QED BY <1>1, <3>1
  <2> QED BY <2>2, <2>3
<1>7. ASSUME NEW d \in Runners, s = Reviewed(r, MyPatch(d)) PROVE FALSE
  BY <1>1, <1>7 DEF Reviewed, Row
<1>8. ~OperatorFinish(t) BY DEF OperatorFinish
<1> QED BY <1>2, <1>3, <1>4, <1>5, <1>6, <1>7, <1>8 DEF RowMove

\* From the fence to the finish the row waits for the patch it was fenced for.
LEMMA DoneStep ==
  ASSUME "finish" \notin OperatorVerbs
  PROVE  TypeOK /\ LeaseInv /\ DoneInv /\ [Next]_vars => DoneInv'
<1> SUFFICES ASSUME TypeOK, LeaseInv, DoneInv, [Next]_vars PROVE DoneInv'
  OBVIOUS
<1>1. ASSUME NEW t \in Tasks, NEW l, Written(t, l) PROVE WrittenNext(t, l)
  BY <1>1, AppliedGrows DEF Written, WrittenNext
<1>2. ASSUME NEW t \in Tasks, plan'[t].state = "done" PROVE WrittenNext(t, plan'[t].lease)
  <2>1. RowMove(t) BY RowsMove
  <2>2. Written(t, plan'[t].lease) BY <1>2, <2>1, DoneRow
  <2> QED BY <1>1, <2>2
<1>3. ASSUME NEW c \in Runners, wrk'[c].frozen.state = "done"
      PROVE  WrittenNext(wrk'[c].task, wrk'[c].frozen.lease)
  <2> DEFINE w == wrk[c]
             v == wrk'[c]
  <2>1. w \in Worker /\ w.task \in Tasks /\ AttemptMove(c)
    BY AttemptsMove DEF TypeOK, Worker
  <2>2. w.frozen.state = "done" => Written(w.task, w.frozen.lease)
    BY DEF DoneInv
  <2>3. plan[w.task].state = "done" => Written(w.task, plan[w.task].lease)
    BY <2>1 DEF DoneInv, DoneMeansApplied, Written
  <2>4. v.frozen # Added BY <1>3 DEF Added
  <2>5. /\ v.task = w.task
        /\ v.frozen \in {w.frozen, plan[w.task]}
    BY <2>1, <2>4 DEF AttemptMove, Worker, Busy
  <2>6. Written(w.task, v.frozen.lease)
    BY <1>3, <2>2, <2>3, <2>5
  <2> QED BY <1>1, <2>1, <2>5, <2>6
<1>4. ASSUME NEW d \in Runners, drv'[d].pc \in LandingPcs
      PROVE  drv'[d].seen.patch.lease = drv'[d].seen.lease
  <2>1. drv[d] \in Driver /\ drv[d].task \in Tasks /\ LandMove(d)
    BY GatesMove DEF TypeOK, Driver
  <2>2. CASE drv'[d].seen = drv[d].seen /\ drv[d].pc \in LandingPcs
    BY <2>2 DEF DoneInv
  <2>3. ASSUME NamesReview(plan[drv[d].task], plan[drv[d].task].lease),
               drv'[d] = [drv[d] EXCEPT !.pc = "lock", !.seen = Receipt(plan[drv[d].task])]
        PROVE  drv'[d].seen.patch.lease = drv'[d].seen.lease
    <3>1. drv'[d].seen = Receipt(plan[drv[d].task]) BY <2>1, <2>3 DEF Driver
    <3> QED BY <2>1, <2>3, <3>1 DEF Receipt, NamesReview, LeaseInv, RowInv
  <2> QED BY <1>4, <2>1, <2>2, <2>3 DEF LandMove, LandingPcs, Driver
<1>5. ASSUME NEW d \in Runners, drv'[d].pc = "finish"
      PROVE  drv'[d].seen.patch \in applied'[drv'[d].task]
  <2>1. drv[d] \in Driver /\ drv[d].task \in Tasks /\ LandMove(d)
    BY GatesMove DEF TypeOK, Driver
  <2>2. CASE drv'[d] = drv[d]
    BY <1>5, <2>1, <2>2, AppliedGrows DEF DoneInv
  <2>3. CASE /\ drv'[d] = [drv[d] EXCEPT !.pc = "finish"]
             /\ applied' = [applied EXCEPT ![drv[d].task] = @ \cup {drv[d].seen.patch}]
    BY <2>1, <2>3 DEF TypeOK, Driver
  <2> QED BY <1>5, <2>1, <2>2, <2>3 DEF LandMove, LandingPcs, Driver
<1> QED BY <1>2, <1>3, <1>4, <1>5 DEF DoneInv, DoneMeansApplied, Written, WrittenNext

\* As long as no operator finishes a task by hand, a done task has a patch of
\* its own lease in the tree.
THEOREM DoneMeansAppliedCorrect ==
  ASSUME "finish" \notin OperatorVerbs PROVE Spec => []DoneMeansApplied
<1>1. Init => DoneInv
  BY DEF Init, DoneInv, DoneMeansApplied, Added, NoWorker, IdleDriver, LandingPcs
<1>2. TypeOK /\ LeaseInv /\ DoneInv /\ [Next]_vars => DoneInv'
  BY DoneStep
<1>3. DoneInv => DoneMeansApplied
  BY DEF DoneInv
<1> QED BY <1>1, <1>2, <1>3, LeaseInvCorrect, PTL DEF Spec

-----------------------------------------------------------------------------
(* One patch per lease.  Once a lease has passed the fence of its task, the *)
(* row is never again in review or in work under it, so nothing publishes a *)
(* second patch under it.  Before that, a repair replaces a patch only when *)
(* no other copy of it is left to be put back: in a worker's frozen row, in *)
(* a landing or in the tree.                                                *)

Gone == {"landing", "done", "blocked", "cancelled"}

Spent(t, l) ==
  /\ l # 0 /\ plan[t].epoch >= l
  /\ plan[t].lease = l =>
       /\ plan[t].state \in Gone
       /\ \A c \in Runners : AtWork(c) /\ wrk[c].task = t => wrk[c].lease # l

SpentNext(t, l) ==
  /\ l # 0 /\ plan'[t].epoch >= l
  /\ plan'[t].lease = l =>
       /\ plan'[t].state \in Gone
       /\ \A c \in Runners : AtWork(c)' /\ wrk'[c].task = t => wrk'[c].lease # l

Applying(d) == drv[d].pc \in {"apply", "finish"}
Copying(d) == wrk[d].pc \in {"working", "restoring"}

\* The copies of the patches of task t.
Shown(t, p) ==
  \/ p = plan[t].patch
  \/ \E d \in Runners : Copying(d) /\ wrk[d].task = t /\ p = wrk[d].frozen.patch
  \/ \E d \in Runners : Applying(d) /\ drv[d].task = t /\ p = drv[d].seen.patch
  \/ p \in applied[t]

ShownNext(t, p) ==
  \/ p = plan'[t].patch
  \/ \E d \in Runners : Copying(d)' /\ wrk'[d].task = t /\ p = wrk'[d].frozen.patch
  \/ \E d \in Runners : Applying(d)' /\ drv'[d].task = t /\ p = drv'[d].seen.patch
  \/ p \in applied'[t]

\* A patch, or its absence, of a lease up to l.
Authored(p, l) == p = NoPatch \/ (p.lease # 0 /\ p.lease <= l)

PatchInv ==
  /\ \A t \in Tasks : Authored(plan[t].patch, plan[t].epoch)
  /\ \A d \in Runners : Copying(d) => Authored(wrk[d].frozen.patch, wrk[d].lease)
  /\ \A d \in Runners : drv[d].pc \in LandingPcs => drv[d].seen.patch.lease = drv[d].seen.lease
  /\ \A d \in Runners : Applying(d) => Spent(drv[d].task, drv[d].seen.patch.lease)
  /\ \A t \in Tasks : \A p \in applied[t] : Spent(t, p.lease)
  /\ \A t \in Tasks : \A p, q \in Patches :
       Shown(t, p) /\ Shown(t, q) /\ p.lease = q.lease => p = q

\* A row that passed the fence stays past it under its lease.
LEMMA GoneRow ==
  ASSUME TypeOK, LeaseInv, NEW t \in Tasks, RowMove(t),
         Spent(t, plan[t].lease), plan'[t].lease = plan[t].lease
  PROVE  plan'[t].state \in Gone
<1> DEFINE r == plan[t]
           s == plan'[t]
<1>1. r \in Row /\ RowInv(r) /\ r.state \in Gone /\ r.lease # 0
  BY DEF TypeOK, LeaseInv, Spent
<1>2. CASE s = r BY <1>1, <1>2
<1>3. s # Claimed(r) /\ s # ClearClaim(r)
  <2>1. Claimed(r).lease = r.epoch + 1 /\ ClearClaim(r).lease = 0
    BY <1>1 DEF Claimed, ClearClaim, Row
  <2>2. r.lease # r.epoch + 1 BY <1>1 DEF RowInv, Row
  <2> QED BY <1>1, <2>1, <2>2
<1>4. CASE s \in {Touched(r), [r EXCEPT !.aged = TRUE]}
  BY <1>1, <1>4 DEF Touched, Row
<1>5. CASE s \in {Blocked(r), Cancelled(r), Finished(r), Fenced(r)}
  BY <1>1, <1>5 DEF Blocked, Cancelled, Finished, Fenced, Row, Gone
<1>6. r.state \notin {"claimed", "running", "review", "ready"}
  BY <1>1 DEF Gone
<1>7. ASSUME NEW d \in Runners, wrk[d].pc = "restoring", wrk[d].task = t,
             s = Restored(r, wrk[d].frozen)
      PROVE  s.state \in Gone
  <2>1. wrk[d].frozen.lease = wrk[d].lease /\ wrk[d].lease # r.lease
    BY <1>7 DEF LeaseInv, Spent, AtWork, Busy
  <2>2. s.state = r.state
    BY <1>1, <1>7, <2>1 DEF Restored, RestoredEvidence, Row
  <2> QED BY <1>1, <2>2
<1>8. ASSUME NEW d \in Runners, CanReview(r, wrk[d].lease) PROVE FALSE
  BY <1>6, <1>8 DEF CanReview
<1> QED BY <1>2, <1>3, <1>4, <1>5, <1>6, <1>7, <1>8 DEF RowMove

\* So a lease that is spent stays spent.
LEMMA SpentStays ==
  ASSUME TypeOK, LeaseInv, [Next]_vars, NEW t \in Tasks, NEW l \in Nat, Spent(t, l)
  PROVE  SpentNext(t, l)
<1>1. plan[t] \in Row /\ plan'[t] \in Row /\ RowMove(t) /\ NewLeaseOnly(plan[t], plan'[t])
  BY TypeStep, RowsMove, RowsKeepLeases DEF TypeOK, RowStep
<1>2. plan'[t].epoch >= l
  BY <1>1 DEF Spent, NewLeaseOnly, Row
<1>3. ASSUME plan'[t].lease = l
      PROVE  /\ plan[t].lease = l /\ plan'[t].state \in Gone
             /\ \A c \in Runners : AtWork(c)' /\ wrk'[c].task = t => wrk'[c].lease # l
  <2>1. plan[t].lease = l BY <1>1, <1>3 DEF Spent, NewLeaseOnly, Row
  <2>2. plan'[t].state \in Gone BY <1>1, <1>3, <2>1, GoneRow
  <2>3. ASSUME NEW c \in Runners, AtWork(c)', wrk'[c].task = t, wrk'[c].lease = l PROVE FALSE
    <3>1. wrk[c].task = t /\ wrk[c].lease = l
      BY <2>3, AttemptsMove, AtWorkMove
    <3>2. CanStart(plan[t], l)
      BY <2>1, <2>3, <3>1, AttemptsMove, AtWorkMove DEF Spent
    <3> QED BY <2>1, <3>2 DEF CanStart, Spent, Gone
  <2> QED BY <2>1, <2>2, <2>3
<1> QED BY <1>2, <1>3 DEF Spent, SpentNext

\* The landing gate and a hand-typed finish write the tree, and nothing else.
LEMMA TreeMoves ==
  ASSUME TypeOK, [Next]_vars
  PROVE  \/ applied' = applied
         \/ \E d \in Runners : Apply(d)
         \/ \E t \in Tasks : OperatorFinish(t)
<1>1. ASSUME NEW d \in Runners, DriverStep(d) PROVE applied' = applied
  BY <1>1
     DEF DriverStep, Begin, GiveUp, ClaimId, Adopt, ChecksFail, Delegate, Reap, TermShow,
         TermBlock, ParkFailedRepair, BlockByLease, CleanupShow, CleanupRelease, Signal,
         Stopped, ClaimNext, LookUp
<1>2. ASSUME NEW d \in Runners, LandStep(d), ~Apply(d) PROVE applied' = applied
  BY <1>2 DEF LandStep, LandSnapshot, LandLock, Admit, Fence, ApplyFails, Finish, Repair
<1>3. ASSUME NEW d \in Runners, WorkerStep(d) \/ KillDriver(d) \/ KillWorker(d)
      PROVE  applied' = applied
  BY <1>3 DEF WorkerStep, Snapshot, Register, Start, Freeze, Guard, Restore, Publish, Fail,
              Abort, Exit, KillDriver, KillWorker
<1>4. ASSUME OperatorStep, ~\E t \in Tasks : OperatorFinish(t) PROVE applied' = applied
  BY <1>4 DEF OperatorStep, OperatorRow, OperatorCancel, OperatorReclaim, OperatorDelegate
<1> QED BY <1>1, <1>2, <1>3, <1>4 DEF Next, vars, CollectMarker, Age

\* A patch comes into the tree of a task from a landing at its apply or, by
\* hand, from its row in review.
LEMMA TreeTakes ==
  ASSUME TypeOK, [Next]_vars, NEW t \in Tasks, NEW p \in applied'[t]
  PROVE  \/ p \in applied[t]
         \/ \E d \in Runners : Applying(d) /\ drv[d].task = t /\ p = drv[d].seen.patch
         \/ /\ plan[t].state = "review" /\ plan[t].patch # NoPatch /\ p = plan[t].patch
            /\ plan'[t] = Finished(plan[t]) /\ wrk' = wrk
<1>1. CASE applied' = applied BY <1>1
<1>2. ASSUME NEW d \in Runners, Apply(d), p \notin applied[t]
      PROVE  Applying(d) /\ drv[d].task = t /\ p = drv[d].seen.patch
  BY <1>2 DEF Apply, Applying, TypeOK
<1>3. ASSUME NEW x \in Tasks, OperatorFinish(x), p \notin applied[t]
      PROVE  /\ plan[t].state = "review" /\ plan[t].patch # NoPatch /\ p = plan[t].patch
             /\ plan'[t] = Finished(plan[t]) /\ wrk' = wrk
  BY <1>3 DEF OperatorFinish, CanFinishCommit, SetRow, TypeOK
<1> QED BY <1>1, <1>2, <1>3, TreeMoves

\* The patch of a row is the one it had, the one a worker puts back, or the
\* one a worker publishes.
LEMMA RowShows ==
  ASSUME TypeOK, NEW t \in Tasks, RowMove(t)
  PROVE  \/ plan'[t].patch = plan[t].patch /\ plan'[t].epoch \in {plan[t].epoch, plan[t].epoch + 1}
         \/ \E d \in Runners : /\ wrk[d].pc = "restoring" /\ wrk[d].task = t
                               /\ plan'[t] = Restored(plan[t], wrk[d].frozen)
                               /\ plan'[t].patch = wrk[d].frozen.patch
         \/ \E d \in Runners : /\ Publish(d) /\ wrk[d].task = t
                               /\ CanReview(plan[t], wrk[d].lease)
                               /\ plan'[t].patch = MyPatch(d)
                               /\ plan'[t].epoch = plan[t].epoch
<1> DEFINE r == plan[t]
           s == plan'[t]
<1>1. r \in Row BY DEF TypeOK
<1>2. CASE s \in {r, ClearClaim(r), Touched(r), Blocked(r), [r EXCEPT !.aged = TRUE]}
  BY <1>1, <1>2 DEF ClearClaim, Touched, Blocked, Row
<1>3. CASE s \in {Claimed(r), Started(r), Fenced(r), Repaired(r), Cancelled(r), Finished(r)}
  BY <1>1, <1>3 DEF Claimed, Started, Fenced, Repaired, Cancelled, Finished, Row
<1>4. ASSUME NEW d \in Runners, s = Restored(r, wrk[d].frozen)
      PROVE  s.patch = wrk[d].frozen.patch
  BY <1>1, <1>4 DEF Restored, RestoredEvidence, Row
<1>5. ASSUME NEW d \in Runners, s = Reviewed(r, MyPatch(d))
      PROVE  s.patch = MyPatch(d) /\ s.epoch = r.epoch
  BY <1>1, <1>5 DEF Reviewed, Row
<1> QED BY <1>2, <1>3, <1>4, <1>5 DEF RowMove

\* A worker's copy was its copy, or is the row's patch under its own lease.
LEMMA CopyShows ==
  ASSUME TypeOK, NEW d \in Runners, AttemptMove(d), Copying(d)'
  PROVE  /\ wrk'[d].task = wrk[d].task /\ wrk'[d].lease = wrk[d].lease
         /\ \/ Copying(d) /\ wrk'[d].frozen = wrk[d].frozen
            \/ /\ wrk'[d].frozen = plan[wrk[d].task]
               /\ wrk[d].lease # 0 /\ plan[wrk[d].task].lease = wrk[d].lease
BY DEF TypeOK, AttemptMove, Copying, Busy, Worker

\* A landing at its apply was there, or has just fenced the row's patch.
LEMMA LandingShows ==
  ASSUME TypeOK, NEW d \in Runners, LandMove(d), Applying(d)'
  PROVE  /\ drv'[d].task = drv[d].task /\ drv'[d].seen = drv[d].seen
         /\ \/ Applying(d)
            \/ /\ drv[d].pc = "fence"
               /\ CanLand(plan[drv[d].task], drv[d].seen.lease, drv[d].seen.patch)
               /\ plan'[drv[d].task] = Fenced(plan[drv[d].task])
               /\ wrk' = wrk
BY DEF TypeOK, LandMove, Applying, LandingPcs, Driver

\* So a patch of a task is one that was there, or is published.
LEMMA ShownStep ==
  ASSUME TypeOK, [Next]_vars, NEW t \in Tasks, NEW p, ShownNext(t, p)
  PROVE  \/ Shown(t, p)
         \/ \E d \in Runners : /\ Publish(d) /\ wrk[d].task = t
                               /\ CanReview(plan[t], wrk[d].lease)
                               /\ p = MyPatch(d) /\ plan'[t].patch = p
<1>1. CASE p = plan'[t].patch
  BY <1>1, RowsMove, RowShows DEF Shown, Copying
<1>2. ASSUME NEW d \in Runners, Copying(d)', wrk'[d].task = t, p = wrk'[d].frozen.patch
      PROVE  Shown(t, p)
  BY <1>2, AttemptsMove, CopyShows DEF Shown
<1>3. ASSUME NEW d \in Runners, Applying(d)', drv'[d].task = t, p = drv'[d].seen.patch
      PROVE  Shown(t, p)
  BY <1>3, GatesMove, LandingShows DEF Shown, CanLand
<1>4. CASE p \in applied'[t]
  BY <1>4, TreeTakes DEF Shown
<1> QED BY <1>1, <1>2, <1>3, <1>4 DEF ShownNext

\* What a worker publishes is the only patch of its lease.
LEMMA PublishedAlone ==
  ASSUME TypeOK, LeaseInv, BusyInv, PatchInv, [Next]_vars, NEW t \in Tasks,
         NEW d \in Runners, Publish(d), wrk[d].task = t, CanReview(plan[t], wrk[d].lease),
         plan'[t].patch = MyPatch(d),
         NEW p, ShownNext(t, p), p.lease = wrk[d].lease
  PROVE  p = MyPatch(d)
<1> DEFINE l == wrk[d].lease
           r == plan[t]
<1>1. /\ r \in Row /\ RowInv(r) /\ l \in Nat /\ l # 0 /\ AtWork(d)
      /\ r.lease = l /\ r.epoch = l /\ r.state \in {"claimed", "running"}
  BY DEF TypeOK, LeaseInv, Publish, AtWork, Busy, Worker, CanReview, Holds, RowInv
<1>2. ~Spent(t, l) BY <1>1 DEF Spent, Gone
<1>4. ASSUME NEW e \in Runners, Copying(e)', wrk'[e].task = t, p = wrk'[e].frozen.patch
      PROVE  FALSE
  <2>1. wrk[e].task = t /\ wrk'[e] = wrk[e] /\ e # d /\ Copying(e)
    <3>1. wrk[d].pc = "publishing" /\ wrk'[d].pc \in {"exiting", "retrying"}
      BY DEF Publish, TypeOK, Worker, AfterFailure
    <3>2. \A f \in Runners \ {d} : wrk'[f] = wrk[f] BY DEF Publish, TypeOK
    <3> QED BY <1>4, <3>1, <3>2 DEF Copying
  <2>2. AtWork(e) /\ wrk[e].lease <= l /\ wrk[e].lease \in Nat
    BY <1>1, <2>1 DEF Copying, AtWork, Busy, LeaseInv, BusyInv, TypeOK, Worker
  <2>3. p = NoPatch \/ p.lease <= wrk[e].lease
    BY <1>4, <2>1 DEF PatchInv, Authored
  <2>4. wrk[e].lease = l
    BY <1>1, <2>2, <2>3 DEF NoPatch
  <2> QED BY <1>1, <2>1, <2>2, <2>4 DEF BusyInv
<1>5. ASSUME NEW e \in Runners, Applying(e)', drv'[e].task = t, p = drv'[e].seen.patch
      PROVE  FALSE
  <2>1. drv' = drv BY DEF Publish
  <2> QED BY <1>2, <1>5, <2>1 DEF PatchInv, Applying
<1>6. CASE p \in applied'[t]
  <2>1. applied' = applied BY DEF Publish
  <2> QED BY <1>2, <1>6, <2>1 DEF PatchInv
<1> QED BY <1>4, <1>5, <1>6 DEF ShownNext

\* A patch that is applied, or about to be, is of a lease that is spent.
LEMMA SpentStep ==
  ASSUME TypeOK, LeaseInv, BusyInv, PatchInv, [Next]_vars
  PROVE  /\ \A d \in Runners : Applying(d)' => SpentNext(drv'[d].task, drv'[d].seen.patch.lease)
         /\ \A t \in Tasks : \A p \in applied'[t] : SpentNext(t, p.lease)
<1>1. \A d \in Runners : /\ drv[d] \in Driver /\ LandMove(d)
                         /\ drv[d].task \in Tasks /\ drv[d].seen.patch \in Patches
                         /\ drv[d].seen.patch.lease \in Nat
  BY GatesMove DEF TypeOK, Driver, Receipts, Patches
<1>2. \A t \in Tasks : plan[t] \in Row /\ RowInv(plan[t]) /\ plan[t].patch.lease \in Nat
  BY DEF TypeOK, LeaseInv, Row, Patches
<1>3. ASSUME NEW d \in Runners, Applying(d)'
      PROVE  SpentNext(drv'[d].task, drv'[d].seen.patch.lease)
  <2> DEFINE t == drv[d].task
             l == drv[d].seen.patch.lease
  <2>1. drv'[d].task = t /\ drv'[d].seen.patch.lease = l
    BY <1>1, <1>3, LandingShows
  <2>2. CASE Applying(d)
    BY <1>1, <2>1, <2>2, SpentStays DEF PatchInv
  <2>3. CASE ~Applying(d)
    <3>1. /\ drv[d].pc = "fence" /\ CanLand(plan[t], drv[d].seen.lease, drv[d].seen.patch)
          /\ plan'[t] = Fenced(plan[t]) /\ wrk' = wrk
      BY <1>1, <1>3, <2>3, LandingShows
    <3>2. l = drv[d].seen.lease /\ NamesReview(plan[t], l)
      BY <3>1 DEF PatchInv, LandingPcs, CanLand
    <3>3. l # 0 /\ plan[t].state = "review" /\ plan[t].lease = l /\ plan[t].epoch = l
      BY <1>1, <1>2, <3>2 DEF NamesReview, RowInv
    <3>4. plan'[t].state = "landing" /\ plan'[t].epoch = l
      BY <1>1, <1>2, <3>1, <3>3 DEF Fenced, Row
    <3>5. \A c \in Runners : AtWork(c) /\ wrk[c].task = t => wrk[c].lease # l
      BY <3>3 DEF BusyInv, Kept
    <3> QED BY <1>1, <2>1, <3>1, <3>3, <3>4, <3>5 DEF SpentNext, AtWork, Gone
  <2> QED BY <2>2, <2>3
<1>4. ASSUME NEW t \in Tasks, NEW p \in applied'[t] PROVE SpentNext(t, p.lease)
  <2>1. CASE p \in applied[t]
    BY <2>1, SpentStays DEF PatchInv, TypeOK, Patches
  <2>2. ASSUME NEW d \in Runners, Applying(d), drv[d].task = t, p = drv[d].seen.patch
        PROVE  SpentNext(t, p.lease)
    BY <1>1, <2>2, SpentStays DEF PatchInv
  <2>3. ASSUME plan[t].state = "review", plan[t].patch # NoPatch, p = plan[t].patch,
               plan'[t] = Finished(plan[t]), wrk' = wrk
        PROVE  SpentNext(t, p.lease)
    <3>1. p.lease # 0 /\ plan[t].epoch >= p.lease
      BY <1>2, <2>3 DEF PatchInv, Authored, Row
    <3>2. /\ plan'[t].state = "done" /\ plan'[t].epoch = plan[t].epoch
          /\ plan'[t].lease = plan[t].lease
      BY <1>2, <2>3 DEF Finished, Row
    <3>3. \A c \in Runners : AtWork(c) /\ wrk[c].task = t => wrk[c].lease # plan[t].lease
      BY <2>3 DEF BusyInv, Kept
    <3> QED BY <2>3, <3>1, <3>2, <3>3 DEF SpentNext, AtWork, Gone
  <2> QED BY <2>1, <2>2, <2>3, TreeTakes
<1> QED BY <1>3, <1>4

\* Patches and their copies are of leases that were minted.
LEMMA AuthoredStep ==
  ASSUME TypeOK, LeaseInv, BusyInv, PatchInv, [Next]_vars
  PROVE  /\ \A t \in Tasks : Authored(plan'[t].patch, plan'[t].epoch)
         /\ \A d \in Runners : Copying(d)' => Authored(wrk'[d].frozen.patch, wrk'[d].lease)
<1>1. \A t \in Tasks : /\ plan[t] \in Row /\ plan'[t] \in Row /\ RowInv(plan[t])
                       /\ RowMove(t) /\ NewLeaseOnly(plan[t], plan'[t])
                       /\ plan[t].patch.lease \in Nat /\ plan[t].epoch \in Nat
                       /\ plan'[t].epoch \in Nat /\ plan'[t].epoch >= plan[t].epoch
  BY TypeStep, RowsMove, RowsKeepLeases
     DEF TypeOK, LeaseInv, Row, Patches, RowStep, NewLeaseOnly
<1>2. \A d \in Runners : /\ wrk[d].task \in Tasks /\ wrk[d].lease \in Nat
                         /\ wrk[d].frozen \in Row /\ wrk[d].frozen.patch.lease \in Nat
  BY DEF TypeOK, Worker, Row, Patches
<1>3. ASSUME NEW t \in Tasks PROVE Authored(plan'[t].patch, plan'[t].epoch)
  <2>1. CASE plan'[t].patch = plan[t].patch
    BY <1>1, <2>1 DEF PatchInv, Authored
  <2>2. ASSUME NEW d \in Runners, wrk[d].pc = "restoring", wrk[d].task = t,
               plan'[t].patch = wrk[d].frozen.patch
        PROVE  Authored(plan'[t].patch, plan'[t].epoch)
    <3>1. AtWork(d) /\ Copying(d) BY <2>2 DEF LeaseInv, AtWork, Busy, Copying
    <3>2. plan[t].epoch >= wrk[d].lease BY <2>2, <3>1 DEF BusyInv
    <3>3. Authored(wrk[d].frozen.patch, wrk[d].lease) BY <3>1 DEF PatchInv
    <3> QED BY <1>1, <1>2, <2>2, <3>2, <3>3 DEF Authored
  <2>3. ASSUME NEW d \in Runners, Publish(d), wrk[d].task = t,
               CanReview(plan[t], wrk[d].lease), plan'[t].patch = MyPatch(d)
        PROVE  Authored(plan'[t].patch, plan'[t].epoch)
    <3>1. wrk[d].lease # 0 BY <2>3 DEF LeaseInv, Publish
    <3>2. wrk[d].lease = plan[t].epoch
      BY <1>1, <2>3, <3>1 DEF CanReview, Holds, RowInv
    <3> QED BY <1>1, <1>2, <2>3, <3>1, <3>2 DEF Authored, MyPatch
  <2> QED BY <1>1, <2>1, <2>2, <2>3, RowShows
<1>4. ASSUME NEW d \in Runners, Copying(d)'
      PROVE  Authored(wrk'[d].frozen.patch, wrk'[d].lease)
  <2>1. CASE Copying(d) /\ wrk'[d].frozen = wrk[d].frozen /\ wrk'[d].lease = wrk[d].lease
    BY <2>1 DEF PatchInv
  <2>2. CASE /\ wrk'[d].frozen = plan[wrk[d].task] /\ wrk'[d].lease = wrk[d].lease
             /\ wrk[d].lease # 0 /\ plan[wrk[d].task].lease = wrk[d].lease
    BY <1>1, <1>2, <2>2 DEF PatchInv, RowInv
  <2> QED BY <1>4, <2>1, <2>2, AttemptsMove, CopyShows
<1> QED BY <1>3, <1>4

\* What a landing has taken is of the lease it names.
LEMMA LandingNamesStep ==
  ASSUME TypeOK, LeaseInv, PatchInv, [Next]_vars, NEW d \in Runners, drv'[d].pc \in LandingPcs
  PROVE  drv'[d].seen.patch.lease = drv'[d].seen.lease
<1>1. /\ drv[d] \in Driver /\ LandMove(d) /\ RowInv(plan[drv[d].task])
  BY GatesMove DEF TypeOK, Driver, LeaseInv
<1>2. CASE drv'[d].seen = drv[d].seen /\ drv[d].pc \in LandingPcs
  BY <1>2 DEF PatchInv
<1>3. ASSUME NamesReview(plan[drv[d].task], plan[drv[d].task].lease),
             drv'[d] = [drv[d] EXCEPT !.pc = "lock", !.seen = Receipt(plan[drv[d].task])]
      PROVE  drv'[d].seen.patch.lease = drv'[d].seen.lease
  <2>1. drv'[d].seen = Receipt(plan[drv[d].task]) BY <1>1, <1>3 DEF Driver
  <2> QED BY <1>1, <1>3, <2>1 DEF Receipt, NamesReview, RowInv
<1> QED BY <1>1, <1>2, <1>3 DEF LandMove, LandingPcs, Driver

\* The invariant is kept.
LEMMA PatchStep == TypeOK /\ LeaseInv /\ BusyInv /\ PatchInv /\ [Next]_vars => PatchInv'
<1> SUFFICES ASSUME TypeOK, LeaseInv, BusyInv, PatchInv, [Next]_vars PROVE PatchInv'
  OBVIOUS
<1>1. ASSUME NEW t \in Tasks, NEW p \in Patches, NEW q \in Patches,
             ShownNext(t, p), ShownNext(t, q), p.lease = q.lease
      PROVE  p = q
  <2>1. ASSUME NEW d \in Runners, Publish(d), wrk[d].task = t,
               CanReview(plan[t], wrk[d].lease), plan'[t].patch = MyPatch(d),
               p = MyPatch(d) \/ q = MyPatch(d)
        PROVE  p = q
    <3>1. p.lease = wrk[d].lease /\ q.lease = wrk[d].lease
      BY <1>1, <2>1 DEF MyPatch
    <3> QED BY <1>1, <2>1, <3>1, PublishedAlone
  <2>2. CASE Shown(t, p) /\ Shown(t, q)
    BY <1>1, <2>2 DEF PatchInv
  <2> QED BY <1>1, <2>1, <2>2, ShownStep
<1>2. \A t \in Tasks, p \in Patches : Shown(t, p)' <=> ShownNext(t, p)
  BY DEF Shown, ShownNext
<1>3. (\A t \in Tasks : \A p, q \in Patches :
         Shown(t, p) /\ Shown(t, q) /\ p.lease = q.lease => p = q)'
  BY <1>1, <1>2
<1>4. (\A d \in Runners : Applying(d) => Spent(drv[d].task, drv[d].seen.patch.lease))'
  BY SpentStep DEF Spent, SpentNext
<1>5. (\A t \in Tasks : \A p \in applied[t] : Spent(t, p.lease))'
  BY SpentStep DEF Spent, SpentNext
<1>6. /\ (\A t \in Tasks : Authored(plan[t].patch, plan[t].epoch))'
      /\ (\A d \in Runners : Copying(d) => Authored(wrk[d].frozen.patch, wrk[d].lease))'
  BY AuthoredStep DEF Authored
<1>7. (\A d \in Runners : drv[d].pc \in LandingPcs =>
         drv[d].seen.patch.lease = drv[d].seen.lease)'
  BY LandingNamesStep
<1> QED BY <1>3, <1>4, <1>5, <1>6, <1>7 DEF PatchInv

\* In every configuration, and whatever an operator types, the tree takes at
\* most one patch per lease, however often a review is landed, repaired or
\* finished by hand.
THEOREM OnePatchPerLeaseCorrect == Spec => []OnePatchPerLease
<1>1. Init => PatchInv
  <2> SUFFICES ASSUME Init PROVE PatchInv
    OBVIOUS
  <2>1. /\ \A t \in Tasks : plan[t] = Added /\ applied[t] = {}
        /\ \A d \in Runners : drv[d].pc = "idle" /\ ~Copying(d)
    BY DEF Init, IdleDriver, NoWorker, Copying
  <2>2. \A t \in Tasks, p \in Patches : Shown(t, p) => p = NoPatch
    BY <2>1 DEF Shown, Applying, Added
  <2> QED BY <2>1, <2>2 DEF PatchInv, Applying, LandingPcs, Authored, Added
<1>2. TypeOK /\ LeaseInv /\ BusyInv /\ PatchInv /\ [Next]_vars => PatchInv'
  BY PatchStep
<1>3. TypeOK /\ PatchInv => OnePatchPerLease
  BY DEF TypeOK, PatchInv, OnePatchPerLease, Shown
<1> QED BY <1>1, <1>2, <1>3, BusyInvCorrect, PTL DEF Spec

=============================================================================
