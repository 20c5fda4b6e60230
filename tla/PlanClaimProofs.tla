--------------------------- MODULE PlanClaimProofs ---------------------------
(* Plan-runs that are left alone: no operator at the command line, no TTL   *)
(* shorter than a start.  Until a task has used its repair, a claim of it   *)
(* has one runner and a worker keeps it until its outcome; a task is        *)
(* repaired once.  Without --auto-repair, moreover, nothing moves a row     *)
(* under the process that lands it.                                         *)
EXTENDS PlanRunProofs

Alone == OperatorVerbs = {} /\ Prompt
NoRepairs == "auto" \notin Modes
Quiet == Alone /\ NoRepairs

-----------------------------------------------------------------------------
(* Nothing is cancelled, so every command loads the plan.                  *)

OpenInv ==
  /\ \A t \in Tasks : ~plan[t].cancelled /\ plan[t].state # "cancelled"
  /\ \A d \in Runners : wrk[d].pc \in {"working", "restoring"} =>
       ~wrk[d].frozen.cancelled /\ wrk[d].frozen.state # "cancelled"

\* Only an operator cancels, and a worker puts back only what it has seen.
LEMMA OpenStep ==
  ASSUME Alone, TypeOK, OpenInv, [Next]_vars PROVE OpenInv'
<1>1. ASSUME NEW t \in Tasks PROVE ~plan'[t].cancelled /\ plan'[t].state # "cancelled"
  <2> DEFINE r == plan[t]
             s == plan'[t]
  <2>1. r \in Row /\ ~r.cancelled /\ r.state # "cancelled" /\ RowMove(t)
    BY RowsMove DEF TypeOK, OpenInv
  <2>2. ASSUME s \in {r, Claimed(r), ClearClaim(r), Started(r), Touched(r), Blocked(r),
                      [r EXCEPT !.aged = TRUE], Fenced(r), Repaired(r), Finished(r)}
        PROVE  s.cancelled = r.cancelled /\ s.state # "cancelled"
    BY <2>1, <2>2
       DEF Claimed, ClearClaim, Started, Touched, Blocked, Fenced, Repaired, Finished, Row
  <2>3. ASSUME NEW p, s = Reviewed(r, p) PROVE s.cancelled = r.cancelled /\ s.state = "review"
    BY <2>1, <2>3 DEF Reviewed, Row
  <2>4. ASSUME NEW d \in Runners, wrk[d].pc = "restoring", s = Restored(r, wrk[d].frozen)
        PROVE  ~s.cancelled /\ s.state # "cancelled"
    <3>1. ~wrk[d].frozen.cancelled /\ wrk[d].frozen.state # "cancelled"
      BY <2>4 DEF OpenInv
    <3> QED BY <2>1, <2>4, <3>1 DEF Restored, RestoredEvidence, Row
  <2>5. ~OperatorCancel(t) /\ ~OperatorFinish(t)
    BY DEF Alone, OperatorCancel, OperatorFinish
  <2> QED BY <2>1, <2>2, <2>3, <2>4, <2>5 DEF RowMove
<1>2. ASSUME NEW d \in Runners, wrk'[d].pc \in {"working", "restoring"}
      PROVE  ~wrk'[d].frozen.cancelled /\ wrk'[d].frozen.state # "cancelled"
  <2>1. wrk[d] \in Worker /\ wrk'[d].pc \in Busy /\ plan[wrk[d].task].cancelled = FALSE
        /\ plan[wrk[d].task].state # "cancelled"
    BY <1>2 DEF TypeOK, Busy, OpenInv, Worker, Row
  <2>2. \/ wrk[d].pc \in {"working", "restoring"} /\ wrk'[d].frozen = wrk[d].frozen
        \/ wrk'[d].frozen = plan[wrk[d].task]
    BY <1>2, <2>1, AttemptsMove DEF AttemptMove, Worker
  <2> QED BY <2>1, <2>2 DEF OpenInv
<1> QED BY <1>1, <1>2 DEF OpenInv

LEMMA OpenLoads == ASSUME OpenInv PROVE Loads
BY DEF OpenInv, Loads, WellFormed

-----------------------------------------------------------------------------
(* The invariant.  Every plan-run and every worker that still believes in a *)
(* claim is right, as long as the task has not been repaired: the row       *)
(* carries its lease, no marker of a dead process names it, and no other    *)
(* runner believes in the same claim.                                       *)

InWork == {"claimed", "running"}

\* Task t has not used its repair.
First(t) == plan[t].repair = 0

\* The points of plan-run at which it may still delegate or release, and
\* those behind its worker's delivery.
HoldPcs == {"checks", "wait", "stopping", "cleanup", "release"}
LatePcs == {"land", "lock", "admit", "fence", "apply", "finish", "repair", "block"}

\* The points of a worker between its reading of the lease and its outcome,
\* and those of them at which its marker is out.
MarkedPcs == {"marked", "started", "working", "publishing", "failing"}
AlivePcs == MarkedPcs \cup {"snapped"}

Holder(d, t) ==
  \/ drv[d].pc = "adopt" /\ drv[d].task = t
  \/ drv[d].pc \in HoldPcs /\ drv[d].task = t /\ drv[d].lease = plan[t].lease
  \/ wrk[d].pc \in AlivePcs \cup {"boot"} /\ wrk[d].task = t

\* Task t is claimed under lease l and no marker has named l yet.
Fresh(t, l) ==
  /\ plan[t].state = "claimed" /\ plan[t].lease = l
  /\ \A m \in markers : m.task = t => m.lease # l

\* Nobody works on task t under lease l any more.
Past(t, l) == l # 0 /\ (plan[t].lease = l => plan[t].state \notin InWork)

RowQuiet(t) ==
  /\ NoRepairs => First(t) /\ plan[t].state # "blocked"
  /\ First(t) =>
       /\ plan[t].state = "claimed" /\ plan[t].aged => ~Holding(t)
       /\ \A c, d \in Runners :
            plan[t].state \in InWork /\ Holder(c, t) /\ Holder(d, t) => c = d

DriverQuiet(d) ==
  LET u == drv[d]
      r == plan[u.task]
  IN /\ NoRepairs => u.mode # "auto" /\ u.pc \notin {"repair", "block"}
     /\ u.lease <= r.epoch
     /\ u.pc \in {"idle", "pick", "claim"} => u.lease = 0 /\ u.round = "first"
     /\ u.pc \notin {"idle", "wait", "stopping"} => ~WorkerLive(d)
     /\ u.pc = "wait" /\ WorkerLive(d) => wrk[d].task = u.task
     /\ First(u.task) =>
          /\ u.round = "first" /\ u.pc \notin {"termShow", "termBlock"}
          /\ u.pc = "adopt" => Fresh(u.task, r.lease)
          /\ u.pc = "checks" => Fresh(u.task, u.lease)
          /\ u.pc = "wait" => u.lease # 0
          /\ u.pc = "release" => /\ u.lease # 0
                                 /\ r.lease = u.lease => r.state \in InWork
          /\ u.pc \in LatePcs \/ (u.pc = "wait" /\ wrk[d].ok) => Past(u.task, u.lease)

WorkerQuiet(d) ==
  LET w == wrk[d]
      r == plan[w.task]
  IN /\ w.lease <= r.epoch
     /\ First(w.task) =>
          /\ ~w.term
          /\ w.pc \notin {"restoring", "retrying"}
          /\ w.pc = "boot" => Fresh(w.task, r.lease)
          /\ w.pc = "snapped" => Fresh(w.task, w.lease)
          /\ w.pc \in MarkedPcs => /\ MyMarker(d) \in markers
                                   /\ r.lease = w.lease /\ r.state \in InWork
          /\ w.pc \in {"started", "working"} => r.state = "running"
          /\ w.pc = "working" => Touched(r) = Touched(w.frozen)

\* A review that a landing has taken names one lease throughout.
OneLease(seen) == /\ seen.epoch = seen.lease /\ seen.reviewLease = seen.lease
                  /\ seen.repair = 0

LandingQuiet(d) ==
  LET u == drv[d]
      r == plan[u.task]
  IN /\ u.pc \in {"admit", "fence", "apply", "finish"} => lander = d
     /\ NoRepairs =>
          /\ u.pc \in {"lock", "admit", "fence", "apply", "finish"} => OneLease(u.seen)
          /\ u.pc \in {"apply", "finish"} => r.state = "landing" /\ Receipt(r) = u.seen

QuietInv ==
  /\ \A t \in Tasks : RowQuiet(t)
  /\ \A d \in Runners : DriverQuiet(d) /\ WorkerQuiet(d) /\ LandingQuiet(d)
  /\ \A m \in markers : m.lease <= plan[m.task].epoch

-----------------------------------------------------------------------------
(* The repair counter.  It falls only if a worker puts back a row it has    *)
(* frozen before the repair: then the repair must have come while it was at *)
(* work, and a row that a worker is at work on is not in review.            *)

RepairInv ==
  \A d \in Runners :
    wrk[d].pc \in {"working", "restoring"} /\ plan[wrk[d].task].repair = 1 =>
      wrk[d].frozen.repair = 1

\* The counter of a row.
LEMMA CounterMoves ==
  ASSUME Alone, TypeOK, RepairInv, QuietInv, [Next]_vars, NEW t \in Tasks
  PROVE  /\ plan[t].repair = 1 => plan'[t].repair = 1
         /\ First(t) /\ plan'[t].repair = 1 => plan[t].state = "review"
<1> DEFINE r == plan[t]
           s == plan'[t]
<1>1. r \in Row /\ s \in Row /\ RowMove(t) BY RowsMove, TypeStep DEF TypeOK
<1>2. s \in {r, Claimed(r), ClearClaim(r), Started(r), Touched(r), Blocked(r),
             [r EXCEPT !.aged = TRUE], Fenced(r), Finished(r)} => s.repair = r.repair
  BY <1>1 DEF Claimed, ClearClaim, Started, Touched, Blocked, Fenced, Finished, Row
<1>3. \A p : s = Reviewed(r, p) => s.repair = r.repair BY <1>1 DEF Reviewed, Row
<1>4. s = Repaired(r) => s.repair = 1 BY <1>1 DEF Repaired, Row
<1>5. ASSUME NEW d \in Runners, wrk[d].pc = "restoring", wrk[d].task = t,
             s = Restored(r, wrk[d].frozen)
      PROVE  r.repair = 1 /\ s.repair = 1
  <2>1. r.repair = 1
    <3>1. ~First(t) BY <1>5 DEF QuietInv, WorkerQuiet
    <3> QED BY <1>1, <3>1 DEF First, Row
  <2>2. wrk[d].frozen.repair = 1 BY <1>5, <2>1 DEF RepairInv
  <2>3. s.repair = wrk[d].frozen.repair BY <1>1, <1>5 DEF Restored, RestoredEvidence, Row
  <2> QED BY <2>1, <2>2, <2>3
<1>6. ~OperatorCancel(t) BY DEF Alone, OperatorCancel
<1> QED BY <1>1, <1>2, <1>3, <1>4, <1>5, <1>6 DEF RowMove, First

\* No worker has an older counter to put back.
LEMMA RepairInvStep ==
  ASSUME Alone, TypeOK, RepairInv, QuietInv, [Next]_vars PROVE RepairInv'
<1> SUFFICES ASSUME NEW d \in Runners, wrk'[d].pc \in {"working", "restoring"},
                    plan'[wrk'[d].task].repair = 1
             PROVE  wrk'[d].frozen.repair = 1
  BY DEF RepairInv
<1> DEFINE w == wrk[d]
<1>1. /\ w \in Worker /\ w.task \in Tasks /\ plan[w.task] \in Row
      /\ wrk'[d].pc \in Busy /\ AttemptMove(d)
  BY AttemptsMove DEF TypeOK, Worker, Busy
<1>2. /\ wrk'[d].task = w.task
      /\ \/ w.pc \in {"working", "restoring"} /\ wrk'[d].frozen = w.frozen
         \/ w.pc = "started" /\ wrk'[d].frozen = plan[w.task]
  BY <1>1 DEF AttemptMove, Worker
<1>3. First(w.task) => plan[w.task].state # "review"
  BY <1>2 DEF QuietInv, WorkerQuiet
<1>4. plan[w.task].repair = 1 BY <1>1, <1>2, <1>3, CounterMoves DEF First, Row
<1> QED BY <1>2, <1>4 DEF RepairInv

-----------------------------------------------------------------------------
(* What a step of runner d does to a row, and to what others rely on.      *)

QuietMove(d, t) ==
  LET r == plan[t]
      s == plan'[t]
  IN \/ s = r
     \/ r.state = "ready" /\ DepsDone(t) /\ s = Claimed(r)
     \/ ClaimExpired(t) /\ s = ClearClaim(r)
     \/ ClaimExpired(t) /\ DepsDone(t) /\ s = Claimed(r)
     \/ /\ r.state \in InWork /\ Holder(d, t)
        /\ \/ s = ClearClaim(r)
           \/ r.state = "claimed" /\ s = Started(r)
           \/ s.patch.lease = r.lease /\ s = Reviewed(r, s.patch)
     \/ r.state = "review" /\ s = Fenced(r)
     \/ /\ r.state \in {"review", "landing"} /\ lander = d
        /\ s \in {ClearClaim(r), Finished(r)}
     \/ /\ ~NoRepairs
        /\ \/ r.state = "review" /\ s = Repaired(r)
           \/ r.state \notin InWork /\ s = Blocked(r)

\* A process of runner d on task t that nothing but time protects.
Loose(d, t) ==
  \/ drv[d].pc = "adopt" /\ drv[d].task = t
  \/ drv[d].pc # "idle" /\ drv[d].task = t /\ drv[d].lease = plan[t].lease
  \/ wrk[d].pc \in {"boot", "snapped"} /\ wrk[d].task = t

\* What a step of runner d must leave alone ...
OthersKept(d) ==
  /\ \A e \in Runners \ {d} :
       /\ drv'[e] = drv[e] /\ wrk'[e] = wrk[e]
       /\ lander = e => lander' = e
       /\ MyMarker(e) \in markers => MyMarker(e) \in markers'
  /\ \A m \in markers' : \/ \E n \in markers : n.task = m.task /\ n.lease = m.lease
                         \/ wrk[d].pc = "snapped" /\ m = MyMarker(d)

\* ... and take for itself only by a claim.
NothingTaken(d) ==
  \A t \in Tasks : First(t) /\ plan'[t] = plan[t] /\ plan[t].state \in InWork =>
    /\ Holder(d, t)' => Holder(d, t)
    /\ Loose(d, t)' => Loose(d, t)

OwnQuiet(d) == DriverQuiet(d) /\ WorkerQuiet(d) /\ LandingQuiet(d)

LEMMA HoldingIsLoose == ASSUME NEW t \in Tasks PROVE Holding(t) <=> \E d \in Runners : Loose(d, t)
BY DEF Holding, Loose

\* What the verbs leave.
LEMMA QuietVerbs ==
  ASSUME NEW r \in Row
  PROVE  /\ Claimed(r).state = "claimed" /\ Claimed(r).lease = r.epoch + 1
         /\ Claimed(r).epoch = r.epoch + 1 /\ Claimed(r).aged = FALSE
         /\ ClearClaim(r).state = "ready" /\ ClearClaim(r).lease = 0
         /\ Started(r).state = "running" /\ Started(r).lease = r.lease
         /\ \A p : Reviewed(r, p).state = "review" /\ Reviewed(r, p).lease = r.lease
         /\ Fenced(r).state = "landing" /\ Fenced(r).lease = r.lease
         /\ Finished(r).state = "done" /\ Finished(r).lease = r.lease
         /\ Blocked(r).state = "blocked" /\ Repaired(r).repair = 1
         /\ \A s \in {Claimed(r), ClearClaim(r), Started(r), Fenced(r), Finished(r), Blocked(r)} :
              s.repair = r.repair
         /\ \A p : Reviewed(r, p).repair = r.repair
BY DEF Claimed, ClearClaim, Started, Reviewed, Fenced, Finished, Blocked, Repaired, Row

\* A row whose counter stays is not repaired.
LEMMA NotRepaired ==
  ASSUME NEW r \in Row, NEW s, s.repair = 0 PROVE s # Repaired(r)
<1>1. Repaired(r).repair = 1 BY QuietVerbs
<1> QED BY <1>1

\* Nobody else believes in a claim that is free to take.
LEMMA FreeToClaim ==
  ASSUME TypeOK, LeaseInv, QuietInv, NEW t \in Tasks, NEW e \in Runners, First(t),
         plan[t].state = "ready" \/ ClaimExpired(t)
  PROVE  /\ ~(drv[e].pc = "adopt" /\ drv[e].task = t)
         /\ ~(wrk[e].pc \in AlivePcs \cup {"boot"} /\ wrk[e].task = t)
<1>1. ~(drv[e].pc = "adopt" /\ drv[e].task = t)
  <2> SUFFICES ASSUME drv[e].pc = "adopt", drv[e].task = t PROVE FALSE
    OBVIOUS
  <2>1. plan[t].state = "claimed" BY DEF QuietInv, DriverQuiet, Fresh
  <2>2. plan[t].aged BY <2>1 DEF ClaimExpired
  <2>3. Holding(t) BY DEF Holding
  <2> QED BY <2>1, <2>2, <2>3 DEF QuietInv, RowQuiet
<1>2. ~(wrk[e].pc \in {"boot", "snapped"} /\ wrk[e].task = t)
  <2> SUFFICES ASSUME wrk[e].pc \in {"boot", "snapped"}, wrk[e].task = t PROVE FALSE
    OBVIOUS
  <2>1. plan[t].state = "claimed" BY DEF QuietInv, WorkerQuiet, Fresh
  <2>2. plan[t].aged BY <2>1 DEF ClaimExpired
  <2>3. Holding(t) BY DEF Holding
  <2> QED BY <2>1, <2>2, <2>3 DEF QuietInv, RowQuiet
<1>3. ~(wrk[e].pc \in MarkedPcs /\ wrk[e].task = t)
  <2> SUFFICES ASSUME wrk[e].pc \in MarkedPcs, wrk[e].task = t PROVE FALSE
    OBVIOUS
  <2>1. /\ MyMarker(e) \in markers /\ plan[t].lease = wrk[e].lease
        /\ plan[t].state \in InWork
    BY DEF QuietInv, WorkerQuiet
  <2>2. MyMarker(e).task = t /\ MyMarker(e).lease = plan[t].lease /\ MyMarker(e).by # NoOne
    BY <2>1, NoOneAssumption DEF MyMarker
  <2>3. LiveMarker(t, plan[t].lease) BY <2>1, <2>2 DEF LiveMarker
  <2> QED BY <2>1, <2>3 DEF ClaimExpired, InWork
<1> QED BY <1>1, <1>2, <1>3 DEF AlivePcs

\* Under a step of d no other runner comes to hold a claim.
LEMMA OtherHolder ==
  ASSUME TypeOK, LeaseInv, QuietInv, NEW d \in Runners, NEW e \in Runners \ {d},
         NEW t \in Tasks, First(t), plan'[t].repair = 0, QuietMove(d, t),
         drv'[e] = drv[e], wrk'[e] = wrk[e], plan'[t].state \in InWork, Holder(e, t)'
  PROVE  plan'[t] = plan[t] /\ Holder(e, t)
<1>1. plan[t] \in Row /\ RowInv(plan[t]) BY DEF TypeOK, LeaseInv
<1>2. CASE plan'[t] = plan[t] BY <1>2 DEF Holder
<1>3. ASSUME plan'[t] = Claimed(plan[t]), plan[t].state = "ready" \/ ClaimExpired(t) PROVE FALSE
  <2>1. /\ ~(drv[e].pc = "adopt" /\ drv[e].task = t)
        /\ ~(wrk[e].pc \in AlivePcs \cup {"boot"} /\ wrk[e].task = t)
    BY <1>3, FreeToClaim
  <2>2. plan'[t].lease = plan[t].epoch + 1 /\ plan[t].epoch \in Nat
    <3>1. Claimed(plan[t]).lease = plan[t].epoch + 1 BY <1>1, QuietVerbs
    <3> QED BY <1>1, <1>3, <3>1 DEF Row
  <2>3. drv[e].lease \in Nat BY DEF TypeOK, Driver
  <2>4. drv[e].lease <= plan[drv[e].task].epoch BY DEF QuietInv, DriverQuiet
  <2>5. drv[e].task = t => drv[e].lease # plan'[t].lease BY <2>2, <2>3, <2>4
  <2> QED BY <2>1, <2>5 DEF Holder
<1>4. ASSUME plan'[t] = Started(plan[t]), plan[t].state \in InWork, Holder(d, t) PROVE FALSE
  <2>1. Holder(e, t) BY <1>1, <1>4, QuietVerbs DEF Holder
  <2> QED BY <1>4, <2>1 DEF QuietInv, RowQuiet
<1>5. plan'[t].state \notin {"ready", "review", "landing", "done", "blocked"} BY DEF InWork
<1>6. \A s \in {ClearClaim(plan[t]), Fenced(plan[t]), Finished(plan[t]), Blocked(plan[t])} :
        s.state \notin InWork
  BY <1>1, QuietVerbs DEF InWork
<1>7. Reviewed(plan[t], plan'[t].patch).state \notin InWork
  BY <1>1, QuietVerbs DEF InWork
<1>8. plan'[t] # Repaired(plan[t]) BY <1>1, NotRepaired
<1>9. plan[t].state = "claimed" => plan[t].state \in InWork BY DEF InWork
<1> QED BY <1>2, <1>3, <1>4, <1>6, <1>7, <1>8, <1>9 DEF QuietMove

\* A claim somebody else holds is not moved.
LEMMA HeldByOther ==
  ASSUME TypeOK, LeaseInv, QuietInv, NEW d \in Runners, NEW e \in Runners \ {d},
         NEW t \in Tasks, First(t), QuietMove(d, t), plan[t].state \in InWork, Holder(e, t)
  PROVE  plan'[t] = plan[t]
<1>1. ~Holder(d, t) BY DEF QuietInv, RowQuiet
<1>2. ~ClaimExpired(t)
  <2> SUFFICES ASSUME ClaimExpired(t) PROVE FALSE
    OBVIOUS
  <2>1. /\ ~(drv[e].pc = "adopt" /\ drv[e].task = t)
        /\ ~(wrk[e].pc \in AlivePcs \cup {"boot"} /\ wrk[e].task = t)
    BY FreeToClaim
  <2>2. drv[e].pc \in HoldPcs /\ drv[e].task = t /\ drv[e].lease = plan[t].lease
    BY <2>1 DEF Holder
  <2>3. Holding(t) BY <2>2 DEF Holding, HoldPcs
  <2> QED BY <2>3 DEF ClaimExpired, QuietInv, RowQuiet
<1>3. plan[t].state \notin {"ready", "review", "landing"} BY DEF InWork
<1> QED BY <1>1, <1>2, <1>3 DEF QuietMove

\* Nor is the row another runner is landing, where nothing is repaired.
LEMMA LandedByOther ==
  ASSUME NoRepairs, NEW d \in Runners, NEW e \in Runners \ {d}, NEW t \in Tasks,
         QuietMove(d, t), plan[t].state = "landing", lander = e
  PROVE  plan'[t] = plan[t]
BY DEF QuietMove, ClaimExpired, InWork

\* A claim that had no marker gets none from a worker of another runner.
LEMMA FreshKept ==
  ASSUME QuietInv, NEW d \in Runners, NEW e \in Runners \ {d}, NEW t \in Tasks, NEW l,
         First(t), OthersKept(d), plan'[t] = plan[t], Fresh(t, l), Holder(e, t)
  PROVE  Fresh(t, l)'
<1>1. plan[t].state \in InWork BY DEF Fresh, InWork
<1>2. ~Holder(d, t) BY <1>1 DEF QuietInv, RowQuiet
<1>3. ~(wrk[d].pc = "snapped" /\ wrk[d].task = t) BY <1>2 DEF Holder, AlivePcs
<1>4. MyMarker(d).task = wrk[d].task BY DEF MyMarker
<1>5. \A m \in markers' : m.task = t => m.lease # l
  BY <1>3, <1>4 DEF OthersKept, Fresh
<1> QED BY <1>5 DEF Fresh

\* A lease under which nobody works any more stays past.
LEMMA PastStays ==
  ASSUME TypeOK, LeaseInv, NEW d \in Runners, NEW t \in Tasks, NEW l \in Nat,
         plan'[t].repair = 0, QuietMove(d, t), l <= plan[t].epoch, Past(t, l)
  PROVE  Past(t, l)'
<1> DEFINE r == plan[t]
           s == plan'[t]
<1>1. r \in Row /\ RowInv(r) BY DEF TypeOK, LeaseInv
<1>2. SUFFICES ASSUME s.lease = l PROVE s.state \notin InWork
  BY DEF Past
<1>3. s # Claimed(r)
  <2>1. Claimed(r).lease = r.epoch + 1 /\ r.epoch \in Nat BY <1>1, QuietVerbs DEF Row
  <2>2. r.epoch + 1 # l BY <2>1
  <2> QED BY <1>2, <2>1, <2>2
<1>4. s # Repaired(r) BY <1>1, NotRepaired
<1>5. CASE s = r BY <1>2, <1>5 DEF Past
<1>6. CASE s = Started(r) /\ r.state = "claimed"
  <2>1. r.lease = l BY <1>1, <1>2, <1>6, QuietVerbs
  <2> QED BY <1>6, <2>1 DEF Past, InWork
<1>7. CASE s = Reviewed(r, s.patch)
  <2>1. Reviewed(r, s.patch).state = "review" BY <1>1, QuietVerbs
  <2> QED BY <1>7, <2>1 DEF InWork
<1>8. CASE s \in {ClearClaim(r), Fenced(r), Finished(r), Blocked(r)}
  BY <1>1, <1>8, QuietVerbs DEF InWork
<1> QED BY <1>3, <1>4, <1>5, <1>6, <1>7, <1>8 DEF QuietMove

-----------------------------------------------------------------------------
(* A step of d that does only that keeps the invariant, if d leaves itself *)
(* in order.                                                               *)

StepQuiet(d) ==
  /\ \A t \in Tasks : First(t) => QuietMove(d, t)
  /\ OthersKept(d)
  /\ NothingTaken(d)
  /\ OwnQuiet(d)'

RowsFence == \A t \in Tasks : /\ NewLeaseOnly(plan[t], plan'[t])
                              /\ plan'[t].repair = 0 => First(t)

\* The rows.
LEMMA RowsStayQuiet ==
  ASSUME TypeOK, LeaseInv, QuietInv, NEW d \in Runners, StepQuiet(d), RowsFence,
         NEW t \in Tasks
  PROVE  RowQuiet(t)'
<1> DEFINE r == plan[t]
           s == plan'[t]
<1>1. r \in Row /\ RowQuiet(t) /\ (First(t) => QuietMove(d, t)) /\ (s.repair = 0 => First(t))
  BY DEF TypeOK, QuietInv, StepQuiet, RowsFence
<1>2. ASSUME NoRepairs PROVE s.repair = 0 /\ s.state # "blocked"
  <2>1. First(t) /\ r.state # "blocked" /\ QuietMove(d, t) BY <1>1, <1>2 DEF RowQuiet
  <2>2. CASE s = r BY <2>1, <2>2 DEF First
  <2>3. CASE s \in {Claimed(r), ClearClaim(r), Started(r), Fenced(r), Finished(r)}
    <3>1. s.repair = r.repair /\ s.state # "blocked" BY <1>1, <2>3, QuietVerbs, ZenonT(60)
    <3> QED BY <2>1, <3>1 DEF First
  <2>4. CASE s = Reviewed(r, s.patch)
    <3>1. Reviewed(r, s.patch).state = "review" /\ Reviewed(r, s.patch).repair = r.repair
      BY <1>1, QuietVerbs
    <3> QED BY <2>1, <2>4, <3>1 DEF First
  <2> QED BY <1>2, <2>1, <2>2, <2>3, <2>4 DEF QuietMove
<1>3. ASSUME s.repair = 0, s.state = "claimed", s.aged PROVE s = r
  <2>1. s # Claimed(r) /\ s # Repaired(r) BY <1>1, <1>3, QuietVerbs, NotRepaired
  <2>2. s \notin {ClearClaim(r), Started(r), Fenced(r), Finished(r), Blocked(r)}
    BY <1>1, <1>3, QuietVerbs
  <2>3. s # Reviewed(r, s.patch)
    <3>1. Reviewed(r, s.patch).state = "review" BY <1>1, QuietVerbs
    <3> QED BY <1>3, <3>1
  <2> QED BY <1>1, <1>3, <2>1, <2>2, <2>3 DEF QuietMove
<1>4. ASSUME s.repair = 0, s.state = "claimed", s.aged, NEW e \in Runners PROVE ~Loose(e, t)'
  <2>1. s = r BY <1>3, <1>4
  <2>2. ~Loose(e, t) BY <1>1, <1>4, <2>1, HoldingIsLoose DEF RowQuiet
  <2>3. CASE e = d
    BY <1>1, <1>4, <2>1, <2>2, <2>3 DEF StepQuiet, NothingTaken, InWork
  <2>4. CASE e # d
    BY <2>1, <2>2, <2>4 DEF StepQuiet, OthersKept, Loose
  <2> QED BY <2>3, <2>4
<1>5. s.repair = 0 /\ s.state = "claimed" /\ s.aged => ~Holding(t)'
  BY <1>4 DEF Holding, Loose
<1>6. ASSUME s.repair = 0, NEW e \in Runners \ {d}, s.state \in InWork, Holder(e, t)'
      PROVE  s = r /\ Holder(e, t)
  BY <1>1, <1>6, OtherHolder DEF StepQuiet, OthersKept
<1>7. ASSUME s.repair = 0, NEW c \in Runners, NEW e \in Runners, s.state \in InWork,
             Holder(c, t)', Holder(e, t)'
      PROVE  c = e
  <2>1. CASE c = d /\ e = d BY <2>1
  <2>2. CASE c # d \/ e # d
    <3>1. s = r BY <1>6, <1>7, <2>2
    <3>2. Holder(c, t) /\ Holder(e, t)
      BY <1>1, <1>6, <1>7, <3>1 DEF StepQuiet, NothingTaken
    <3> QED BY <1>1, <1>7, <3>1, <3>2 DEF RowQuiet
  <2> QED BY <2>1, <2>2
<1> QED BY <1>2, <1>5, <1>7 DEF RowQuiet, First

\* The other runners.
LEMMA OthersStayQuiet ==
  ASSUME TypeOK, TypeOK', LeaseInv, QuietInv, NEW d \in Runners, StepQuiet(d), RowsFence,
         NEW e \in Runners \ {d}
  PROVE  DriverQuiet(e)' /\ WorkerQuiet(e)' /\ LandingQuiet(e)'
<1> DEFINE u == drv[e]
           w == wrk[e]
<1>1. u \in Driver /\ w \in Worker /\ u.task \in Tasks /\ w.task \in Tasks
      /\ u.lease \in Nat /\ w.lease \in Nat
  BY DEF TypeOK, Driver, Worker
<1>2. drv'[e] = u /\ wrk'[e] = w BY DEF StepQuiet, OthersKept
<1>3. DriverQuiet(e) /\ WorkerQuiet(e) /\ LandingQuiet(e) BY DEF QuietInv
<1>4. ASSUME NEW t \in Tasks
      PROVE  /\ plan[t].epoch \in Nat /\ plan'[t].epoch \in Nat
             /\ plan[t].lease \in Nat /\ plan'[t].lease \in Nat
             /\ plan'[t].epoch >= plan[t].epoch
             /\ plan'[t].lease \in {0, plan[t].lease} \/ plan'[t].lease > plan[t].epoch
             /\ First(t) => QuietMove(d, t)
             /\ plan'[t].repair = 0 => First(t)
  BY DEF TypeOK, Row, RowsFence, NewLeaseOnly, StepQuiet
<1>5. ASSUME NEW t \in Tasks, First(t), Holder(e, t), plan[t].state \in InWork
      PROVE  plan'[t] = plan[t]
  BY <1>4, <1>5, HeldByOther DEF StepQuiet, OthersKept
<1>6. ASSUME NEW t \in Tasks, NEW l, First(t), Holder(e, t), Fresh(t, l)
      PROVE  plan'[t] = plan[t] /\ Fresh(t, l)'
  <2>1. plan[t].state \in InWork BY <1>6 DEF Fresh, InWork
  <2>2. plan'[t] = plan[t] BY <1>5, <1>6, <2>1
  <2> QED BY <1>6, <2>2, FreshKept DEF StepQuiet
<1>7. DriverQuiet(e)'
  <2>1. u.lease <= plan[u.task].epoch /\ u.lease <= plan'[u.task].epoch
    <3>1. u.lease <= plan[u.task].epoch BY <1>3 DEF DriverQuiet
    <3> HIDE DEF u
    <3> QED BY <1>1, <1>4, <3>1
  <2>2. First(u.task) /\ u.pc = "adopt" => Fresh(u.task, plan[u.task].lease)'
    BY <1>1, <1>2, <1>3, <1>6 DEF DriverQuiet, Holder
  <2>3. First(u.task) /\ u.pc = "checks" => Fresh(u.task, u.lease)'
    BY <1>1, <1>2, <1>3, <1>6 DEF DriverQuiet, Holder, HoldPcs, Fresh
  <2>4. ASSUME First(u.task), u.pc = "release", plan'[u.task].lease = u.lease
        PROVE  plan'[u.task].state \in InWork
    <3>1. /\ u.lease # 0 /\ u.lease <= plan[u.task].epoch
          /\ plan[u.task].lease = u.lease => plan[u.task].state \in InWork
      BY <1>3, <2>4 DEF DriverQuiet
    <3>2. plan[u.task].lease = u.lease
      <4> HIDE DEF u
      <4> QED BY <1>1, <1>4, <2>4, <3>1
    <3>3. Holder(e, u.task) BY <2>4, <3>2 DEF Holder, HoldPcs
    <3> QED BY <1>1, <1>5, <2>4, <3>1, <3>2, <3>3
  <2>5. ASSUME plan'[u.task].repair = 0, u.pc \in LatePcs \/ (u.pc = "wait" /\ w.ok)
        PROVE  Past(u.task, u.lease)'
    <3> DEFINE t == u.task
               l == u.lease
    <3>1. First(u.task) /\ QuietMove(d, u.task) BY <1>1, <1>4, <2>5
    <3>2. Past(u.task, u.lease) BY <1>3, <2>5, <3>1 DEF DriverQuiet
    <3>3. l # 0 /\ (plan'[t].lease = l => plan'[t].state \notin InWork)
      <4> HIDE DEF u
      <4>1. Past(t, l) => l # 0 /\ (plan'[t].lease = l => plan'[t].state \notin InWork)
        BY <1>1, <2>1, <2>5, <3>1, PastStays DEF Past
      <4> QED BY <3>2, <4>1
    <3> QED BY <1>2, <3>3 DEF Past
  <2>6. WorkerLive(e)' = WorkerLive(e) BY <1>2 DEF WorkerLive
  <2>7. plan'[u.task].repair = 0 => First(u.task) BY <1>1, <1>4
  <2>8. /\ NoRepairs => u.mode # "auto" /\ u.pc \notin {"repair", "block"}
        /\ u.pc \in {"idle", "pick", "claim"} => u.lease = 0 /\ u.round = "first"
        /\ u.pc \notin {"idle", "wait", "stopping"} => ~WorkerLive(e)
        /\ u.pc = "wait" /\ WorkerLive(e) => w.task = u.task
        /\ First(u.task) => /\ u.round = "first" /\ u.pc \notin {"termShow", "termBlock"}
                            /\ u.pc \in {"wait", "release"} => u.lease # 0
    BY <1>3 DEF DriverQuiet
  <2>9. First(drv[e].task)' => plan'[u.task].repair = 0 BY <1>2 DEF First
  <2> QED BY <1>2, <2>1, <2>2, <2>3, <2>4, <2>5, <2>6, <2>7, <2>8, <2>9 DEF DriverQuiet
<1>8. WorkerQuiet(e)'
  <2>1. w.lease <= plan'[w.task].epoch
    <3>1. w.lease <= plan[w.task].epoch BY <1>3 DEF WorkerQuiet
    <3> HIDE DEF w
    <3> QED BY <1>1, <1>4, <3>1
  <2>2. First(w.task) /\ w.pc = "boot" => Fresh(w.task, plan[w.task].lease)'
    BY <1>1, <1>2, <1>3, <1>6 DEF WorkerQuiet, Holder
  <2>3. First(w.task) /\ w.pc = "snapped" => Fresh(w.task, w.lease)'
    BY <1>1, <1>2, <1>3, <1>6 DEF WorkerQuiet, Holder, AlivePcs, Fresh
  <2>4. ASSUME First(w.task), w.pc \in MarkedPcs
        PROVE  /\ MyMarker(e)' \in markers' /\ plan'[w.task] = plan[w.task]
               /\ plan[w.task].lease = w.lease /\ plan[w.task].state \in InWork
    <3>1. /\ MyMarker(e) \in markers /\ plan[w.task].lease = w.lease
          /\ plan[w.task].state \in InWork
      BY <1>3, <2>4 DEF WorkerQuiet
    <3>2. Holder(e, w.task) BY <2>4 DEF Holder, AlivePcs
    <3>3. MyMarker(e)' = MyMarker(e) BY <1>2 DEF MyMarker
    <3>4. MyMarker(e) \in markers' BY <3>1 DEF StepQuiet, OthersKept
    <3> QED BY <1>1, <1>5, <2>4, <3>1, <3>2, <3>3, <3>4
  <2>5. First(w.task) =>
          /\ ~w.term /\ w.pc \notin {"restoring", "retrying"}
          /\ w.pc \in {"started", "working"} => plan[w.task].state = "running"
          /\ w.pc = "working" => Touched(plan[w.task]) = Touched(w.frozen)
    BY <1>3 DEF WorkerQuiet
  <2>6. {"started", "working"} \subseteq MarkedPcs BY DEF MarkedPcs
  <2>7. plan'[w.task].repair = 0 => First(w.task) BY <1>1, <1>4
  <2>8. First(wrk[e].task)' => plan'[w.task].repair = 0 BY <1>2 DEF First
  <2> QED BY <1>2, <2>1, <2>2, <2>3, <2>4, <2>5, <2>6, <2>7, <2>8 DEF WorkerQuiet
<1>9. LandingQuiet(e)'
  <2>1. ASSUME NoRepairs, u.pc \in {"apply", "finish"} PROVE plan'[u.task] = plan[u.task]
    <3>1. lander = e /\ plan[u.task].state = "landing" BY <1>3, <2>1 DEF LandingQuiet
    <3>2. First(u.task) BY <1>1, <2>1 DEF QuietInv, RowQuiet
    <3> QED BY <1>1, <1>4, <2>1, <3>1, <3>2, LandedByOther
  <2>2. lander = e => lander' = e BY DEF StepQuiet, OthersKept
  <2> QED BY <1>2, <1>3, <2>1, <2>2 DEF LandingQuiet
<1> QED BY <1>7, <1>8, <1>9

\* Together.
LEMMA QuietStays ==
  ASSUME TypeOK, TypeOK', LeaseInv, QuietInv, NEW d \in Runners, StepQuiet(d), RowsFence
  PROVE  QuietInv'
<1>1. \A t \in Tasks : RowQuiet(t)' BY RowsStayQuiet
<1>2. \A e \in Runners : DriverQuiet(e)' /\ WorkerQuiet(e)' /\ LandingQuiet(e)'
  BY OthersStayQuiet DEF StepQuiet, OwnQuiet
<1>3. ASSUME NEW m \in markers' PROVE m.lease <= plan'[m.task].epoch
  <2>1. \E t \in Tasks : t = m.task /\ m.lease \in Nat /\ m.lease <= plan[t].epoch
    <3>1. CASE \E n \in markers : n.task = m.task /\ n.lease = m.lease
      BY <3>1 DEF TypeOK, Marker, QuietInv
    <3>2. CASE m = MyMarker(d)
      BY <3>2 DEF MyMarker, QuietInv, WorkerQuiet, TypeOK, Worker
    <3> QED BY <3>1, <3>2 DEF StepQuiet, OthersKept
  <2> QED BY <2>1 DEF TypeOK, Row, RowsFence, NewLeaseOnly
<1> QED BY <1>1, <1>2, <1>3 DEF QuietInv

-----------------------------------------------------------------------------
(* Steps of plan-run that write nothing but their own progress: v is what   *)
(* they leave of the process.                                              *)

Settled(d, v) ==
  LET r == plan[v.task]
      mine == v.lease = r.lease /\ r.state \in InWork
  IN /\ v.pc \notin {"pick", "adopt", "wait", "apply"} /\ v.lease <= r.epoch
     /\ NoRepairs => v.mode # "auto" /\ v.pc \notin {"repair", "block"}
     /\ v.pc \in {"idle", "claim"} => v.lease = 0 /\ v.round = "first"
     /\ v.pc \notin {"idle", "stopping"} => ~WorkerLive(d)'
     /\ v.pc \in {"admit", "fence", "finish"} => lander' = d
     /\ NoRepairs =>
          /\ v.pc \in {"lock", "admit", "fence", "finish"} => OneLease(v.seen)
          /\ v.pc = "finish" => r.state = "landing" /\ Receipt(r) = v.seen
     /\ First(v.task) =>
          /\ v.round = "first" /\ v.pc \notin {"termShow", "termBlock"}
          /\ v.pc = "checks" => Fresh(v.task, v.lease)
          /\ v.pc = "release" => v.lease # 0 /\ mine
          /\ v.pc \in HoldPcs /\ mine => Holder(d, v.task)
          /\ v.pc # "idle" /\ mine => Loose(d, v.task)
          /\ v.pc \in LatePcs => Past(v.task, v.lease)

\* A plan-run that ends has nothing left to keep.
LEMMA IdleSettled == ASSUME TypeOK, NEW d \in Runners PROVE Settled(d, IdleDriver)
<1>1. plan[NoTask] \in Row BY ConstantsAssumption DEF NoTask, TypeOK
<1>2. 0 <= plan[NoTask].epoch BY <1>1 DEF Row
<1> QED BY <1>2 DEF Settled, IdleDriver, HoldPcs, LatePcs

\* Such a step disturbs nobody.
LEMMA SettledStep ==
  ASSUME TypeOK, QuietInv, NEW d \in Runners, NEW v \in Driver, Settled(d, v),
         plan' = plan, markers' = markers, drv' = [drv EXCEPT ![d] = v],
         wrk' = wrk \/ wrk' = [wrk EXCEPT ![d] = NoWorker],
         \A e \in Runners \ {d} : lander = e => lander' = e
  PROVE  StepQuiet(d)
<1>1. /\ drv'[d] = v /\ \A e \in Runners \ {d} : drv'[e] = drv[e] /\ wrk'[e] = wrk[e]
      /\ wrk'[d] = wrk[d] \/ wrk'[d] = NoWorker
  BY DEF TypeOK
<1>2. OthersKept(d) BY <1>1 DEF OthersKept
<1>3. wrk'[d].pc \in AlivePcs \cup {"boot"} => wrk'[d] = wrk[d]
  BY <1>1 DEF NoWorker, AlivePcs, MarkedPcs
<1>4. NothingTaken(d)
  <2> SUFFICES ASSUME NEW t \in Tasks, First(t), plan[t].state \in InWork
               PROVE  (Holder(d, t)' => Holder(d, t)) /\ (Loose(d, t)' => Loose(d, t))
    BY DEF NothingTaken
  <2>1. Holder(d, t)' => Holder(d, t) BY <1>1, <1>3 DEF Settled, Holder, AlivePcs
  <2>2. Loose(d, t)' => Loose(d, t) BY <1>1, <1>3 DEF Settled, Loose, AlivePcs
  <2> QED BY <2>1, <2>2
<1>5. DriverQuiet(d)'
  <2>1. First(v.task) /\ v.pc = "checks" => Fresh(v.task, v.lease)' BY DEF Settled, Fresh
  <2>2. First(v.task) /\ v.pc \in LatePcs => Past(v.task, v.lease)' BY DEF Settled, Past
  <2>3. First(drv[d].task)' => First(v.task) BY <1>1 DEF First
  <2> QED BY <1>1, <2>1, <2>2, <2>3 DEF Settled, DriverQuiet
<1>6. WorkerQuiet(d)'
  <2>1. CASE wrk'[d] = wrk[d]
    <3>1. WorkerQuiet(d) BY DEF QuietInv
    <3>2. MyMarker(d)' = MyMarker(d) BY <2>1 DEF MyMarker
    <3>3. First(wrk[d].task)' => First(wrk[d].task) BY <2>1 DEF First
    <3> QED BY <2>1, <3>1, <3>2, <3>3 DEF WorkerQuiet, Fresh
  <2>2. CASE wrk'[d] = NoWorker
    <3>1. plan[NoTask] \in Row BY ConstantsAssumption DEF NoTask, TypeOK
    <3>2. 0 <= plan[NoTask].epoch BY <3>1 DEF Row
    <3> QED BY <2>2, <3>2 DEF WorkerQuiet, NoWorker, MarkedPcs
  <2> QED BY <1>1, <2>1, <2>2
<1>7. LandingQuiet(d)' BY <1>1 DEF Settled, LandingQuiet
<1>8. \A t \in Tasks : QuietMove(d, t) BY DEF QuietMove
<1> QED BY <1>2, <1>4, <1>5, <1>6, <1>7, <1>8 DEF StepQuiet, OwnQuiet

\* Where nothing is repaired every round is the first.
LEMMA FirstRound ==
  ASSUME NoRepairs, TypeOK, QuietInv, NEW d \in Runners
  PROVE  First(drv[d].task) /\ drv[d].round = "first"
<1>1. drv[d].task \in Tasks BY DEF TypeOK, Driver
<1>2. First(drv[d].task) BY <1>1 DEF QuietInv, RowQuiet
<1> QED BY <1>2 DEF QuietInv, DriverQuiet

\* A plan-run that moves on under the same claim.
LEMMA MovesOn ==
  ASSUME TypeOK, QuietInv, NEW d \in Runners, NEW x \in DriverPcs, NEW v \in Driver,
         v.pc = x, v.task = drv[d].task, v.lease = drv[d].lease, v.mode = drv[d].mode,
         v.round = drv[d].round, x \notin {"idle", "pick", "claim", "adopt", "wait", "apply"},
         x # "stopping" => ~WorkerLive(d)',
         NoRepairs => x \notin {"repair", "block"},
         x \in {"termShow", "termBlock"} => ~First(drv[d].task),
         x \notin {"checks", "release", "admit", "fence", "finish", "lock"},
         drv[d].pc # "idle", x \in HoldPcs => drv[d].pc \in HoldPcs \cup {"adopt"} \/ ~First(drv[d].task),
         x \in LatePcs /\ First(drv[d].task) => Past(drv[d].task, drv[d].lease)
  PROVE  Settled(d, v)
<1>1. DriverQuiet(d) BY DEF QuietInv
<1>2. First(v.task) /\ v.lease = plan[v.task].lease => Loose(d, v.task)
  BY DEF Loose
<1>3. First(v.task) /\ v.lease = plan[v.task].lease /\ x \in HoldPcs => Holder(d, v.task)
  BY DEF Holder
<1> QED BY <1>1, <1>2, <1>3 DEF Settled, DriverQuiet

\* What a plan-run leaves when it may still own a claim.
LEMMA LeaveSettled ==
  ASSUME TypeOK, QuietInv, NEW d \in Runners, ~WorkerLive(d)',
         \/ drv[d].pc \in HoldPcs \cup {"adopt"}
         \/ drv[d].pc # "idle" /\ ~First(drv[d].task)
  PROVE  Settled(d, Leave(d))
<1> DEFINE v == [drv[d] EXCEPT !.pc = "cleanup"]
<1>1. drv[d] \in Driver BY DEF TypeOK
<1>2. /\ v.pc = "cleanup" /\ v.task = drv[d].task /\ v.lease = drv[d].lease
      /\ v.mode = drv[d].mode /\ v.round = drv[d].round /\ v \in Driver
      /\ "cleanup" \in DriverPcs
  BY <1>1 DEF Driver, DriverPcs
<1>3. drv[d].pc # "idle" BY DEF HoldPcs
<1> HIDE DEF v
<1>4. Settled(d, v) BY <1>2, <1>3, MovesOn DEF LatePcs
<1> QED BY <1>4, IdleSettled DEF Leave, v

\* What it leaves when the landing fails.
LEMMA LandFailsSettled ==
  ASSUME TypeOK, QuietInv, NEW d \in Runners, wrk' = wrk, drv[d].pc \in LatePcs
  PROVE  Settled(d, LandFails(d))
<1> DEFINE v == [drv[d] EXCEPT !.pc = "repair"]
<1>1. drv[d] \in Driver /\ DriverQuiet(d) BY DEF TypeOK, QuietInv
<1>2. CASE drv[d].mode = "auto" /\ drv[d].round = "first"
  <2>1. /\ v.pc = "repair" /\ v.task = drv[d].task /\ v.lease = drv[d].lease
        /\ v.mode = drv[d].mode /\ v.round = drv[d].round /\ v \in Driver
        /\ "repair" \in DriverPcs
    BY <1>1 DEF Driver, DriverPcs
  <2>2. drv[d].pc \notin {"idle", "wait", "stopping"} BY DEF LatePcs
  <2>3. ~WorkerLive(d)' BY <1>1, <2>2 DEF DriverQuiet, WorkerLive
  <2>4. ~NoRepairs BY <1>1, <1>2 DEF DriverQuiet
  <2>5. First(drv[d].task) => Past(drv[d].task, drv[d].lease) BY <1>1 DEF DriverQuiet
  <2> HIDE DEF v
  <2>6. Settled(d, v) BY <2>1, <2>2, <2>3, <2>4, <2>5, MovesOn DEF HoldPcs
  <2> QED BY <1>2, <2>6 DEF LandFails, v
<1>3. CASE ~(drv[d].mode = "auto" /\ drv[d].round = "first")
  BY <1>3, IdleSettled DEF LandFails
<1> QED BY <1>2, <1>3

\* plan-run looking around, ending, or stopping its delegate.
LEMMA DriverReadsQuietly ==
  ASSUME TypeOK, TypeOK', LeaseInv, OpenInv, QuietInv, NEW d \in Runners,
         \/ GiveUp(d) \/ Adopt(d) \/ ChecksFail(d) \/ Reap(d) \/ TermShow(d)
         \/ CleanupShow(d) \/ Signal(d) \/ Stopped(d)
         \/ \E t \in Tasks : LookUp(d, t)
  PROVE  StepQuiet(d)
<1> DEFINE u == drv[d]
           r == plan[u.task]
<1>1. /\ u \in Driver /\ u.task \in Tasks /\ r \in Row /\ RowInv(r) /\ RowQuiet(u.task)
      /\ DriverQuiet(d) /\ Loads /\ drv \in [Runners -> Driver]
  BY OpenLoads DEF TypeOK, Driver, LeaseInv, QuietInv
<1>2. ASSUME NEW v, drv' = [drv EXCEPT ![d] = v], Settled(d, v), plan' = plan,
             markers' = markers, lander' = lander,
             wrk' = wrk \/ wrk' = [wrk EXCEPT ![d] = NoWorker]
      PROVE  StepQuiet(d)
  <2>1. drv'[d] = v BY <1>1, <1>2
  <2>2. v \in Driver BY <2>1 DEF TypeOK
  <2>3. \A e \in Runners \ {d} : lander = e => lander' = e BY <1>2
  <2> QED BY <1>2, <2>2, <2>3, SettledStep
<1>3. wrk' = wrk => WorkerLive(d)' = WorkerLive(d) BY DEF WorkerLive
<1>4. wrk' = [wrk EXCEPT ![d] = NoWorker] => ~WorkerLive(d)'
  BY DEF WorkerLive, NoWorker, TypeOK
<1>5. Settled(d, IdleDriver) BY IdleSettled
<1>6. ASSUME NEW x \in DriverPcs
      PROVE  LET v == [u EXCEPT !.pc = x]
             IN /\ v.pc = x /\ v.task = u.task /\ v.lease = u.lease /\ v.mode = u.mode
                /\ v.round = u.round /\ v \in Driver
  BY <1>1 DEF Driver
<1>7. CASE GiveUp(d)
  BY <1>2, <1>5, <1>7 DEF GiveUp
<1>8. CASE Adopt(d)
  <2> DEFINE resumes == InterruptedRepair(r)
             at(x) == [u EXCEPT !.pc = x, !.lease = r.lease]
             clean == at("cleanup")
             check == [at("checks") EXCEPT !.round = IF resumes THEN "resume" ELSE "first"]
  <2>1. \/ drv' = [drv EXCEPT ![d] = clean] /\ resumes
        \/ drv' = [drv EXCEPT ![d] = check]
    BY <1>1, <1>8 DEF Adopt
  <2>2. /\ clean.pc = "cleanup" /\ clean.task = u.task /\ clean.lease = r.lease
        /\ clean.mode = u.mode /\ clean.round = u.round
        /\ check.pc = "checks" /\ check.task = u.task /\ check.lease = r.lease
        /\ check.mode = u.mode /\ (~resumes => check.round = "first")
    BY <1>1 DEF Driver
  <2>3. r.lease <= r.epoch BY <1>1 DEF RowInv, Row
  <2>4. resumes => ~First(u.task) BY DEF InterruptedRepair, First
  <2>5. u.pc = "adopt" /\ (First(u.task) => Fresh(u.task, r.lease)) /\ ~WorkerLive(d)
    BY <1>1, <1>8 DEF Adopt, DriverQuiet
  <2>6. Holder(d, u.task) /\ Loose(d, u.task) BY <2>5 DEF Holder, Loose
  <2>7. wrk' = wrk BY <1>8 DEF Adopt
  <2> HIDE DEF clean, check, resumes
  <2>8. Settled(d, check)
    BY <1>1, <1>3, <2>2, <2>3, <2>4, <2>5, <2>6, <2>7 DEF Settled, DriverQuiet, LatePcs
  <2>9. resumes => Settled(d, clean)
    BY <1>1, <1>3, <2>2, <2>3, <2>4, <2>5, <2>7 DEF Settled, DriverQuiet
  <2> QED BY <1>2, <1>8, <2>1, <2>8, <2>9 DEF Adopt
<1>9. CASE ChecksFail(d)
  <2>1. u.pc = "checks" /\ ~WorkerLive(d) BY <1>1, <1>9 DEF ChecksFail, DriverQuiet
  <2>2. Settled(d, Leave(d))
    BY <1>3, <1>9, <2>1, LeaveSettled DEF ChecksFail, HoldPcs
  <2> QED BY <1>2, <1>9, <2>2 DEF ChecksFail
<1>10. CASE Reap(d)
  <2> DEFINE to(x) == [u EXCEPT !.pc = x]
             v == [u EXCEPT !.pc = "land", !.owns = FALSE]
  <2>1. u.pc = "wait" /\ ~WorkerLive(d)' BY <1>4, <1>10 DEF Reap
  <2>2. u.round \in Rounds BY <1>1 DEF Driver
  <2>3. \/ drv' = [drv EXCEPT ![d] = IdleDriver]
        \/ drv' = [drv EXCEPT ![d] = v] /\ wrk[d].ok
        \/ drv' = [drv EXCEPT ![d] = Leave(d)]
        \/ drv' = [drv EXCEPT ![d] = to("termShow")] /\ u.round = "resume"
        \/ drv' = [drv EXCEPT ![d] = to("block")] /\ u.round = "repair"
    BY <1>1, <1>10, <2>2 DEF Reap, Rounds
  <2>4. /\ v.pc = "land" /\ v.task = u.task /\ v.lease = u.lease
        /\ v.mode = u.mode /\ v.round = u.round /\ v \in Driver
        /\ {"land", "termShow", "block"} \subseteq DriverPcs
    BY <1>1 DEF Driver, DriverPcs
  <2>5. u.round # "first" => ~NoRepairs /\ ~First(u.task)
    BY <1>1, FirstRound DEF DriverQuiet
  <2>6. wrk[d].ok /\ First(u.task) => Past(u.task, u.lease)
    BY <1>1, <2>1 DEF DriverQuiet
  <2>7. Settled(d, Leave(d)) BY <2>1, LeaveSettled DEF HoldPcs
  <2> HIDE DEF v
  <2>8. wrk[d].ok => Settled(d, v)
    BY <2>1, <2>4, <2>6, MovesOn DEF HoldPcs
  <2>9. ASSUME NEW x \in {"termShow", "block"}, u.round # "first" PROVE Settled(d, to(x))
    <3>1. x \in DriverPcs BY <2>4
    <3>2. /\ to(x).pc = x /\ to(x).task = u.task /\ to(x).lease = u.lease
          /\ to(x).mode = u.mode /\ to(x).round = u.round /\ to(x) \in Driver
      BY <1>6, <3>1
    <3> HIDE DEF to
    <3> QED BY <2>1, <2>5, <2>9, <3>1, <3>2, MovesOn DEF HoldPcs
  <2> QED BY <1>2, <1>5, <1>10, <2>3, <2>7, <2>8, <2>9 DEF Reap
<1>11. CASE TermShow(d)
  <2> DEFINE v == [u EXCEPT !.pc = "termBlock"]
  <2>1. u.pc = "termShow" /\ ~First(u.task) /\ ~WorkerLive(d)'
    BY <1>1, <1>3, <1>11 DEF TermShow, DriverQuiet
  <2>2. Settled(d, Leave(d)) BY <2>1, LeaveSettled
  <2>3. "termBlock" \in DriverPcs BY DEF DriverPcs
  <2>4. /\ v.pc = "termBlock" /\ v.task = u.task /\ v.lease = u.lease
        /\ v.mode = u.mode /\ v.round = u.round /\ v \in Driver
    BY <1>6, <2>3
  <2>5. drv' = [drv EXCEPT ![d] = v] \/ drv' = [drv EXCEPT ![d] = IdleDriver]
        \/ drv' = [drv EXCEPT ![d] = Leave(d)]
    BY <1>11 DEF TermShow
  <2> HIDE DEF v
  <2>6. Settled(d, v) BY <2>1, <2>3, <2>4, MovesOn DEF HoldPcs, LatePcs
  <2> QED BY <1>2, <1>5, <1>11, <2>2, <2>5, <2>6 DEF TermShow
<1>12. CASE CleanupShow(d)
  <2> DEFINE v == [u EXCEPT !.pc = "release"]
             can == r.state \in InWork /\ r.lease = u.lease
  <2>1. drv' = [drv EXCEPT ![d] = IF can THEN v ELSE IdleDriver]
    BY <1>1, <1>12 DEF CleanupShow, InWork
  <2>2. u.pc = "cleanup" /\ ~WorkerLive(d) BY <1>1, <1>12 DEF CleanupShow, DriverQuiet
  <2>3. /\ v.pc = "release" /\ v.task = u.task /\ v.lease = u.lease
        /\ v.mode = u.mode /\ v.round = u.round
    BY <1>1 DEF Driver
  <2>4. can => u.lease # 0 /\ Holder(d, u.task) /\ Loose(d, u.task)
    BY <1>1, <2>2 DEF RowInv, InWork, Active, Holder, HoldPcs, Loose
  <2>5. ~WorkerLive(d)' BY <1>3, <1>12, <2>2 DEF CleanupShow
  <2> HIDE DEF v
  <2>6. can => Settled(d, v)
    BY <1>1, <2>3, <2>4, <2>5 DEF Settled, DriverQuiet, LatePcs
  <2> QED BY <1>2, <1>5, <1>12, <2>1, <2>6 DEF CleanupShow
<1>13. CASE Signal(d)
  <2>1. CASE u.pc = "wait"
    <3> DEFINE v == [u EXCEPT !.pc = "stopping"]
    <3>1. drv' = [drv EXCEPT ![d] = v] BY <1>13, <2>1 DEF Signal
    <3>2. "stopping" \in DriverPcs BY DEF DriverPcs
    <3>3. /\ v.pc = "stopping" /\ v.task = u.task /\ v.lease = u.lease
          /\ v.mode = u.mode /\ v.round = u.round /\ v \in Driver
      BY <1>6, <3>2
    <3> HIDE DEF v
    <3>4. Settled(d, v) BY <2>1, <3>2, <3>3, MovesOn DEF HoldPcs, LatePcs
    <3> QED BY <1>2, <1>13, <3>1, <3>4 DEF Signal
  <2>2. CASE u.pc # "wait"
    <3>1. u.pc \in {"adopt", "checks"} BY <1>13, <2>2 DEF Signal
    <3>2. ~WorkerLive(d)' BY <1>1, <1>3, <1>13, <3>1 DEF Signal, DriverQuiet
    <3>3. Settled(d, Leave(d)) BY <3>1, <3>2, LeaveSettled DEF HoldPcs
    <3>4. drv' = [drv EXCEPT ![d] = Leave(d)] BY <1>13, <2>2 DEF Signal
    <3> QED BY <1>2, <1>13, <3>3, <3>4 DEF Signal
  <2> QED BY <2>1, <2>2
<1>14. CASE Stopped(d)
  <2>1. ~WorkerLive(d)' BY <1>4, <1>14 DEF Stopped
  <2>2. Settled(d, Leave(d)) BY <1>14, <2>1, LeaveSettled DEF Stopped, HoldPcs
  <2> QED BY <1>2, <1>14, <2>2 DEF Stopped
<1>15. ASSUME NEW t \in Tasks, LookUp(d, t) PROVE StepQuiet(d)
  <2> DEFINE go(pc, round) == [u EXCEPT !.pc = pc, !.task = t, !.lease = plan[t].lease,
                                        !.round = round]
             claim == [go("claim", "first") EXCEPT !.lease = 0]
             land == go("land", "first")
             resume == go("checks", "resume")
  <2>1. plan[t] \in Row /\ RowInv(plan[t])
    BY DEF TypeOK, LeaseInv
  <2>2. u.pc = "pick" /\ ~WorkerLive(d)' BY <1>1, <1>3, <1>15 DEF LookUp, DriverQuiet
  <2>3. \/ drv' = [drv EXCEPT ![d] = IdleDriver]
        \/ plan[t].state = "ready" /\ drv' = [drv EXCEPT ![d] = claim]
        \/ /\ plan[t].state = "review" /\ plan[t].lease # 0
           /\ drv' = [drv EXCEPT ![d] = land]
        \/ InterruptedRepair(plan[t]) /\ drv' = [drv EXCEPT ![d] = resume]
    <3>1. CASE plan[t].state = "ready"
      BY <1>1, <1>15, <3>1 DEF LookUp, InterruptedRepair
    <3>2. CASE plan[t].state = "review"
      BY <1>1, <1>15, <3>2 DEF LookUp, InterruptedRepair
    <3>3. CASE InterruptedRepair(plan[t])
      <4>1. plan[t].state \notin {"ready", "review"} BY <3>3 DEF InterruptedRepair
      <4> QED BY <1>1, <1>15, <3>3, <4>1 DEF LookUp
    <3>4. CASE plan[t].state \notin {"ready", "review"} /\ ~InterruptedRepair(plan[t])
      BY <1>1, <1>15, <3>4 DEF LookUp
    <3> QED BY <3>1, <3>2, <3>3, <3>4
  <2>4. plan[t].lease <= plan[t].epoch /\ 0 <= plan[t].epoch BY <2>1 DEF RowInv, Row
  <2>5. /\ land.pc = "land" /\ land.task = t /\ land.lease = plan[t].lease
        /\ land.mode = u.mode /\ land.round = "first"
        /\ claim.pc = "claim" /\ claim.task = t /\ claim.lease = 0
        /\ claim.mode = u.mode /\ claim.round = "first"
        /\ resume.pc = "checks" /\ resume.task = t /\ resume.lease = plan[t].lease
        /\ resume.mode = u.mode
    BY <1>1 DEF Driver
  <2> HIDE DEF land, claim, resume
  <2>6. plan[t].state = "review" /\ plan[t].lease # 0 => Settled(d, land)
    BY <1>1, <2>2, <2>4, <2>5 DEF Settled, DriverQuiet, HoldPcs, InWork, Past
  <2>7. plan[t].state = "ready" => Settled(d, claim)
    BY <1>1, <2>2, <2>4, <2>5 DEF Settled, DriverQuiet, HoldPcs, InWork, LatePcs
  <2>8. InterruptedRepair(plan[t]) => Settled(d, resume)
    BY <1>1, <2>2, <2>4, <2>5 DEF Settled, DriverQuiet, InterruptedRepair, First
  <2> QED BY <1>2, <1>5, <1>15, <2>3, <2>6, <2>7, <2>8 DEF LookUp
<1> QED
  BY <1>7, <1>8, <1>9, <1>10, <1>11, <1>12, <1>13, <1>14, <1>15


-----------------------------------------------------------------------------
(* The verbs of plan-run.                                                  *)

\* A worker that is not there does not mind what its plan-run writes.
LEMMA RestingWorker ==
  ASSUME TypeOK, TypeOK', QuietInv, NEW d \in Runners, RowsFence, ~WorkerLive(d), wrk' = wrk
  PROVE  WorkerQuiet(d)' /\ ~WorkerLive(d)' /\ wrk'[d].pc \notin AlivePcs \cup {"boot"}
<1>1. wrk'[d] = wrk[d] /\ wrk[d].pc \in {"none", "exited"} BY DEF WorkerLive
<1>2. wrk[d].task \in Tasks /\ wrk[d].lease \in Nat BY DEF TypeOK, Worker
<1>3. wrk[d].lease <= plan[wrk[d].task].epoch /\ (First(wrk[d].task) => ~wrk[d].term)
  BY DEF QuietInv, WorkerQuiet
<1>4. wrk[d].lease <= plan'[wrk[d].task].epoch
  BY <1>2, <1>3 DEF TypeOK, Row, RowsFence, NewLeaseOnly
<1>5. First(wrk[d].task)' => First(wrk[d].task) BY <1>1, <1>2 DEF RowsFence, First
<1>6. WorkerQuiet(d)' BY <1>1, <1>3, <1>4, <1>5 DEF WorkerQuiet, MarkedPcs
<1> QED BY <1>1, <1>6 DEF WorkerLive, AlivePcs, MarkedPcs

\* A plan-run without a live delegate that moves one row.
LEMMA VerbStep ==
  ASSUME TypeOK, TypeOK', QuietInv, NEW d \in Runners, RowsFence, ~WorkerLive(d),
         NEW t \in Tasks, wrk' = wrk, markers' = markers,
         drv' = [drv EXCEPT ![d] = drv'[d]],
         \A e \in Runners \ {d} : lander = e => lander' = e,
         \A x \in Tasks \ {t} : plan'[x] = plan[x],
         First(t) => QuietMove(d, t) /\ (plan[t].state \in InWork => plan'[t] # plan[t]),
         drv'[d].pc = "idle" \/ drv'[d].task = t,
         DriverQuiet(d)', LandingQuiet(d)'
  PROVE  StepQuiet(d)
<1>1. \A e \in Runners \ {d} : drv'[e] = drv[e] BY DEF TypeOK
<1>2. OthersKept(d) BY <1>1 DEF OthersKept
<1>3. WorkerQuiet(d)' /\ wrk'[d].pc \notin AlivePcs \cup {"boot"} BY RestingWorker
<1>4. NothingTaken(d)
  <2> SUFFICES ASSUME NEW x \in Tasks, First(x), plan'[x] = plan[x], plan[x].state \in InWork
               PROVE  ~Holder(d, x)' /\ ~Loose(d, x)'
    BY DEF NothingTaken
  <2>1. x # t OBVIOUS
  <2> QED BY <1>3, <2>1 DEF Holder, Loose, HoldPcs, AlivePcs
<1>5. \A x \in Tasks : First(x) => QuietMove(d, x) BY DEF QuietMove
<1> QED BY <1>2, <1>3, <1>4, <1>5 DEF StepQuiet, OwnQuiet

\* A plan-run that ends.
LEMMA IdleQuiet ==
  ASSUME TypeOK', NEW d \in Runners, drv'[d] = IdleDriver
  PROVE  DriverQuiet(d)' /\ LandingQuiet(d)' /\ drv'[d].pc = "idle"
<1>1. NoTask \in Tasks BY ConstantsAssumption DEF NoTask
<1>2. 0 <= plan'[NoTask].epoch BY <1>1 DEF TypeOK, Row
<1> QED BY <1>2 DEF DriverQuiet, LandingQuiet, IdleDriver, LatePcs

\* The pre-flight reclaim.
LEMMA BeginQuiet ==
  ASSUME TypeOK, TypeOK', LeaseInv, OpenInv, QuietInv, RowsFence, NEW d \in Runners, Begin(d)
  PROVE  StepQuiet(d)
<1> DEFINE u == drv[d]
<1>1. PICK m \in Modes : drv' = [drv EXCEPT ![d] = [u EXCEPT !.pc = "pick", !.mode = m]]
  BY DEF Begin
<1>2. u \in Driver /\ DriverQuiet(d) /\ u.pc = "idle" /\ u.lease = 0 /\ ~WorkerLive(d)
  BY DEF TypeOK, QuietInv, DriverQuiet, Begin
<1>3. /\ drv'[d].pc = "pick" /\ drv'[d].task = u.task /\ drv'[d].lease = 0
      /\ drv'[d].mode = m /\ drv'[d].round = "first" /\ u.task \in Tasks
      /\ drv' = [drv EXCEPT ![d] = drv'[d]]
  BY <1>1, <1>2 DEF TypeOK, Driver, DriverQuiet
<1>4. wrk' = wrk /\ markers' = markers /\ lander' = lander BY DEF Begin
<1>5. /\ WorkerQuiet(d)' /\ ~WorkerLive(d)' /\ wrk'[d].pc \notin AlivePcs \cup {"boot"}
  BY <1>2, <1>4, RestingWorker
<1>6. OthersKept(d) BY <1>3, <1>4 DEF OthersKept, TypeOK
<1>7. ASSUME NEW t \in Tasks PROVE QuietMove(d, t)
  BY OpenLoads DEF Begin, QuietMove
<1>8. NothingTaken(d)
  <2> SUFFICES ASSUME NEW t \in Tasks, plan'[t] = plan[t], plan[t].state \in InWork
               PROVE  ~Holder(d, t)' /\ ~Loose(d, t)'
    BY DEF NothingTaken
  <2>1. plan[t].lease # 0 BY DEF LeaseInv, RowInv, InWork, Active
  <2> QED BY <1>3, <1>5, <2>1 DEF Holder, Loose, HoldPcs, AlivePcs
<1>9. DriverQuiet(d)' /\ LandingQuiet(d)'
  <2>1. 0 <= plan'[u.task].epoch BY <1>3 DEF TypeOK, Row
  <2> QED BY <1>3, <1>5, <2>1 DEF DriverQuiet, LandingQuiet, NoRepairs, LatePcs
<1> QED BY <1>5, <1>6, <1>7, <1>8, <1>9 DEF StepQuiet, OwnQuiet

\* A lease that was just minted is on no marker yet.
LEMMA MintedIsFresh ==
  ASSUME TypeOK, QuietInv, NEW t \in Tasks, plan'[t] = Claimed(plan[t]), markers' = markers
  PROVE  /\ Fresh(t, plan[t].lease)' /\ plan'[t] # plan[t]
         /\ plan'[t].lease = plan[t].epoch + 1 /\ plan'[t].epoch = plan[t].epoch + 1
<1>1. plan[t] \in Row /\ plan[t].epoch \in Nat BY DEF TypeOK, Row
<1>2. /\ plan'[t].state = "claimed" /\ plan'[t].lease = plan[t].epoch + 1
      /\ plan'[t].epoch = plan[t].epoch + 1
  BY <1>1 DEF Claimed, Row
<1>3. ASSUME NEW m \in markers, m.task = t PROVE m.lease # plan[t].epoch + 1
  <2>1. m.lease \in Nat BY DEF TypeOK, Marker
  <2>2. m.lease <= plan[t].epoch BY <1>3 DEF QuietInv
  <2> QED BY <1>1, <2>1, <2>2
<1>4. plan'[t] # plan[t] BY <1>1, <1>2
<1> QED BY <1>2, <1>3, <1>4 DEF Fresh

\* --next takes the claim and the lease in one verb.
LEMMA ClaimNextQuiet ==
  ASSUME TypeOK, TypeOK', LeaseInv, QuietInv, RowsFence,
         NEW d \in Runners, NEW t \in Tasks, ClaimNext(d, t)
  PROVE  StepQuiet(d)
<1> DEFINE u == drv[d]
<1>1. /\ u \in Driver /\ DriverQuiet(d) /\ u.pc = "pick" /\ ~WorkerLive(d)
      /\ plan[t] \in Row
  BY DEF TypeOK, QuietInv, DriverQuiet, ClaimNext
<1>2. /\ drv'[d].pc = "checks" /\ drv'[d].task = t /\ drv'[d].lease = plan[t].epoch + 1
      /\ drv'[d].mode = u.mode /\ drv'[d].round = u.round
      /\ drv' = [drv EXCEPT ![d] = drv'[d]]
  BY <1>1 DEF ClaimNext, TypeOK, Driver
<1>3. /\ plan'[t] = Claimed(plan[t]) /\ \A x \in Tasks \ {t} : plan'[x] = plan[x]
      /\ markers' = markers /\ wrk' = wrk /\ lander' = lander
  BY DEF ClaimNext, SetRow, TypeOK
<1>4. QuietMove(d, t)
  BY <1>3 DEF ClaimNext, QuietMove, Actionable
<1>5. /\ Fresh(t, plan[t].lease)' /\ plan'[t] # plan[t]
      /\ plan'[t].lease = plan[t].epoch + 1
      /\ plan'[t].epoch = plan[t].epoch + 1 /\ plan[t].epoch + 1 \in Nat
  BY <1>1, <1>3, MintedIsFresh DEF Row
<1>6. ~WorkerLive(d)' BY <1>1, <1>3 DEF WorkerLive
<1>7. DriverQuiet(d)'
  <2>1. drv'[d].lease <= plan'[t].epoch BY <1>2, <1>5
  <2>2. Fresh(drv[d].task, drv[d].lease)' BY <1>2, <1>5 DEF Fresh
  <2> QED BY <1>1, <1>2, <1>6, <2>1, <2>2 DEF DriverQuiet, LatePcs
<1>8. LandingQuiet(d)' BY <1>2 DEF LandingQuiet
<1> QED BY <1>1, <1>2, <1>3, <1>4, <1>5, <1>7, <1>8, VerbStep

\* --id claims first and reads the lease back in a second step.
LEMMA ClaimIdQuiet ==
  ASSUME TypeOK, TypeOK', LeaseInv, QuietInv, RowsFence, NEW d \in Runners, ClaimId(d)
  PROVE  StepQuiet(d)
<1> DEFINE u == drv[d]
           t == u.task
           can == Loads /\ CanClaim(plan[t]) /\ DepsDone(t) /\ plan[t].epoch < MaxEpoch
<1>1. /\ u \in Driver /\ DriverQuiet(d) /\ u.pc = "claim" /\ u.lease = 0 /\ ~WorkerLive(d)
      /\ t \in Tasks /\ plan[t] \in Row
  BY DEF TypeOK, Driver, QuietInv, DriverQuiet, ClaimId
<1>2. CASE ~can
  <2>1. drv' = [drv EXCEPT ![d] = IdleDriver] /\ plan' = plan BY <1>2 DEF ClaimId
  <2> QED BY <2>1, IdleSettled, SettledStep, IdleTyped DEF ClaimId
<1>3. CASE can
  <2>1. /\ drv'[d].pc = "adopt" /\ drv'[d].task = t /\ drv'[d].lease = 0
        /\ drv'[d].mode = u.mode /\ drv'[d].round = u.round
        /\ drv' = [drv EXCEPT ![d] = drv'[d]]
    BY <1>1, <1>3 DEF ClaimId, TypeOK, Driver
  <2>2. /\ plan'[t] = Claimed(plan[t]) /\ \A x \in Tasks \ {t} : plan'[x] = plan[x]
        /\ markers' = markers /\ wrk' = wrk /\ lander' = lander
    BY <1>1, <1>3 DEF ClaimId, TypeOK
  <2>3. QuietMove(d, t) BY <1>3, <2>2 DEF QuietMove, CanClaim
  <2>4. /\ plan'[t].state = "claimed" /\ plan'[t] # plan[t]
        /\ \A m \in markers' : m.task = t => m.lease # plan'[t].lease
    <3>1. ASSUME NEW x \in Tasks, x = t
          PROVE  /\ plan'[x].state = "claimed" /\ plan'[x] # plan[x]
                 /\ \A m \in markers' : m.task = x => m.lease # plan'[x].lease
      BY <2>2, <3>1, MintedIsFresh DEF Fresh
    <3> QED BY <1>1, <3>1
  <2>5. plan'[t].epoch \in Nat BY <1>1 DEF TypeOK, Row
  <2>6. ~WorkerLive(d)' BY <1>1, <2>2 DEF WorkerLive
  <2>7. DriverQuiet(d)'
    <3>1. 0 <= plan'[t].epoch BY <2>5
    <3>2. Fresh(drv[d].task, plan[drv[d].task].lease)' BY <2>1, <2>4 DEF Fresh
    <3> QED BY <1>1, <2>1, <2>6, <3>1, <3>2 DEF DriverQuiet, LatePcs
  <2>8. LandingQuiet(d)' BY <2>1 DEF LandingQuiet
  <2> QED BY <1>1, <2>1, <2>2, <2>3, <2>4, <2>7, <2>8, VerbStep
<1> QED BY <1>2, <1>3

\* The trap releases what the run still holds.
LEMMA ReleaseQuiet ==
  ASSUME TypeOK, TypeOK', LeaseInv, QuietInv, RowsFence, NEW d \in Runners, CleanupRelease(d)
  PROVE  StepQuiet(d)
<1> DEFINE u == drv[d]
           t == u.task
           can == Loads /\ CanRelease(plan[t], u.lease)
<1>1. /\ u \in Driver /\ DriverQuiet(d) /\ u.pc = "release" /\ ~WorkerLive(d)
      /\ t \in Tasks /\ plan[t] \in Row
  BY DEF TypeOK, Driver, QuietInv, DriverQuiet, CleanupRelease
<1>2. drv' = [drv EXCEPT ![d] = IdleDriver] /\ drv'[d] = IdleDriver
  BY DEF CleanupRelease, TypeOK
<1>3. CASE ~can
  <2>1. plan' = plan BY <1>3 DEF CleanupRelease
  <2> QED BY <1>2, <2>1, IdleSettled, SettledStep, IdleTyped DEF CleanupRelease
<1>4. CASE can
  <2>1. /\ plan'[t] = ClearClaim(plan[t]) /\ \A x \in Tasks \ {t} : plan'[x] = plan[x]
        /\ wrk' = wrk /\ markers' = markers /\ lander' = lander
    BY <1>1, <1>4 DEF CleanupRelease, TypeOK
  <2>2. First(t) => plan[t].state \in InWork /\ Holder(d, t)
    BY <1>1, <1>4 DEF CanRelease, Holds, DriverQuiet, Holder, HoldPcs
  <2>3. First(t) => QuietMove(d, t) BY <2>1, <2>2 DEF QuietMove
  <2>4. plan[t].state \in InWork => plan'[t] # plan[t]
    <3>1. plan'[t].state = "ready" BY <1>1, <2>1, QuietVerbs
    <3> QED BY <3>1 DEF InWork
  <2> QED BY <1>1, <1>2, <2>1, <2>3, <2>4, IdleQuiet, VerbStep
<1> QED BY <1>3, <1>4

\* The delegate boots on the claim of its plan-run.
LEMMA DelegateQuiet ==
  ASSUME TypeOK, TypeOK', LeaseInv, QuietInv, NEW d \in Runners, Delegate(d)
  PROVE  StepQuiet(d)
<1> DEFINE u == drv[d]
           t == u.task
<1>1. /\ u \in Driver /\ DriverQuiet(d) /\ u.pc = "checks" /\ t \in Tasks
      /\ plan[t] \in Row /\ RowInv(plan[t])
  BY DEF TypeOK, Driver, LeaseInv, QuietInv, Delegate
<1>2. First(t) => /\ Fresh(t, plan[t].lease) /\ plan[t].lease = u.lease /\ u.round = "first"
                  /\ plan[t].state = "claimed"
  BY <1>1 DEF DriverQuiet, Fresh
<1>3. drv' = [drv EXCEPT ![d] = [u EXCEPT !.pc = "wait"]] BY DEF Delegate, DrvGo
<1>4. /\ drv'[d].pc = "wait" /\ drv'[d].task = t /\ drv'[d].lease = u.lease
      /\ drv'[d].mode = u.mode /\ drv'[d].round = u.round
  BY <1>1, <1>3 DEF TypeOK, Driver
<1>5. wrk'[d] = Boot(t, u.round = "resume") BY <1>1 DEF Delegate, TypeOK
<1>6. /\ wrk'[d].pc = "boot" /\ wrk'[d].task = t /\ wrk'[d].lease = 0
      /\ wrk'[d].term = (u.round = "resume") /\ wrk'[d].ok = FALSE
  BY <1>5 DEF Boot, NoWorker
<1>7. OthersKept(d)
  BY <1>3 DEF OthersKept, Delegate, TypeOK
<1>8. NothingTaken(d)
  <2>1. First(t) => Holder(d, t) /\ Loose(d, t)
    BY <1>1, <1>2 DEF Holder, HoldPcs, Loose
  <2> QED BY <1>4, <1>6, <2>1 DEF NothingTaken, Holder, Loose, Delegate
<1>9. plan' = plan /\ markers' = markers BY DEF Delegate
<1>10. DriverQuiet(d)' /\ LandingQuiet(d)'
  <2>1. First(t) => u.lease # 0 BY <1>1, <1>2 DEF RowInv, Active
  <2>2. First(drv[d].task)' => First(t) BY <1>4, <1>9 DEF First
  <2> QED BY <1>1, <1>2, <1>4, <1>6, <1>9, <2>1, <2>2 DEF DriverQuiet, LandingQuiet, LatePcs
<1>11. WorkerQuiet(d)'
  <2>1. 0 <= plan[t].epoch BY <1>1 DEF Row
  <2>2. First(t) => Fresh(wrk[d].task, plan[wrk[d].task].lease)'
    BY <1>2, <1>6, <1>9 DEF Fresh
  <2>3. First(wrk[d].task)' => First(t) BY <1>6, <1>9 DEF First
  <2> QED BY <1>2, <1>6, <1>9, <2>1, <2>2, <2>3 DEF WorkerQuiet, MarkedPcs
<1>12. \A x \in Tasks : QuietMove(d, x) BY <1>9 DEF QuietMove
<1> QED BY <1>7, <1>8, <1>10, <1>11, <1>12 DEF StepQuiet, OwnQuiet

\* The one-shot rule: a task whose repair failed is blocked.
LEMMA ParkQuiet ==
  ASSUME TypeOK, TypeOK', QuietInv, RowsFence, NEW d \in Runners,
         TermBlock(d) \/ ParkFailedRepair(d)
  PROVE  StepQuiet(d)
<1> DEFINE u == drv[d]
           t == u.task
           can == Loads /\ CanBlock(plan[t], u.lease)
<1>1. /\ u \in Driver /\ DriverQuiet(d) /\ t \in Tasks /\ plan[t] \in Row
      /\ u.pc \in {"termBlock", "block"} /\ ~WorkerLive(d) /\ drv \in [Runners -> Driver]
      /\ plan \in [Tasks -> Row]
  BY DEF TypeOK, Driver, QuietInv, DriverQuiet, TermBlock, ParkFailedRepair
<1>2. PICK v \in {IdleDriver, Leave(d)} :
        /\ \/ u.pc = "termBlock" /\ v = Leave(d)
           \/ u.pc = "block" /\ v = IdleDriver
        /\ BlockByLease(d, v)
  BY DEF TermBlock, ParkFailedRepair
<1>3. /\ drv' = [drv EXCEPT ![d] = v] /\ drv'[d] = v /\ wrk' = wrk /\ markers' = markers
      /\ lander' = lander
  BY <1>1, <1>2 DEF BlockByLease
<1>4. u.pc = "termBlock" => ~First(t) BY <1>1 DEF DriverQuiet
<1>5. ~WorkerLive(d)' BY <1>1, <1>3 DEF WorkerLive
<1>6. CASE ~can
  <2>1. plan' = plan BY <1>2, <1>6 DEF BlockByLease
  <2>2. Settled(d, v)
    BY <1>1, <1>2, <1>4, <1>5, IdleSettled, LeaveSettled
  <2>3. v \in Driver BY <1>3 DEF TypeOK
  <2> QED BY <1>3, <2>1, <2>2, <2>3, SettledStep
<1>7. CASE can
  <2>1. plan'[t] = Blocked(plan[t]) /\ \A x \in Tasks \ {t} : plan'[x] = plan[x]
    BY <1>1, <1>2, <1>7 DEF BlockByLease
  <2>2. ASSUME First(t) PROVE QuietMove(d, t) /\ plan[t].state \notin InWork
    <3>1. u.pc = "block" /\ ~NoRepairs /\ Past(t, u.lease)
      BY <1>1, <1>4, <2>2 DEF DriverQuiet, LatePcs
    <3>2. plan[t].state \notin InWork
      BY <1>7, <3>1 DEF CanBlock, Holds, Past, InWork, Active
    <3> QED BY <2>1, <3>1, <3>2 DEF QuietMove
  <2>3. DriverQuiet(d)' /\ LandingQuiet(d)' /\ (v.pc = "idle" \/ v.task = t)
    <3>1. CASE v = IdleDriver BY <1>3, <3>1, IdleQuiet
    <3>2. CASE u.pc = "termBlock" /\ v = [u EXCEPT !.pc = "cleanup"]
      <4>1. /\ v.pc = "cleanup" /\ v.task = t /\ v.lease = u.lease /\ v.mode = u.mode
        BY <1>1, <3>2 DEF Driver
      <4>2. plan'[t].repair # 0 BY <1>1, <1>4, <3>2 DEF RowsFence
      <4>3. u.lease <= plan'[t].epoch
        <5>1. u.lease <= plan[t].epoch /\ u.lease \in Nat /\ plan[t].epoch \in Nat
              /\ plan'[t].epoch \in Nat
          BY <1>1 DEF DriverQuiet, Driver, Row, TypeOK
        <5>2. plan'[t].epoch >= plan[t].epoch BY <1>1 DEF RowsFence, NewLeaseOnly
        <5> QED BY <5>1, <5>2
      <4>4. ~First(drv[d].task)' BY <1>3, <4>1, <4>2 DEF First
      <4> QED BY <1>1, <1>3, <1>5, <4>1, <4>3, <4>4 DEF DriverQuiet, LandingQuiet
    <3> QED BY <1>2, <3>1, <3>2 DEF Leave
  <2>4. drv' = [drv EXCEPT ![d] = drv'[d]] BY <1>3
  <2> QED BY <1>1, <1>3, <2>1, <2>2, <2>3, <2>4, VerbStep
<1> QED BY <1>6, <1>7

\* All of plan-run outside the landing.
LEMMA DriverQuietStep ==
  ASSUME TypeOK, TypeOK', LeaseInv, OpenInv, QuietInv, RowsFence,
         NEW d \in Runners, DriverStep(d)
  PROVE  StepQuiet(d)
BY DriverReadsQuietly, BeginQuiet, ClaimNextQuiet, ClaimIdQuiet, ReleaseQuiet,
   DelegateQuiet, ParkQuiet DEF DriverStep

-----------------------------------------------------------------------------
(* The landing and the repair it may buy.                                  *)

\* A landing that reads, locks, is admitted, applies or fails with the row
\* as it is.
LEMMA LandReadsQuietly ==
  ASSUME TypeOK, TypeOK', LeaseInv, QuietInv, NEW d \in Runners,
         \/ LandSnapshot(d) \/ LandLock(d) \/ Admit(d) \/ Apply(d)
         \/ (Fence(d) \/ ApplyFails(d) \/ Finish(d)) /\ plan' = plan /\ drv'[d].pc # "apply"
  PROVE  StepQuiet(d)
<1> DEFINE u == drv[d]
           r == plan[u.task]
<1>1. /\ u \in Driver /\ u.task \in Tasks /\ r \in Row /\ RowInv(r) /\ RowQuiet(u.task)
      /\ DriverQuiet(d) /\ LandingQuiet(d) /\ drv \in [Runners -> Driver]
  BY DEF TypeOK, Driver, LeaseInv, QuietInv
<1>2. ASSUME NEW v, drv' = [drv EXCEPT ![d] = v], Settled(d, v), plan' = plan,
             markers' = markers, wrk' = wrk,
             \A e \in Runners \ {d} : lander = e => lander' = e
      PROVE  StepQuiet(d)
  <2>1. drv'[d] = v BY <1>1, <1>2
  <2>2. v \in Driver BY <2>1 DEF TypeOK
  <2> QED BY <1>2, <2>2, SettledStep
<1>3. Settled(d, IdleDriver) BY IdleSettled
<1>4. ASSUME u.pc \in {"land", "lock", "admit", "fence", "apply", "finish"}, wrk' = wrk
      PROVE  Settled(d, LandFails(d))
  BY <1>4, LandFailsSettled DEF LatePcs
<1>5. ASSUME NEW v, v \in Driver, v.pc \in {"lock", "admit", "fence", "finish"},
             v.task = u.task, v.lease = u.lease, v.mode = u.mode, v.round = u.round,
             u.pc \in {"land", "lock", "admit", "apply"}, wrk' = wrk,
             v.pc # "lock" => lander' = d,
             NoRepairs => /\ OneLease(v.seen)
                          /\ v.pc = "finish" => r.state = "landing" /\ Receipt(r) = v.seen
      PROVE  Settled(d, v)
  <2>1. ~WorkerLive(d)' BY <1>1, <1>5 DEF DriverQuiet, WorkerLive
  <2>2. v.lease = r.lease => Loose(d, u.task) BY <1>5 DEF Loose
  <2>3. First(u.task) => Past(u.task, u.lease) BY <1>1, <1>5 DEF DriverQuiet, LatePcs
  <2> QED BY <1>1, <1>5, <2>1, <2>2, <2>3 DEF Settled, DriverQuiet, HoldPcs
<1>6. CASE LandSnapshot(d)
  <2> DEFINE v == [u EXCEPT !.pc = "lock", !.seen = Receipt(r)]
  <2>1. u.pc = "land" /\ wrk' = wrk /\ plan' = plan /\ markers' = markers /\ lander' = lander
    BY <1>6 DEF LandSnapshot
  <2>2. CASE drv' = [drv EXCEPT ![d] = v] /\ NamesReview(r, r.lease)
    <3>1. /\ v.pc = "lock" /\ v.task = u.task /\ v.lease = u.lease
          /\ v.mode = u.mode /\ v.round = u.round /\ v.seen = Receipt(r)
      BY <1>1 DEF Driver
    <3>2. v \in Driver BY <1>1, <2>2 DEF TypeOK
    <3>3. NoRepairs => OneLease(Receipt(r))
      BY <1>1, <2>2 DEF OneLease, Receipt, NamesReview, RowInv, RowQuiet, First
    <3> HIDE DEF v
    <3>4. Settled(d, v) BY <1>5, <2>1, <3>1, <3>2, <3>3
    <3> QED BY <1>2, <2>1, <2>2, <3>4
  <2>3. CASE drv' = [drv EXCEPT ![d] = LandFails(d)]
    BY <1>2, <1>4, <2>1, <2>3
  <2> QED BY <1>1, <1>6, <2>2, <2>3 DEF LandSnapshot
<1>7. ASSUME NEW x \in {"admit", "fence", "finish"},
             drv' = [drv EXCEPT ![d] = [u EXCEPT !.pc = x]],
             u.pc \in {"lock", "admit", "apply"}, wrk' = wrk, lander' = d, plan' = plan,
             markers' = markers, lander \in {d, NoOne},
             x = "finish" => u.pc = "apply"
      PROVE  StepQuiet(d)
  <2> DEFINE v == [u EXCEPT !.pc = x]
  <2>1. /\ v.pc = x /\ v.task = u.task /\ v.lease = u.lease
        /\ v.mode = u.mode /\ v.round = u.round /\ v.seen = u.seen
    BY <1>1 DEF Driver
  <2>2. v \in Driver BY <1>1, <1>7 DEF TypeOK
  <2>3. NoRepairs => /\ OneLease(u.seen)
                     /\ x = "finish" => r.state = "landing" /\ Receipt(r) = u.seen
    BY <1>1, <1>7 DEF LandingQuiet
  <2>4. \A e \in Runners \ {d} : lander # e BY <1>7, NoOneAssumption
  <2> HIDE DEF v
  <2>5. Settled(d, v) BY <1>5, <1>7, <2>1, <2>2, <2>3
  <2> QED BY <1>2, <1>7, <2>4, <2>5 DEF v
<1>8. u.pc \in {"admit", "fence", "apply", "finish"} => lander = d
  BY <1>1 DEF LandingQuiet
<1>9. CASE LandLock(d)
  <2>1. CASE lander = NoOne
    BY <1>7, <1>9, <2>1 DEF LandLock, DrvGo
  <2>2. CASE lander # NoOne
    BY <1>2, <1>4, <1>9, <2>2 DEF LandLock
  <2> QED BY <2>1, <2>2
<1>10. CASE Admit(d)
  <2>1. CASE DrvGo(d, "fence") /\ lander' = lander
    BY <1>7, <1>8, <1>10, <2>1 DEF Admit, DrvGo
  <2>2. CASE drv' = [drv EXCEPT ![d] = LandFails(d)] /\ lander' = NoOne
    BY <1>2, <1>4, <1>8, <1>10, <2>2 DEF Admit
  <2> QED BY <1>10, <2>1, <2>2 DEF Admit
<1>11. CASE Apply(d)
  BY <1>7, <1>8, <1>11 DEF Apply, DrvGo
<1>12. CASE (Fence(d) \/ ApplyFails(d) \/ Finish(d)) /\ plan' = plan /\ drv'[d].pc # "apply"
  <2>1. drv' = [drv EXCEPT ![d] = IdleDriver] \/ drv' = [drv EXCEPT ![d] = LandFails(d)]
    <3>1. CASE Fence(d)
      <4>1. [u EXCEPT !.pc = "apply"].pc = "apply" BY <1>1 DEF Driver
      <4> QED BY <1>1, <1>12, <3>1, <4>1 DEF Fence
    <3>2. CASE ApplyFails(d) BY <3>2 DEF ApplyFails
    <3>3. CASE Finish(d) BY <3>3 DEF Finish
    <3> QED BY <1>12, <3>1, <3>2, <3>3
  <2>2. /\ wrk' = wrk /\ markers' = markers /\ lander = d
        /\ u.pc \in {"fence", "apply", "finish"}
    BY <1>8, <1>12 DEF Fence, ApplyFails, Finish
  <2> QED BY <1>2, <1>3, <1>4, <1>12, <2>1, <2>2
<1> QED BY <1>6, <1>9, <1>10, <1>11, <1>12

\* A landing that moves its row: what it leaves of the process is v.
LEMMA LandVerb ==
  ASSUME TypeOK, TypeOK', QuietInv, RowsFence, NEW d \in Runners,
         NEW t \in Tasks, t = drv[d].task, drv[d].pc \in {"fence", "apply", "finish"},
         plan[t].state \in {"review", "landing"}, plan'[t].state \notin InWork,
         \A x \in Tasks \ {t} : plan'[x] = plan[x], QuietMove(d, t),
         wrk' = wrk, markers' = markers, NEW v, drv' = [drv EXCEPT ![d] = v],
         \/ v \in {IdleDriver, LandFails(d)}
         \/ /\ v = [drv[d] EXCEPT !.pc = "apply"] /\ lander' = lander
            /\ NoRepairs => plan'[t].state = "landing" /\ Receipt(plan'[t]) = drv[d].seen
  PROVE  StepQuiet(d)
<1> DEFINE u == drv[d]
<1>1. /\ u \in Driver /\ DriverQuiet(d) /\ LandingQuiet(d) /\ ~WorkerLive(d)
      /\ lander = d /\ drv'[d] = v
  BY DEF TypeOK, QuietInv, DriverQuiet, LandingQuiet
<1>2. ~WorkerLive(d)' BY <1>1 DEF WorkerLive
<1>3. u.lease <= plan'[t].epoch
  <2>1. u.lease <= plan[t].epoch /\ u.lease \in Nat /\ plan[t].epoch \in Nat
        /\ plan'[t].epoch \in Nat
    BY <1>1 DEF DriverQuiet, Driver, TypeOK, Row
  <2>2. plan'[t].epoch >= plan[t].epoch BY DEF RowsFence, NewLeaseOnly
  <2> QED BY <2>1, <2>2
<1>4. plan'[t].repair = 0 => First(t) /\ u.round = "first" /\ u.lease # 0
  BY <1>1 DEF RowsFence, DriverQuiet, Past, LatePcs
<1>5. ASSUME v.pc \in {"repair", "apply"}, v.task = t, v.lease = u.lease, v.mode = u.mode,
             v.round = u.round, NoRepairs => v.pc # "repair", LandingQuiet(d)'
      PROVE  DriverQuiet(d)' /\ LandingQuiet(d)' /\ drv'[d].task = t
  <2>1. plan'[t].repair = 0 => Past(drv[d].task, drv[d].lease)'
    BY <1>1, <1>4, <1>5 DEF Past
  <2>2. First(drv[d].task)' => plan'[t].repair = 0 BY <1>1, <1>5 DEF First
  <2> QED BY <1>1, <1>2, <1>3, <1>4, <1>5, <2>1, <2>2 DEF DriverQuiet
<1>6. DriverQuiet(d)' /\ LandingQuiet(d)' /\ (drv'[d].pc = "idle" \/ drv'[d].task = t)
  <2>1. CASE v = IdleDriver BY <1>1, <2>1, IdleQuiet
  <2>2. CASE v = LandFails(d) /\ v # IdleDriver
    <3>1. v = [u EXCEPT !.pc = "repair"] /\ u.mode = "auto" BY <2>2 DEF LandFails
    <3>2. /\ v.pc = "repair" /\ v.task = t /\ v.lease = u.lease /\ v.mode = u.mode
          /\ v.round = u.round
      BY <1>1, <3>1 DEF Driver
    <3>3. ~NoRepairs BY <1>1, <3>1 DEF DriverQuiet
    <3>4. LandingQuiet(d)' BY <1>1, <3>2 DEF LandingQuiet
    <3> QED BY <1>5, <3>2, <3>3, <3>4
  <2>3. CASE /\ v = [u EXCEPT !.pc = "apply"] /\ lander' = lander
             /\ NoRepairs => plan'[t].state = "landing" /\ Receipt(plan'[t]) = u.seen
    <3>1. /\ v.pc = "apply" /\ v.task = t /\ v.lease = u.lease /\ v.mode = u.mode
          /\ v.round = u.round /\ v.seen = u.seen
      BY <1>1, <2>3 DEF Driver
    <3>2. NoRepairs => OneLease(u.seen) BY <1>1 DEF LandingQuiet
    <3>3. LandingQuiet(d)' BY <1>1, <2>3, <3>1, <3>2 DEF LandingQuiet
    <3> QED BY <1>5, <3>1, <3>3
  <2> QED BY <2>1, <2>2, <2>3
<1>7. plan[t].state \notin InWork BY DEF InWork
<1>8. \A e \in Runners \ {d} : lander # e BY <1>1
<1>9. drv' = [drv EXCEPT ![d] = drv'[d]] BY <1>1
<1> QED BY <1>1, <1>6, <1>7, <1>8, <1>9, VerbStep

\* An admitted landing finds the review it was admitted for whole.
LEMMA FencedReceipt ==
  ASSUME NEW r \in Row, RowInv(r), r.repair = 0, NEW seen \in Receipts, OneLease(seen),
         CanLand(r, seen.lease, seen.patch)
  PROVE  Receipt(Fenced(r)) = seen
<1>1. /\ r.lease = seen.lease /\ r.reviewLease = seen.lease /\ r.patch = seen.patch
      /\ r.epoch = seen.lease
  BY DEF CanLand, NamesReview, RowInv
<1>2. Receipt(Fenced(r)) = Receipt(r) BY DEF Fenced, Receipt, Row
<1>3. Receipt(r) = seen BY <1>1 DEF Receipt, Receipts, OneLease
<1> QED BY <1>2, <1>3

\* The verbs of a landing.
LEMMA LandMovesQuietly ==
  ASSUME TypeOK, TypeOK', LeaseInv, QuietInv, RowsFence, NEW d \in Runners,
         Fence(d) \/ ApplyFails(d) \/ Finish(d)
  PROVE  StepQuiet(d)
<1> DEFINE u == drv[d]
           t == u.task
<1>1. /\ u \in Driver /\ t \in Tasks /\ plan[t] \in Row /\ RowInv(plan[t]) /\ RowQuiet(t)
      /\ LandingQuiet(d) /\ u.seen \in Receipts
      /\ drv \in [Runners -> Driver] /\ plan \in [Tasks -> Row]
  BY DEF TypeOK, Driver, LeaseInv, QuietInv
<1>2. /\ u.pc \in {"fence", "apply", "finish"} /\ lander = d
      /\ wrk' = wrk /\ markers' = markers
  BY <1>1 DEF Fence, ApplyFails, Finish, LandingQuiet
<1>3. CASE Fence(d)
  <2>1. CASE Loads /\ CanLand(plan[t], u.seen.lease, u.seen.patch)
    <3>1. /\ u.pc = "fence" /\ plan' = [plan EXCEPT ![t] = Fenced(plan[t])]
          /\ drv' = [drv EXCEPT ![d] = [u EXCEPT !.pc = "apply"]] /\ lander' = lander
      BY <1>1, <1>3, <2>1 DEF Fence
    <3>2. plan[t].state = "review" BY <2>1 DEF CanLand, NamesReview
    <3>3. Fenced(plan[t]).state = "landing" BY <1>1, QuietVerbs
    <3>4. NoRepairs => Receipt(Fenced(plan[t])) = u.seen
      BY <1>1, <2>1, <3>1, FencedReceipt DEF LandingQuiet, RowQuiet, First
    <3>5. plan'[t] = Fenced(plan[t]) /\ \A x \in Tasks \ {t} : plan'[x] = plan[x]
      BY <1>1, <3>1
    <3>6. QuietMove(d, t) BY <3>2, <3>5 DEF QuietMove
    <3> QED BY <1>1, <1>2, <3>1, <3>2, <3>3, <3>4, <3>5, <3>6, LandVerb DEF InWork
  <2>2. CASE ~(Loads /\ CanLand(plan[t], u.seen.lease, u.seen.patch))
    <3>1. plan' = plan /\ drv' = [drv EXCEPT ![d] = LandFails(d)]
      BY <1>3, <2>2 DEF Fence
    <3>2. LandFails(d).pc # "apply" BY <1>1 DEF LandFails, IdleDriver, Driver
    <3>3. drv'[d].pc # "apply" BY <1>1, <3>1, <3>2
    <3> QED BY <1>3, <3>1, <3>3, LandReadsQuietly
  <2> QED BY <2>1, <2>2
<1>4. CASE ApplyFails(d) \/ Finish(d)
  <2>1. PICK v \in {IdleDriver, LandFails(d)} : drv' = [drv EXCEPT ![d] = v]
    BY <1>4 DEF ApplyFails, Finish
  <2>2. LandFails(d).pc # "apply" /\ IdleDriver.pc # "apply"
    BY <1>1 DEF LandFails, IdleDriver, Driver
  <2>3. drv'[d].pc # "apply" BY <1>1, <2>1, <2>2
  <2>4. CASE plan' = plan BY <1>4, <2>3, <2>4, LandReadsQuietly
  <2>5. ASSUME NEW s \in {ClearClaim(plan[t]), Finished(plan[t])},
               plan' = [plan EXCEPT ![t] = s], plan[t].state \in {"review", "landing"}
        PROVE  StepQuiet(d)
    <3>1. plan'[t] = s /\ \A x \in Tasks \ {t} : plan'[x] = plan[x]
      BY <1>1, <2>5
    <3>2. s.state \notin InWork BY <1>1, QuietVerbs DEF InWork
    <3>3. QuietMove(d, t) BY <1>2, <2>5, <3>1 DEF QuietMove
    <3> QED BY <1>1, <1>2, <2>1, <2>5, <3>1, <3>2, <3>3, LandVerb
  <2>6. \/ plan' = plan
        \/ /\ plan[t].state \in {"review", "landing"}
           /\ \/ plan' = [plan EXCEPT ![t] = ClearClaim(plan[t])]
              \/ plan' = [plan EXCEPT ![t] = Finished(plan[t])]
    BY <1>1, <1>4 DEF ApplyFails, Finish, CanFinish
  <2> QED BY <2>4, <2>5, <2>6
<1> QED BY <1>3, <1>4

\* The repair takes the review back under its own lease.
LEMMA RepairQuiet ==
  ASSUME TypeOK, TypeOK', QuietInv, RowsFence, NEW d \in Runners, Repair(d)
  PROVE  StepQuiet(d)
<1> DEFINE u == drv[d]
           t == u.task
           can == Loads /\ CanRepair(plan[t], u.lease)
<1>1. /\ u \in Driver /\ t \in Tasks /\ plan[t] \in Row /\ DriverQuiet(d) /\ u.pc = "repair"
      /\ ~WorkerLive(d) /\ ~NoRepairs /\ drv \in [Runners -> Driver]
  BY DEF TypeOK, Driver, QuietInv, DriverQuiet, Repair
<1>2. CASE ~can
  <2> DEFINE v == [u EXCEPT !.pc = "block"]
  <2>1. /\ drv' = [drv EXCEPT ![d] = v] /\ plan' = plan /\ wrk' = wrk /\ markers' = markers
        /\ lander' = lander
    BY <1>2 DEF Repair
  <2>2. /\ v.pc = "block" /\ v.task = u.task /\ v.lease = u.lease /\ v.mode = u.mode
        /\ v.round = u.round /\ v \in Driver /\ "block" \in DriverPcs
    BY <1>1 DEF Driver, DriverPcs
  <2>3. ~WorkerLive(d)' BY <1>1, <2>1 DEF WorkerLive
  <2>4. First(t) => Past(t, u.lease) BY <1>1 DEF DriverQuiet, LatePcs
  <2> HIDE DEF v
  <2>5. Settled(d, v) BY <1>1, <2>2, <2>3, <2>4, MovesOn DEF HoldPcs
  <2> QED BY <2>1, <2>2, <2>5, SettledStep
<1>3. CASE can
  <2>1. /\ plan'[t] = Repaired(plan[t]) /\ \A x \in Tasks \ {t} : plan'[x] = plan[x]
        /\ markers' = markers /\ lander' = lander /\ plan[t].state = "review"
    BY <1>1, <1>3 DEF Repair, TypeOK, CanRepair, NamesReview
  <2>2. /\ drv'[d].pc = "wait" /\ drv'[d].task = t /\ drv'[d].lease = u.lease
        /\ \A e \in Runners \ {d} : drv'[e] = drv[e]
    BY <1>1, <1>3 DEF Repair, Driver
  <2>3. wrk'[d] = Boot(t, TRUE) /\ \A e \in Runners \ {d} : wrk'[e] = wrk[e]
    BY <1>3 DEF Repair, TypeOK
  <2>4. /\ wrk'[d].pc = "boot" /\ wrk'[d].task = t /\ wrk'[d].lease = 0
    BY <2>3 DEF Boot, NoWorker
  <2>5. plan'[t].repair = 1 BY <1>1, <2>1, QuietVerbs
  <2>6. \A x \in Tasks : QuietMove(d, x) BY <1>1, <2>1 DEF QuietMove
  <2>7. OthersKept(d) BY <2>1, <2>2, <2>3 DEF OthersKept
  <2>8. NothingTaken(d)
    <3> SUFFICES ASSUME NEW x \in Tasks, First(x), plan'[x] = plan[x]
                 PROVE  ~Holder(d, x)' /\ ~Loose(d, x)'
      BY DEF NothingTaken
    <3>1. x # t BY <2>5 DEF First
    <3> QED BY <2>2, <2>4, <3>1 DEF Holder, Loose
  <2>9. ~First(drv[d].task)' /\ ~First(wrk[d].task)' BY <2>2, <2>4, <2>5 DEF First
  <2>10. u.lease <= plan'[t].epoch /\ 0 <= plan'[t].epoch
    <3>1. u.lease <= plan[t].epoch /\ u.lease \in Nat /\ plan[t].epoch \in Nat
          /\ plan'[t].epoch \in Nat
      BY <1>1 DEF DriverQuiet, Driver, Row, TypeOK
    <3>2. plan'[t].epoch >= plan[t].epoch BY <1>1 DEF RowsFence, NewLeaseOnly
    <3> QED BY <3>1, <3>2
  <2>11. DriverQuiet(d)' /\ WorkerQuiet(d)' /\ LandingQuiet(d)'
    BY <1>1, <2>2, <2>4, <2>9, <2>10 DEF DriverQuiet, WorkerQuiet, LandingQuiet
  <2> QED BY <2>6, <2>7, <2>8, <2>11 DEF StepQuiet, OwnQuiet
<1> QED BY <1>2, <1>3

LEMMA LandQuietStep ==
  ASSUME TypeOK, TypeOK', LeaseInv, QuietInv, RowsFence, NEW d \in Runners, LandStep(d)
  PROVE  StepQuiet(d)
BY LandReadsQuietly, LandMovesQuietly, RepairQuiet DEF LandStep

-----------------------------------------------------------------------------
(* The delegate.                                                           *)

\* What every step of a live delegate has in common, its death included.
AttemptShape(d) ==
  LET w == wrk[d]
      v == wrk'[d]
  IN /\ WorkerLive(d) /\ drv' = drv /\ lander' = lander
     /\ \A e \in Runners \ {d} :
          wrk'[e] = wrk[e] /\ (MyMarker(e) \in markers => MyMarker(e) \in markers')
     /\ \A m \in markers' : \/ \E n \in markers : n.task = m.task /\ n.lease = m.lease
                            \/ w.pc = "snapped" /\ m = MyMarker(d)
     /\ \A x \in Tasks \ {w.task} : plan'[x] = plan[x]
     /\ v.pc \in {"boot", "snapped"} => w.pc \in {"boot", "snapped"}
     /\ v.ok => w.ok \/ plan'[w.task].state = "review"
     /\ \/ /\ v.task = w.task /\ v.term = w.term
           /\ v.lease \in {w.lease, plan[w.task].lease}
        \/ v.pc = "exited" /\ v.lease = 0 /\ ~v.term

LEMMA WorkerShape == ASSUME TypeOK, NEW d \in Runners, WorkerStep(d) PROVE AttemptShape(d)
<1> DEFINE w == wrk[d]
           t == w.task
<1>1. w \in Worker /\ t \in Tasks /\ plan[t] \in Row /\ wrk \in [Runners -> Worker]
  BY DEF TypeOK, Worker
<1>2. \A e \in Runners \ {d} : MyMarker(e) # MyMarker(d) BY DEF MyMarker
<1>3. WorkerLive(d) /\ drv' = drv /\ lander' = lander
  BY DEF WorkerStep, Snapshot, Register, Start, Freeze, Guard, Restore, Publish, Fail, Abort,
         Exit, WorkerLive
<1>4. \A e \in Runners \ {d} : wrk'[e] = wrk[e]
  BY <1>1 DEF WorkerStep, Snapshot, Register, Start, Freeze, Guard, Restore, Publish, Fail,
     Abort,
              Exit, WrkGo
<1>5. \A x \in Tasks \ {t} : plan'[x] = plan[x]
  BY DEF WorkerStep, Snapshot, Register, Start, Freeze, Guard, Restore, Publish, Fail, Abort,
         Exit, SetRow, TypeOK
<1>6. /\ markers' \in {markers, markers \cup {MyMarker(d)}, markers \ {MyMarker(d)}}
      /\ w.pc # "snapped" => markers' # markers \cup {MyMarker(d)} \/ markers' = markers
  <2>1. CASE Register(d) BY <2>1 DEF Register
  <2>2. CASE ~Register(d)
    <3>1. markers' \in {markers, markers \ {MyMarker(d)}}
      BY <2>2 DEF WorkerStep, Snapshot, Start, Freeze, Guard, Restore, Publish, Fail, Abort,
         Exit
    <3> QED BY <3>1
  <2> QED BY <2>1, <2>2
<1>7. /\ \A e \in Runners \ {d} : MyMarker(e) \in markers => MyMarker(e) \in markers'
      /\ \A m \in markers' : m \in markers \/ (w.pc = "snapped" /\ m = MyMarker(d))
  BY <1>2, <1>6
<1> DEFINE Carries(v) == /\ v.pc \in {"boot", "snapped"} => w.pc \in {"boot", "snapped"}
                         /\ v.ok => w.ok \/ plan'[t].state = "review"
                         /\ \/ /\ v.task = t /\ v.term = w.term
                               /\ v.lease \in {w.lease, plan[t].lease}
                            \/ v.pc = "exited" /\ v.lease = 0 /\ ~v.term
<1>8. Carries(wrk'[d])
  <2>2. CASE Snapshot(d)
    <3>1. \/ wrk'[d] = [w EXCEPT !.pc = "snapped", !.lease = plan[t].lease]
          \/ wrk'[d] = [w EXCEPT !.pc = "exited"]
      BY <1>1, <2>2 DEF Snapshot
    <3> QED BY <1>1, <2>2, <3>1 DEF Snapshot, Worker
  <2>3. ASSUME NEW x, x \notin {"boot", "snapped"}, WrkGo(d, x) PROVE Carries(wrk'[d])
    <3>1. wrk'[d] = [w EXCEPT !.pc = x] BY <1>1, <2>3 DEF WrkGo
    <3> QED BY <1>1, <2>3, <3>1 DEF Worker
  <2>4. CASE Freeze(d)
    <3>1. \/ wrk'[d] = [w EXCEPT !.pc = "working", !.frozen = plan[t]]
          \/ wrk'[d] = [w EXCEPT !.pc = "failing"]
      BY <1>1, <2>4 DEF Freeze
    <3> QED BY <1>1, <3>1 DEF Worker
  <2>5. CASE Publish(d)
    <3> DEFINE can == Loads /\ CanReview(plan[t], w.lease)
    <3>1. AfterFailure(d) \in {"retrying", "exiting"} BY DEF AfterFailure
    <3>2. PICK x \in {"retrying", "exiting"} : wrk'[d] = [w EXCEPT !.pc = x, !.ok = can]
      BY <1>1, <2>5, <3>1 DEF Publish
    <3>3. /\ wrk'[d].task = t /\ wrk'[d].term = w.term /\ wrk'[d].lease = w.lease
          /\ wrk'[d].pc = x /\ wrk'[d].ok = can
      BY <1>1, <3>2 DEF Worker
    <3>4. can => plan'[t].state = "review"
      <4>1. can => plan'[t] = Reviewed(plan[t], MyPatch(d)) BY <1>1, <2>5 DEF Publish, TypeOK
      <4>2. Reviewed(plan[t], MyPatch(d)).state = "review" BY <1>1, QuietVerbs
      <4> QED BY <4>1, <4>2
    <3> HIDE DEF can
    <3> QED BY <3>3, <3>4
  <2>6. CASE Exit(d)
    <3>1. wrk'[d] = [NoWorker EXCEPT !.pc = "exited", !.ok = w.ok] BY <1>1, <2>6 DEF Exit
    <3> QED BY <3>1 DEF NoWorker
  <2>7. CASE Register(d) BY <2>3, <2>7 DEF Register
  <2>8. CASE Start(d)
    <3>1. \E x \in {"started", "exiting"} : WrkGo(d, x) BY <2>8 DEF Start
    <3> QED BY <2>3, <3>1
  <2>9. CASE Guard(d)
    <3>1. \E x \in {"restoring", "publishing", "failing"} : WrkGo(d, x) BY <2>9 DEF Guard
    <3> QED BY <2>3, <3>1
  <2>10. CASE Restore(d) BY <2>3, <2>10 DEF Restore
  <2>11. CASE Fail(d) \/ Abort(d)
    <3>1. \E x \in {"retrying", "exiting"} : WrkGo(d, x)
      BY <2>11 DEF Fail, AfterFailure, Abort
    <3> QED BY <2>3, <3>1
  <2> QED BY <2>2, <2>4, <2>5, <2>6, <2>7, <2>8, <2>9, <2>10, <2>11 DEF WorkerStep
<1> QED BY <1>3, <1>4, <1>5, <1>7, <1>8 DEF AttemptShape

\* A killed worker leaves its marker, with a dead pid.
LEMMA KilledShape == ASSUME TypeOK, NEW d \in Runners, KillWorker(d) PROVE AttemptShape(d)
<1>1. wrk'[d] = [NoWorker EXCEPT !.pc = "exited"] /\ \A e \in Runners \ {d} : wrk'[e] = wrk[e]
  BY DEF KillWorker, TypeOK
<1>2. wrk'[d].pc = "exited" /\ wrk'[d].lease = 0 /\ ~wrk'[d].term /\ ~wrk'[d].ok
  BY <1>1 DEF NoWorker
<1>3. markers' = {IF m.by = d THEN [m EXCEPT !.by = NoOne] ELSE m : m \in markers}
  BY DEF KillWorker
<1>4. ASSUME NEW e \in Runners \ {d}, MyMarker(e) \in markers PROVE MyMarker(e) \in markers'
  <2>1. MyMarker(e).by # d BY DEF MyMarker
  <2> QED BY <1>3, <1>4, <2>1
<1>5. ASSUME NEW m \in markers' PROVE \E n \in markers : n.task = m.task /\ n.lease = m.lease
  <2>1. PICK n \in markers : m = IF n.by = d THEN [n EXCEPT !.by = NoOne] ELSE n BY <1>3
  <2>2. n.task = m.task /\ n.lease = m.lease BY <2>1 DEF TypeOK, Marker
  <2> QED BY <2>2
<1> QED BY <1>1, <1>2, <1>4, <1>5 DEF KillWorker, AttemptShape

\* What a delegate owes while its task has not been repaired.
AttemptQuiet(d) ==
  /\ QuietMove(d, wrk[d].task)
  /\ wrk'[d].pc \in AlivePcs \cup {"boot"} => wrk[d].pc \in AlivePcs \cup {"boot"}
  /\ WorkerQuiet(d)'

\* Afterwards it owes nothing.
LEMMA AttemptStep ==
  ASSUME TypeOK, TypeOK', LeaseInv, QuietInv, RowsFence, NEW d \in Runners, AttemptShape(d),
         First(wrk[d].task) => AttemptQuiet(d)
  PROVE  StepQuiet(d)
<1> DEFINE u == drv[d]
           w == wrk[d]
           v == wrk'[d]
<1>1. /\ u \in Driver /\ u.task \in Tasks /\ u.lease \in Nat /\ w.task \in Tasks
      /\ w.lease \in Nat /\ v.lease \in Nat /\ v.task \in Tasks
      /\ DriverQuiet(d) /\ WorkerQuiet(d) /\ RowInv(plan[w.task])
  BY DEF TypeOK, Driver, Worker, QuietInv, LeaseInv
<1>2. ASSUME NEW t \in Tasks
      PROVE  /\ plan[t].epoch \in Nat /\ plan'[t].epoch \in Nat /\ plan[t].lease \in Nat
             /\ plan'[t].epoch >= plan[t].epoch /\ (plan'[t].repair = 0 => First(t))
  BY DEF TypeOK, Row, RowsFence, NewLeaseOnly
<1>3. OthersKept(d) BY DEF AttemptShape, OthersKept
<1>4. NothingTaken(d)
  <2> SUFFICES ASSUME NEW t \in Tasks, First(t), plan'[t] = plan[t]
               PROVE  (Holder(d, t)' => Holder(d, t)) /\ (Loose(d, t)' => Loose(d, t))
    BY DEF NothingTaken
  <2>1. v.pc \in AlivePcs \cup {"boot"} => v.task = w.task
    BY DEF AttemptShape, AlivePcs, MarkedPcs
  <2>2. Holder(d, t)' => Holder(d, t)
    BY <2>1 DEF AttemptShape, AttemptQuiet, Holder
  <2>3. Loose(d, t)' => Loose(d, t)
    BY <2>1 DEF AttemptShape, Loose, AlivePcs
  <2> QED BY <2>2, <2>3
<1>5. \A t \in Tasks : First(t) => QuietMove(d, t)
  BY DEF AttemptShape, AttemptQuiet, QuietMove
<1>6. WorkerQuiet(d)'
  <2>1. CASE First(w.task) BY <2>1 DEF AttemptQuiet
  <2>2. CASE ~First(w.task) /\ v.pc = "exited" /\ v.lease = 0 /\ ~v.term
    <3>1. 0 <= plan'[v.task].epoch BY <1>1, <1>2
    <3> QED BY <2>2, <3>1 DEF WorkerQuiet, MarkedPcs
  <2>3. CASE ~First(w.task) /\ v.task = w.task /\ v.lease \in {w.lease, plan[w.task].lease}
    <3>1. v.lease <= plan[w.task].epoch
      <4>1. w.lease <= plan[w.task].epoch BY <1>1 DEF WorkerQuiet
      <4>2. plan[w.task].lease <= plan[w.task].epoch BY <1>1, <1>2 DEF RowInv
      <4> QED BY <2>3, <4>1, <4>2
    <3>2. v.lease <= plan'[w.task].epoch
      <4> HIDE DEF v, w
      <4> QED BY <1>1, <1>2, <3>1
    <3>3. plan'[v.task].repair # 0 BY <1>1, <1>2, <2>3
    <3>4. ~First(wrk[d].task)' BY <3>3 DEF First
    <3> QED BY <2>3, <3>2, <3>4 DEF WorkerQuiet
  <2> QED BY <2>1, <2>2, <2>3 DEF AttemptShape
<1>7. u.pc \in {"idle", "wait", "stopping"}
  BY <1>1 DEF AttemptShape, DriverQuiet
<1>8. DriverQuiet(d)'
  <2>1. u.lease <= plan'[u.task].epoch
    <3>1. u.lease <= plan[u.task].epoch BY <1>1 DEF DriverQuiet
    <3> HIDE DEF u
    <3> QED BY <1>1, <1>2, <3>1
  <2>2. ASSUME plan'[u.task].repair = 0, u.pc = "wait", v.ok
        PROVE  Past(drv[d].task, drv[d].lease)'
    <3>1. First(u.task) /\ QuietMove(d, u.task) /\ w.task = u.task /\ u.lease # 0
      BY <1>1, <1>2, <1>5, <2>2 DEF DriverQuiet, AttemptShape
    <3>2. CASE w.ok
      <4>1. Past(u.task, u.lease) /\ u.lease <= plan[u.task].epoch
        BY <1>1, <2>2, <3>1, <3>2 DEF DriverQuiet
      <4>2. ASSUME NEW t \in Tasks, NEW l \in Nat, t = u.task, l = u.lease
            PROVE  plan'[t].lease = l => plan'[t].state \notin InWork
        BY <2>2, <3>1, <4>1, <4>2, PastStays DEF Past
      <4>3. plan'[u.task].lease = u.lease => plan'[u.task].state \notin InWork
        BY <1>1, <4>2
      <4> QED BY <3>1, <4>3 DEF Past, AttemptShape
    <3>3. CASE plan'[u.task].state = "review"
      BY <3>1, <3>3 DEF Past, InWork, AttemptShape
    <3> QED BY <2>2, <3>1, <3>2, <3>3 DEF AttemptShape
  <2>3. drv' = drv /\ (v.pc # "exited" => v.task = w.task) BY DEF AttemptShape
  <2>4. First(drv[d].task)' => plan'[u.task].repair = 0 BY <2>3 DEF First
  <2>5. plan'[u.task].repair = 0 => First(u.task) BY <1>1, <1>2
  <2>6. WorkerLive(d) /\ (WorkerLive(d)' => v.pc # "exited") BY DEF AttemptShape, WorkerLive
  <2> QED BY <1>1, <1>7, <2>1, <2>2, <2>3, <2>4, <2>5, <2>6 DEF DriverQuiet, LatePcs
<1>9. LandingQuiet(d)' BY <1>7 DEF AttemptShape, LandingQuiet
<1> QED BY <1>3, <1>4, <1>5, <1>6, <1>8, <1>9 DEF StepQuiet, OwnQuiet

\* A delegate that is through with its task, and one that ended.
LEMMA EndedQuiet ==
  ASSUME TypeOK, TypeOK', QuietInv, RowsFence, NEW d \in Runners, First(wrk[d].task),
         \/ /\ wrk'[d].pc = "exiting" /\ wrk'[d].term = wrk[d].term
            /\ wrk'[d].task = wrk[d].task /\ wrk'[d].lease = wrk[d].lease
         \/ wrk'[d].pc = "exited" /\ wrk'[d].lease = 0 /\ ~wrk'[d].term
  PROVE  WorkerQuiet(d)' /\ wrk'[d].pc \notin AlivePcs \cup {"boot"}
<1>1. wrk'[d].lease <= plan'[wrk'[d].task].epoch
  <2>1. /\ wrk[d].task \in Tasks /\ wrk[d].lease \in Nat /\ wrk'[d].task \in Tasks
        /\ plan[wrk[d].task].epoch \in Nat /\ plan'[wrk[d].task].epoch \in Nat
        /\ plan'[wrk'[d].task].epoch \in Nat
    BY DEF TypeOK, Worker, Row
  <2>2. wrk[d].lease <= plan[wrk[d].task].epoch BY DEF QuietInv, WorkerQuiet
  <2>3. plan'[wrk[d].task].epoch >= plan[wrk[d].task].epoch
    BY <2>1 DEF RowsFence, NewLeaseOnly
  <2> QED BY <2>1, <2>2, <2>3
<1>2. ~wrk'[d].term BY DEF QuietInv, WorkerQuiet
<1> QED BY <1>1, <1>2 DEF WorkerQuiet, AlivePcs, MarkedPcs

\* A delegate that has registered holds the claim of its task.
LEMMA MarkedHolds ==
  ASSUME TypeOK, QuietInv, NEW d \in Runners, First(wrk[d].task), wrk[d].pc \in MarkedPcs
  PROVE  LET t == wrk[d].task
         IN /\ t \in Tasks /\ plan[t] \in Row /\ Holder(d, t)
            /\ plan[t].state \in InWork /\ plan[t].lease = wrk[d].lease
            /\ MyMarker(d) \in markers /\ ~wrk[d].term
BY DEF TypeOK, Worker, QuietInv, WorkerQuiet, Holder, AlivePcs, MarkedPcs

\* Up to the marker.
LEMMA RegisterQuiet ==
  ASSUME TypeOK, LeaseInv, OpenInv, QuietInv, NEW d \in Runners,
         First(wrk[d].task), Snapshot(d) \/ Register(d)
  PROVE  AttemptQuiet(d)
<1> DEFINE w == wrk[d]
           t == w.task
           r == plan[t]
<1>1. /\ w \in Worker /\ t \in Tasks /\ r \in Row /\ RowInv(r) /\ WorkerQuiet(d) /\ Loads
      /\ ~w.term /\ wrk \in [Runners -> Worker]
  BY OpenLoads DEF TypeOK, Worker, LeaseInv, QuietInv, WorkerQuiet
<1>2. plan' = plan BY DEF Snapshot, Register
<1>3. QuietMove(d, t) BY <1>2 DEF QuietMove
<1>4. CASE Snapshot(d)
  <2>1. wrk'[d] = [w EXCEPT !.pc = "snapped", !.lease = r.lease]
    BY <1>1, <1>4 DEF Snapshot
  <2>2. /\ wrk'[d].pc = "snapped" /\ wrk'[d].lease = r.lease /\ wrk'[d].task = t
        /\ wrk'[d].term = w.term
    BY <1>1, <2>1 DEF Worker
  <2>3. Fresh(t, r.lease) /\ w.pc = "boot" /\ markers' = markers
    BY <1>1, <1>4 DEF Snapshot, WorkerQuiet
  <2>4. Fresh(wrk[d].task, wrk[d].lease)' BY <1>2, <2>2, <2>3 DEF Fresh
  <2>5. r.lease <= r.epoch BY <1>1 DEF RowInv, Row
  <2>6. WorkerQuiet(d)' BY <1>1, <1>2, <2>2, <2>4, <2>5 DEF WorkerQuiet, MarkedPcs
  <2> QED BY <1>3, <2>3, <2>6 DEF AttemptQuiet
<1>5. CASE Register(d)
  <2>1. wrk'[d] = [w EXCEPT !.pc = "marked"] BY <1>1, <1>5 DEF Register, WrkGo
  <2>2. /\ wrk'[d].pc = "marked" /\ wrk'[d].lease = w.lease /\ wrk'[d].task = t
        /\ wrk'[d].term = w.term
    BY <1>1, <2>1 DEF Worker
  <2>3. w.pc = "snapped" /\ markers' = markers \cup {MyMarker(d)}
    BY <1>5 DEF Register
  <2>4. r.state \in InWork /\ r.lease = w.lease /\ w.lease <= r.epoch
    BY <1>1, <2>3 DEF WorkerQuiet, Fresh, InWork
  <2>5. MyMarker(d)' = MyMarker(d) BY <2>2 DEF MyMarker
  <2>6. WorkerQuiet(d)' BY <1>1, <1>2, <2>2, <2>3, <2>4, <2>5 DEF WorkerQuiet
  <2> QED BY <1>3, <2>3, <2>6 DEF AttemptQuiet, AlivePcs
<1> QED BY <1>4, <1>5

\* From the marker to the end of the provider.
LEMMA WorkQuiet ==
  ASSUME TypeOK, TypeOK', LeaseInv, OpenInv, QuietInv, RowsFence, NEW d \in Runners,
         First(wrk[d].task), Start(d) \/ Freeze(d) \/ Guard(d)
  PROVE  AttemptQuiet(d)
<1> DEFINE w == wrk[d]
           t == w.task
           r == plan[t]
<1>1. w \in Worker /\ WorkerQuiet(d) /\ Loads /\ wrk \in [Runners -> Worker]
  BY OpenLoads DEF TypeOK, QuietInv
<1>2. w.pc \in MarkedPcs BY DEF Start, Freeze, Guard, MarkedPcs
<1>3. /\ t \in Tasks /\ r \in Row /\ Holder(d, t) /\ r.state \in InWork /\ r.lease = w.lease
      /\ MyMarker(d) \in markers /\ ~w.term
  BY <1>2, MarkedHolds
<1>4. markers' = markers BY DEF Start, Freeze, Guard
<1>5. ASSUME NEW v, wrk'[d] = v, v.task = t, v.lease = w.lease, v.term = w.term,
             v.pc \in MarkedPcs \/ v.pc = "exiting", QuietMove(d, t),
             v.pc \in MarkedPcs => plan'[t].lease = w.lease /\ plan'[t].state \in InWork,
             v.pc \in {"started", "working"} => plan'[t].state = "running",
             v.pc = "working" => Touched(plan'[t]) = Touched(v.frozen)
      PROVE  AttemptQuiet(d)
  <2>1. WorkerQuiet(d)'
    <3>1. CASE v.pc = "exiting" BY <1>5, <3>1, EndedQuiet
    <3>2. CASE v.pc \in MarkedPcs
      <4>1. MyMarker(d)' \in markers' BY <1>3, <1>4, <1>5 DEF MyMarker
      <4>2. v.lease <= plan'[t].epoch
        <5>1. v.lease \in Nat /\ plan[t].epoch \in Nat /\ plan'[t].epoch \in Nat
          BY <1>1, <1>3, <1>5 DEF Worker, Row, TypeOK
        <5>2. v.lease <= plan[t].epoch BY <1>1, <1>5 DEF WorkerQuiet
        <5>3. plan'[t].epoch >= plan[t].epoch BY <1>3 DEF RowsFence, NewLeaseOnly
        <5> QED BY <5>1, <5>2, <5>3
      <4> QED BY <1>3, <1>5, <3>2, <4>1, <4>2 DEF WorkerQuiet, MarkedPcs
    <3> QED BY <1>5, <3>1, <3>2
  <2>2. w.pc \in AlivePcs \cup {"boot"} BY <1>2 DEF AlivePcs
  <2> QED BY <1>5, <2>1, <2>2 DEF AttemptQuiet
<1>6. CASE Start(d)
  <2>1. CASE CanStart(r, w.lease)
    <3>1. /\ plan' = [plan EXCEPT ![t] = Started(r)] /\ wrk'[d] = [w EXCEPT !.pc = "started"]
      BY <1>1, <1>6, <2>1 DEF Start, WrkGo
    <3>2. /\ wrk'[d].pc = "started" /\ wrk'[d].task = t /\ wrk'[d].lease = w.lease
          /\ wrk'[d].term = w.term
      BY <1>1, <3>1 DEF Worker
    <3>3. plan'[t] = Started(r) BY <1>3, <3>1 DEF TypeOK
    <3>4. plan'[t].state = "running" /\ plan'[t].lease = r.lease BY <1>3, <3>3, QuietVerbs
    <3>5. r.state = "claimed" BY <2>1 DEF CanStart
    <3>6. QuietMove(d, t) BY <1>3, <3>3, <3>5 DEF QuietMove
    <3> QED BY <1>3, <1>5, <3>2, <3>4, <3>6 DEF MarkedPcs, InWork
  <2>2. CASE ~CanStart(r, w.lease)
    <3>1. plan' = plan /\ wrk'[d] = [w EXCEPT !.pc = "exiting"]
      BY <1>1, <1>6, <2>2 DEF Start, WrkGo
    <3>2. /\ wrk'[d].pc = "exiting" /\ wrk'[d].task = t /\ wrk'[d].lease = w.lease
          /\ wrk'[d].term = w.term
      BY <1>1, <3>1 DEF Worker
    <3>3. QuietMove(d, t) BY <3>1 DEF QuietMove
    <3> QED BY <1>5, <3>2, <3>3 DEF MarkedPcs
  <2> QED BY <2>1, <2>2
<1>7. CASE Freeze(d)
  <2>1. plan' = plan /\ r.state = "running" BY <1>1, <1>7 DEF Freeze, WorkerQuiet
  <2>2. QuietMove(d, t) BY <2>1 DEF QuietMove
  <2>3. \/ wrk'[d] = [w EXCEPT !.pc = "working", !.frozen = r]
        \/ wrk'[d] = [w EXCEPT !.pc = "failing"]
    BY <1>1, <1>7 DEF Freeze
  <2>4. /\ wrk'[d].task = t /\ wrk'[d].lease = w.lease /\ wrk'[d].term = w.term
        /\ wrk'[d].pc \in {"working", "failing"}
        /\ wrk'[d].pc = "working" => wrk'[d].frozen = r
    BY <1>1, <2>3 DEF Worker
  <2> QED BY <1>3, <1>5, <2>1, <2>2, <2>4 DEF MarkedPcs
<1>8. CASE Guard(d)
  <2>1. plan' = plan /\ w.pc = "working" BY <1>8 DEF Guard
  <2>2. ~Violates(r, w.frozen) BY <1>1, <2>1 DEF WorkerQuiet, Violates
  <2>3. QuietMove(d, t) BY <2>1 DEF QuietMove
  <2>4. PICK x \in {"publishing", "failing"} : wrk'[d] = [w EXCEPT !.pc = x]
    BY <1>1, <1>8, <2>2 DEF Guard, WrkGo
  <2>5. /\ wrk'[d].task = t /\ wrk'[d].lease = w.lease /\ wrk'[d].term = w.term
        /\ wrk'[d].pc \in {"publishing", "failing"}
    BY <1>1, <2>4 DEF Worker
  <2> QED BY <1>3, <1>5, <2>1, <2>3, <2>5 DEF MarkedPcs
<1> QED BY <1>6, <1>7, <1>8

\* The outcome of an attempt, and its end.  Nothing has violated the
\* authority of the row, so nothing is put back.
LEMMA OutcomeQuiet ==
  ASSUME TypeOK, TypeOK', LeaseInv, QuietInv, RowsFence, NEW d \in Runners,
         First(wrk[d].task), Restore(d) \/ Publish(d) \/ Fail(d) \/ Abort(d) \/ Exit(d)
  PROVE  AttemptQuiet(d)
<1> DEFINE w == wrk[d]
           t == w.task
           r == plan[t]
<1>1. /\ w \in Worker /\ t \in Tasks /\ r \in Row /\ WorkerQuiet(d) /\ ~w.term
      /\ wrk \in [Runners -> Worker] /\ w.pc \notin {"restoring", "retrying"}
      /\ w.frozen \in Row
  BY DEF TypeOK, Worker, QuietInv, WorkerQuiet
<1>2. ASSUME \/ wrk'[d].pc = "exiting" /\ wrk'[d].term = w.term
                /\ wrk'[d].task = t /\ wrk'[d].lease = w.lease
             \/ wrk'[d].pc = "exited" /\ wrk'[d].lease = 0 /\ ~wrk'[d].term,
             QuietMove(d, t)
      PROVE  AttemptQuiet(d)
  BY <1>2, EndedQuiet DEF AttemptQuiet
<1>3. AfterFailure(d) = "exiting" BY <1>1 DEF AfterFailure
<1>4. ASSUME wrk'[d] = [w EXCEPT !.pc = "exiting"] \/
             \E ok \in BOOLEAN : wrk'[d] = [w EXCEPT !.pc = "exiting", !.ok = ok]
      PROVE  wrk'[d].pc = "exiting" /\ wrk'[d].term = w.term
                /\ wrk'[d].task = t /\ wrk'[d].lease = w.lease
  BY <1>1, <1>4 DEF Worker
<1>5. ~Restore(d) BY <1>1 DEF Restore
<1>6. CASE Publish(d)
  <2>1. \E ok \in BOOLEAN : wrk'[d] = [w EXCEPT !.pc = "exiting", !.ok = ok]
    BY <1>1, <1>3, <1>6 DEF Publish
  <2>2. w.pc \in MarkedPcs BY <1>6 DEF Publish, MarkedPcs
  <2>3. Holder(d, t) /\ r.state \in InWork /\ r.lease = w.lease BY <2>2, MarkedHolds
  <2>4. plan' = plan \/ plan'[t] = Reviewed(r, MyPatch(d))
    BY <1>1, <1>6 DEF Publish, TypeOK
  <2>5. Reviewed(r, MyPatch(d)).patch = MyPatch(d) /\ MyPatch(d).lease = w.lease
    BY <1>1 DEF Reviewed, Row, MyPatch
  <2>6. QuietMove(d, t) BY <2>3, <2>4, <2>5 DEF QuietMove
  <2> QED BY <1>2, <1>4, <2>1, <2>6
<1>7. CASE Fail(d)
  <2>1. wrk'[d] = [w EXCEPT !.pc = "exiting"] BY <1>1, <1>3, <1>7 DEF Fail, WrkGo
  <2>2. w.pc \in MarkedPcs BY <1>1, <1>7 DEF Fail, MarkedPcs
  <2>3. Holder(d, t) /\ r.state \in InWork BY <2>2, MarkedHolds
  <2>4. plan' = plan \/ plan'[t] = ClearClaim(r) BY <1>1, <1>7 DEF Fail, TypeOK
  <2>5. QuietMove(d, t) BY <2>3, <2>4 DEF QuietMove
  <2> QED BY <1>2, <1>4, <2>1, <2>5
<1>8. CASE Abort(d)
  <2>1. plan' = plan /\ wrk'[d] = [w EXCEPT !.pc = "exiting"]
    BY <1>1, <1>8 DEF Abort, WrkGo
  <2>2. QuietMove(d, t) BY <2>1 DEF QuietMove
  <2> QED BY <1>2, <1>4, <2>1, <2>2
<1>9. CASE Exit(d)
  <2>1. plan' = plan /\ wrk'[d] = [NoWorker EXCEPT !.pc = "exited", !.ok = w.ok]
    BY <1>1, <1>9 DEF Exit
  <2>2. wrk'[d].pc = "exited" /\ wrk'[d].lease = 0 /\ ~wrk'[d].term
    BY <2>1 DEF NoWorker
  <2>3. QuietMove(d, t) BY <2>1 DEF QuietMove
  <2> QED BY <1>2, <2>2, <2>3
<1> QED BY <1>5, <1>6, <1>7, <1>8, <1>9

\* All of the delegate.
LEMMA WorkerQuietStep ==
  ASSUME TypeOK, TypeOK', LeaseInv, OpenInv, QuietInv, RowsFence,
         NEW d \in Runners, WorkerStep(d)
  PROVE  StepQuiet(d)
<1>1. First(wrk[d].task) => AttemptQuiet(d)
  BY RegisterQuiet, WorkQuiet, OutcomeQuiet DEF WorkerStep
<1> QED BY <1>1, WorkerShape, AttemptStep

-----------------------------------------------------------------------------
(* Kills, garbage collection and the clock.                                *)

\* A plan-run killed without its trap.
LEMMA KillDriverQuiet ==
  ASSUME TypeOK, QuietInv, NEW d \in Runners, KillDriver(d)
  PROVE  StepQuiet(d)
<1>1. \A e \in Runners \ {d} : lander = e => lander' = e BY DEF KillDriver
<1> QED BY <1>1, IdleSettled, IdleTyped, SettledStep DEF KillDriver

\* A worker killed without its trap: its marker stays, with a dead pid.
LEMMA KillWorkerQuiet ==
  ASSUME TypeOK, TypeOK', LeaseInv, QuietInv, RowsFence, NEW d \in Runners, KillWorker(d)
  PROVE  StepQuiet(d)
<1>1. wrk'[d] = [NoWorker EXCEPT !.pc = "exited"] BY DEF KillWorker, TypeOK
<1>2. wrk'[d].pc = "exited" /\ wrk'[d].lease = 0 /\ ~wrk'[d].term BY <1>1 DEF NoWorker
<1>3. QuietMove(d, wrk[d].task) BY DEF KillWorker, QuietMove
<1>4. First(wrk[d].task) => AttemptQuiet(d) BY <1>2, <1>3, EndedQuiet DEF AttemptQuiet
<1> QED BY <1>4, KilledShape, AttemptStep

\* gc frees a claim only when nobody believes in it any more.
LEMMA CollectSpares ==
  ASSUME TypeOK, QuietInv, NEW m \in markers, First(m.task),
         CanRecover(plan[m.task], m.lease), ~LiveMarker(m.task, m.lease), NEW e \in Runners
  PROVE  /\ ~(drv[e].pc \in {"adopt", "checks"} /\ drv[e].task = m.task)
         /\ ~(wrk[e].pc \in AlivePcs \cup {"boot"} /\ wrk[e].task = m.task)
<1>1. plan[m.task].lease = m.lease BY DEF CanRecover
<1>2. \A l : Fresh(m.task, l) => FALSE BY <1>1 DEF Fresh
<1>3. ~(drv[e].pc \in {"adopt", "checks"} /\ drv[e].task = m.task)
  BY <1>2 DEF QuietInv, DriverQuiet
<1>4. ~(wrk[e].pc \in {"boot", "snapped"} /\ wrk[e].task = m.task)
  BY <1>2 DEF QuietInv, WorkerQuiet
<1>5. ~(wrk[e].pc \in MarkedPcs /\ wrk[e].task = m.task)
  <2> SUFFICES ASSUME wrk[e].pc \in MarkedPcs, wrk[e].task = m.task PROVE FALSE
    OBVIOUS
  <2>1. MyMarker(e) \in markers /\ plan[m.task].lease = wrk[e].lease
    BY DEF QuietInv, WorkerQuiet
  <2>2. MyMarker(e).task = m.task /\ MyMarker(e).lease = m.lease /\ MyMarker(e).by # NoOne
    BY <1>1, <2>1, NoOneAssumption DEF MyMarker
  <2> QED BY <2>1, <2>2 DEF LiveMarker
<1> QED BY <1>3, <1>4, <1>5 DEF AlivePcs

\* Garbage collection.
LEMMA CollectQuiet ==
  ASSUME TypeOK, TypeOK', LeaseInv, QuietInv, RowsFence, NEW m \in markers, CollectMarker(m)
  PROVE  QuietInv'
<1> DEFINE can == CanRecover(plan[m.task], m.lease) /\ ~LiveMarker(m.task, m.lease)
<1>1. /\ drv' = drv /\ wrk' = wrk /\ lander' = lander /\ markers' = markers \ {m}
      /\ m.by = NoOne /\ m.task \in Tasks
  BY DEF CollectMarker, TypeOK, Marker
<1>2. ASSUME NEW t \in Tasks, plan'[t] # plan[t]
      PROVE  can /\ t = m.task /\ plan'[t] = ClearClaim(plan[t])
  BY <1>2 DEF CollectMarker, TypeOK
<1>3. ASSUME NEW t \in Tasks, NEW l, plan'[t] = plan[t], Fresh(t, l) PROVE Fresh(t, l)'
  BY <1>1, <1>3 DEF Fresh
<1>4. ASSUME NEW t \in Tasks
      PROVE  plan[t] \in Row /\ plan'[t].epoch \in Nat /\ plan'[t].epoch >= plan[t].epoch
             /\ plan[t].epoch \in Nat /\ RowQuiet(t) /\ plan'[t].repair = plan[t].repair
             /\ (plan'[t] # plan[t] => plan'[t].lease = 0 /\ plan'[t].state = "ready")
  <2>1. plan[t] \in Row BY DEF TypeOK
  <2>2. ClearClaim(plan[t]).repair = plan[t].repair /\ ClearClaim(plan[t]).lease = 0
        /\ ClearClaim(plan[t]).state = "ready"
    BY <2>1, QuietVerbs
  <2> QED BY <1>2, <2>1, <2>2 DEF TypeOK, Row, RowsFence, NewLeaseOnly, QuietInv
<1>5. ASSUME NEW t \in Tasks PROVE RowQuiet(t)'
  <2>1. CASE plan'[t] = plan[t]
    BY <1>1, <1>4, <2>1 DEF RowQuiet, Holding, Holder, First
  <2>2. CASE plan'[t] # plan[t]
    BY <1>4, <2>2 DEF RowQuiet, InWork, First
  <2> QED BY <2>1, <2>2
<1>6. ASSUME NEW e \in Runners PROVE DriverQuiet(e)' /\ WorkerQuiet(e)' /\ LandingQuiet(e)'
  <2> DEFINE u == drv[e]
             w == wrk[e]
  <2>1. /\ u.task \in Tasks /\ w.task \in Tasks /\ u.lease \in Nat /\ w.lease \in Nat
        /\ DriverQuiet(e) /\ WorkerQuiet(e) /\ LandingQuiet(e)
    BY DEF TypeOK, Driver, Worker, QuietInv
  <2>2. u.lease <= plan'[u.task].epoch /\ w.lease <= plan'[w.task].epoch
    <3>1. u.lease <= plan[u.task].epoch /\ w.lease <= plan[w.task].epoch
      BY <2>1 DEF DriverQuiet, WorkerQuiet
    <3> HIDE DEF u, w
    <3> QED BY <1>4, <2>1, <3>1
  <2>3. First(u.task) /\ u.pc \in {"adopt", "checks"} => plan'[u.task] = plan[u.task]
    BY <1>2, <2>1, CollectSpares
  <2>4. First(w.task) /\ w.pc \in AlivePcs \cup {"boot"} => plan'[w.task] = plan[w.task]
    BY <1>2, <2>1, CollectSpares
  <2>5. /\ WorkerLive(e)' = WorkerLive(e)
        /\ First(drv[e].task)' => First(u.task)
        /\ First(wrk[e].task)' => First(w.task)
    BY <1>1, <1>4, <2>1 DEF WorkerLive, First
  <2>6. ASSUME First(u.task), u.pc = "release", plan'[u.task].lease = u.lease
        PROVE  plan'[u.task].state \in InWork
    <3>1. u.lease # 0 BY <2>1, <2>6 DEF DriverQuiet
    <3>2. plan'[u.task] = plan[u.task] BY <1>4, <2>1, <2>6, <3>1
    <3> QED BY <2>1, <2>6, <3>2 DEF DriverQuiet
  <2>7. ASSUME Past(u.task, u.lease) PROVE Past(drv[e].task, drv[e].lease)'
    <3>1. u.lease # 0 BY <2>7 DEF Past
    <3>2. plan'[u.task].lease = u.lease => plan'[u.task] = plan[u.task] BY <1>4, <2>1, <3>1
    <3> QED BY <1>1, <2>7, <3>1, <3>2 DEF Past
  <2>8. DriverQuiet(e)'
    <3>1. First(u.task) /\ u.pc = "adopt" => Fresh(u.task, plan[u.task].lease)'
      BY <1>1, <1>3, <2>1, <2>3 DEF DriverQuiet, Fresh
    <3>2. First(u.task) /\ u.pc = "checks" => Fresh(u.task, u.lease)'
      BY <1>1, <1>3, <2>1, <2>3 DEF DriverQuiet, Fresh
    <3> QED BY <1>1, <2>1, <2>2, <2>5, <2>6, <2>7, <3>1, <3>2 DEF DriverQuiet
  <2>9. WorkerQuiet(e)'
    <3>1. First(w.task) /\ w.pc = "boot" => Fresh(w.task, plan[w.task].lease)'
      BY <1>1, <1>3, <2>1, <2>4 DEF WorkerQuiet, Fresh
    <3>2. First(w.task) /\ w.pc = "snapped" => Fresh(w.task, w.lease)'
      BY <1>1, <1>3, <2>1, <2>4 DEF WorkerQuiet, Fresh, AlivePcs
    <3>3. First(w.task) /\ w.pc \in MarkedPcs =>
            MyMarker(e)' \in markers' /\ plan'[w.task] = plan[w.task]
      <4>1. MyMarker(e) # m BY <1>1, NoOneAssumption DEF MyMarker
      <4>2. MyMarker(e)' = MyMarker(e) BY <1>1 DEF MyMarker
      <4> QED BY <1>1, <2>1, <2>4, <4>1, <4>2 DEF WorkerQuiet, AlivePcs
    <3>4. {"started", "working"} \subseteq MarkedPcs BY DEF MarkedPcs
    <3> QED BY <1>1, <2>1, <2>2, <2>5, <3>1, <3>2, <3>3, <3>4 DEF WorkerQuiet
  <2>10. LandingQuiet(e)'
    <3>1. plan[u.task].state = "landing" => plan'[u.task] = plan[u.task]
      BY <1>2, <2>1 DEF CanRecover
    <3> QED BY <1>1, <2>1, <3>1 DEF LandingQuiet
  <2> QED BY <2>8, <2>9, <2>10
<1>7. ASSUME NEW n \in markers' PROVE n.lease <= plan'[n.task].epoch
  <2>1. n \in markers /\ n.task \in Tasks /\ n.lease \in Nat BY <1>1 DEF TypeOK, Marker
  <2>2. n.lease <= plan[n.task].epoch BY <2>1 DEF QuietInv
  <2> QED BY <1>4, <2>1, <2>2
<1> QED BY <1>5, <1>6, <1>7 DEF QuietInv

\* The TTL runs out only on a claim that nothing but time protects.
LEMMA AgeQuiet ==
  ASSUME Alone, TypeOK, TypeOK', QuietInv, NEW t \in Tasks, Age(t)
  PROVE  QuietInv'
<1>1. /\ drv' = drv /\ wrk' = wrk /\ lander' = lander /\ markers' = markers
      /\ plan[t].state = "claimed" /\ ~Holding(t) /\ plan[t] \in Row
      /\ plan' = [plan EXCEPT ![t] = [plan[t] EXCEPT !.aged = TRUE]]
  BY DEF Age, Alone, SetRow, TypeOK
<1>2. ASSUME NEW x \in Tasks
      PROVE  /\ plan'[x].state = plan[x].state /\ plan'[x].lease = plan[x].lease
             /\ plan'[x].epoch = plan[x].epoch /\ plan'[x].repair = plan[x].repair
             /\ Touched(plan'[x]) = Touched(plan[x]) /\ Receipt(plan'[x]) = Receipt(plan[x])
             /\ x # t => plan'[x] = plan[x]
  <2>1. CASE x = t
    <3> DEFINE s == [plan[t] EXCEPT !.aged = TRUE]
    <3>1. plan'[x] = s BY <1>1, <2>1 DEF TypeOK
    <3>2. /\ s.state = plan[t].state /\ s.lease = plan[t].lease /\ s.epoch = plan[t].epoch
          /\ s.repair = plan[t].repair
      BY <1>1 DEF Row
    <3>3. Touched(s) = Touched(plan[t]) BY <1>1 DEF Touched, Row
    <3>4. Receipt(s) = Receipt(plan[t]) BY <1>1 DEF Receipt, Row
    <3> HIDE DEF s
    <3> QED BY <2>1, <3>1, <3>2, <3>3, <3>4
  <2>2. CASE x # t BY <1>1, <2>2 DEF TypeOK
  <2> QED BY <2>1, <2>2
<1>3. ASSUME NEW x \in Tasks, NEW l
      PROVE  (Fresh(x, l)' <=> Fresh(x, l)) /\ (Past(x, l)' <=> Past(x, l))
  BY <1>1, <1>2 DEF Fresh, Past
<1>4. ASSUME NEW x \in Tasks PROVE RowQuiet(x)'
  <2>1. RowQuiet(x) BY DEF QuietInv
  <2>2. \A e \in Runners : Holder(e, x)' <=> Holder(e, x) BY <1>1, <1>2 DEF Holder
  <2>3. Holding(x)' <=> Holding(x) BY <1>1, <1>2 DEF Holding
  <2> QED BY <1>1, <1>2, <2>1, <2>2, <2>3 DEF RowQuiet, First
<1>5. ASSUME NEW e \in Runners PROVE DriverQuiet(e)' /\ WorkerQuiet(e)' /\ LandingQuiet(e)'
  <2>1. /\ drv[e].task \in Tasks /\ wrk[e].task \in Tasks
        /\ DriverQuiet(e) /\ WorkerQuiet(e) /\ LandingQuiet(e)
    BY DEF TypeOK, Driver, Worker, QuietInv
  <2>2. WorkerLive(e)' = WorkerLive(e) /\ MyMarker(e)' = MyMarker(e)
    BY <1>1 DEF WorkerLive, MyMarker
  <2>3. DriverQuiet(e)' BY <1>1, <1>2, <1>3, <2>1, <2>2 DEF DriverQuiet, Fresh, Past, First
  <2>4. WorkerQuiet(e)' BY <1>1, <1>2, <1>3, <2>1, <2>2 DEF WorkerQuiet, Fresh, First
  <2>5. LandingQuiet(e)' BY <1>1, <1>2, <2>1 DEF LandingQuiet
  <2> QED BY <2>3, <2>4, <2>5
<1>6. \A m \in markers' : m.lease <= plan'[m.task].epoch
  BY <1>1, <1>2 DEF QuietInv, TypeOK, Marker
<1> QED BY <1>4, <1>5, <1>6 DEF QuietInv

-----------------------------------------------------------------------------
(* The theorems.                                                           *)

AloneInv == TypeOK /\ LeaseInv /\ BusyInv /\ OpenInv /\ RepairInv /\ QuietInv

LEMMA NoOperator == ASSUME Alone PROVE ~OperatorStep
BY DEF Alone, OperatorStep, OperatorRow, OperatorCancel, OperatorReclaim, OperatorFinish,
       OperatorDelegate

\* No row gets an old lease, or its repair back.
LEMMA RowsFenced == ASSUME Alone, AloneInv, [Next]_vars PROVE RowsFence
<1> SUFFICES ASSUME NEW t \in Tasks
             PROVE  NewLeaseOnly(plan[t], plan'[t]) /\ (plan'[t].repair = 0 => First(t))
  BY DEF RowsFence
<1>1. plan[t] \in Row BY DEF AloneInv, TypeOK
<1>2. RowStep(plan[t], plan'[t]) BY RowsMove, RowsKeepLeases DEF AloneInv
<1>3. plan[t].repair = 1 => plan'[t].repair = 1 BY CounterMoves DEF AloneInv
<1> QED BY <1>1, <1>2, <1>3 DEF RowStep, First, Row

\* A step of a runner is quiet.
LEMMA RunnerQuietStep ==
  ASSUME Alone, AloneInv, [Next]_vars, NEW d \in Runners,
         DriverStep(d) \/ LandStep(d) \/ WorkerStep(d) \/ KillDriver(d) \/ KillWorker(d)
  PROVE  StepQuiet(d)
<1>1. TypeOK' /\ RowsFence BY TypeStep, RowsFenced DEF AloneInv
<1> QED BY <1>1, DriverQuietStep, LandQuietStep, WorkerQuietStep, KillDriverQuiet,
           KillWorkerQuiet DEF AloneInv

\* No step of a system left alone breaks the invariant.
LEMMA QuietInvStep == ASSUME Alone, AloneInv, [Next]_vars PROVE QuietInv'
<1>1. TypeOK' /\ RowsFence BY TypeStep, RowsFenced DEF AloneInv
<1>2. CASE UNCHANGED vars
  <2>1. \A t \in Tasks : RowQuiet(t)'
    BY <1>2 DEF AloneInv, vars, QuietInv, RowQuiet, Holding, Holder, Past, First
  <2>2. \A d \in Runners : DriverQuiet(d)'
    BY <1>2 DEF AloneInv, vars, QuietInv, DriverQuiet, Fresh, Past, First, WorkerLive
  <2>3. \A d \in Runners : WorkerQuiet(d)' /\ LandingQuiet(d)'
    BY <1>2 DEF AloneInv, vars, QuietInv, WorkerQuiet, LandingQuiet, Fresh, Past, First,
                MyMarker
  <2>4. \A m \in markers' : m.lease <= plan'[m.task].epoch
    BY <1>2 DEF AloneInv, vars, QuietInv
  <2> QED BY <2>1, <2>2, <2>3, <2>4 DEF QuietInv
<1>3. ASSUME NEW d \in Runners,
             DriverStep(d) \/ LandStep(d) \/ WorkerStep(d) \/ KillDriver(d) \/ KillWorker(d)
      PROVE  QuietInv'
  <2>1. StepQuiet(d) BY <1>3, RunnerQuietStep
  <2> QED BY <1>1, <2>1, QuietStays DEF AloneInv
<1> QED BY <1>1, <1>2, <1>3, NoOperator, CollectQuiet, AgeQuiet DEF AloneInv, Next

\* It holds at first.
LEMMA QuietInvInit == Init => OpenInv /\ RepairInv /\ QuietInv
<1> SUFFICES ASSUME Init PROVE OpenInv /\ RepairInv /\ QuietInv
  OBVIOUS
<1>1. NoTask \in Tasks BY ConstantsAssumption DEF NoTask
<1>2. \A t \in Tasks : RowQuiet(t) BY DEF Init, RowQuiet, Added, InWork, First
<1>3. ASSUME NEW d \in Runners PROVE DriverQuiet(d) /\ WorkerQuiet(d) /\ LandingQuiet(d)
  <2>1. drv[d] = IdleDriver /\ wrk[d] = NoWorker /\ plan[NoTask].epoch = 0
    BY <1>1 DEF Init, Added
  <2> QED BY <2>1 DEF DriverQuiet, WorkerQuiet, LandingQuiet, IdleDriver, NoWorker, MarkedPcs,
                      LatePcs
<1>4. markers = {} BY DEF Init
<1>5. OpenInv /\ RepairInv BY DEF Init, OpenInv, RepairInv, Added, NoWorker
<1> QED BY <1>2, <1>3, <1>4, <1>5 DEF QuietInv

\* And always.
LEMMA AloneInvCorrect == ASSUME Alone PROVE Spec => []AloneInv
<1>1. Init => TypeOK /\ LeaseInv /\ BusyInv
  BY AddedTyped, AddedInv, IdleTyped, ConstantsAssumption
  DEF Init, TypeOK, LeaseInv, BusyInv, AtWork, Busy, NoWorker
<1>2. AloneInv /\ [Next]_vars => AloneInv'
  BY TypeStep, LeaseInvStep, BusyStep, OpenStep, RepairInvStep, QuietInvStep DEF AloneInv
<1> QED BY <1>1, <1>2, QuietInvInit, PTL DEF Spec, AloneInv

\* Where nobody types verbs at the plan and no TTL is shorter than a start, a
\* task is repaired once, however many plan-runs meet on its row, die or come
\* back: no worker puts back a copy of the row that is older than the repair,
\* and no verb sends a repaired review back to work.
THEOREM RepairOnceCorrect == ASSUME Alone PROVE Spec => RepairOnce
<1>1. ASSUME AloneInv, [Next]_vars, NEW t \in Tasks, plan[t].repair = 1
      PROVE  /\ plan'[t].repair = 1
             /\ plan[t].state = "review" => plan'[t].state # "claimed"
  <2> DEFINE r == plan[t]
             s == plan'[t]
  <2>1. r \in Row /\ RowMove(t) BY <1>1, RowsMove DEF AloneInv, TypeOK
  <2>2. ASSUME r.state = "review", s.state = "claimed" PROVE FALSE
    <3>1. s # r BY <2>2
    <3>2. s \notin {ClearClaim(r), Blocked(r), Fenced(r), Finished(r)}
      BY <2>1, <2>2, QuietVerbs
    <3>3. s \notin {Touched(r), [r EXCEPT !.aged = TRUE]} BY <2>1, <2>2 DEF Touched, Row
    <3>4. \A d \in Runners : wrk[d].pc = "restoring" => s # Restored(r, wrk[d].frozen)
      BY <1>1, <2>1, <2>2 DEF AloneInv, BusyInv, Kept, Restored, RestoredEvidence, Row
    <3>5. ~OperatorCancel(t) BY DEF Alone, OperatorCancel
    <3>6. \A d \in Runners : ~CanReview(r, wrk[d].lease) BY <2>2 DEF CanReview
    <3> QED BY <1>1, <2>1, <2>2, <3>1, <3>2, <3>3, <3>4, <3>5, <3>6 DEF RowMove
  <2>3. s.repair = 1 BY <1>1, CounterMoves DEF AloneInv
  <2> QED BY <2>2, <2>3
<1>2. AloneInv /\ [Next]_vars =>
        [\A t \in Tasks : plan[t].repair = 1 =>
           /\ plan'[t].repair = 1
           /\ plan[t].state = "review" => plan'[t].state # "claimed"]_vars
  BY <1>1
<1> QED BY <1>2, AloneInvCorrect, PTL DEF Spec, RepairOnce

\* Where nothing is repaired, moreover, no other process takes the claim from
\* a worker that has registered, whoever is killed and whatever gc and the
\* clock do.
THEOREM LiveWorkKeptCorrect == ASSUME Quiet PROVE Spec => []LiveWorkKept
<1>1. Alone /\ NoRepairs BY DEF Quiet
<1>2. AloneInv => LiveWorkKept
  <2> SUFFICES ASSUME AloneInv, NEW d \in Runners, wrk[d].pc \in MarkedPcs
               PROVE  /\ plan[wrk[d].task].lease = wrk[d].lease
                      /\ plan[wrk[d].task].state \in InWork
    BY DEF LiveWorkKept, MarkedPcs, InWork
  <2>1. wrk[d].task \in Tasks BY DEF AloneInv, TypeOK, Worker
  <2>2. First(wrk[d].task) BY <1>1, <2>1 DEF AloneInv, QuietInv, RowQuiet
  <2> QED BY <2>2 DEF AloneInv, QuietInv, WorkerQuiet
<1> QED BY <1>1, <1>2, AloneInvCorrect, PTL

\* Nor does anything move a row between the fence and the finish of the
\* landing that fenced it.
THEOREM FenceHoldsCorrect == ASSUME Quiet PROVE Spec => []FenceHolds
<1>1. Alone /\ NoRepairs BY DEF Quiet
<1>2. AloneInv => FenceHolds
  BY <1>1 DEF AloneInv, QuietInv, LandingQuiet, FenceHolds
<1> QED BY <1>1, <1>2, AloneInvCorrect, PTL

\* A row becomes active only by a claim that finds its dependencies done.
LEMMA ActiveByClaim ==
  ASSUME NoRepairs, TypeOK, NEW d \in Runners, NEW t \in Tasks, QuietMove(d, t)
  PROVE  /\ plan[t].state = "done" => plan'[t].state = "done"
         /\ plan'[t].state \in Active => plan[t].state \in Active \/ DepsDone(t)
<1> DEFINE r == plan[t]
           s == plan'[t]
<1>1. r \in Row BY DEF TypeOK
<1>2. CASE s = r BY <1>2
<1>3. CASE s # r
  <2>1. r.state # "done" BY <1>3 DEF QuietMove, ClaimExpired, InWork
  <2>2. r.state \in Active \/ r.state = "ready"
    BY <1>3 DEF QuietMove, ClaimExpired, InWork, Active
  <2>3. r.state = "ready" => DepsDone(t)
    BY <1>3 DEF QuietMove, ClaimExpired, InWork
  <2> QED BY <2>1, <2>2, <2>3
<1> QED BY <1>2, <1>3

\* How gc and the clock move a row.
LEMMA OtherRows ==
  ASSUME TypeOK, NEW t \in Tasks,
         (\E m \in markers : CollectMarker(m)) \/ (\E x \in Tasks : Age(x))
  PROVE  \/ plan'[t].state = plan[t].state
         \/ plan[t].state \in InWork /\ plan'[t].state = "ready"
<1>1. plan[t] \in Row BY DEF TypeOK
<1>2. ASSUME NEW m \in markers, CollectMarker(m)
      PROVE  \/ plan'[t] = plan[t]
             \/ plan[t].state \in InWork /\ plan'[t] = ClearClaim(plan[t])
  BY <1>2 DEF CollectMarker, CanRecover, InWork, TypeOK, Marker
<1>3. ClearClaim(plan[t]).state = "ready" BY <1>1, QuietVerbs
<1>4. ASSUME NEW x \in Tasks, Age(x) PROVE plan'[t].state = plan[t].state
  <2>1. plan'[t] = plan[t] \/ plan'[t] = [plan[t] EXCEPT !.aged = TRUE]
    BY <1>4 DEF Age, SetRow, TypeOK
  <2> QED BY <1>1, <2>1 DEF Row
<1> QED BY <1>2, <1>3, <1>4

\* No quiet step starts a task early or takes back what a started one needs.
LEMMA DependentsStep ==
  ASSUME Alone, NoRepairs, AloneInv, DependentsWait, [Next]_vars PROVE DependentsWait'
<1> SUFFICES ASSUME NEW t \in Tasks, plan'[t].state \in Active,
                    NEW x \in Depends[t]
             PROVE  plan'[x].state = "done"
  BY DEF DependentsWait, DepsDone
<1>1. x \in Tasks /\ TypeOK BY ConstantsAssumption DEF AloneInv
<1>2. CASE UNCHANGED vars BY <1>2 DEF vars, DependentsWait, DepsDone
<1>3. ASSUME NEW d \in Runners,
             DriverStep(d) \/ LandStep(d) \/ WorkerStep(d) \/ KillDriver(d) \/ KillWorker(d)
      PROVE  plan'[x].state = "done"
  <2>1. \A y \in Tasks : QuietMove(d, y)
    BY <1>3, RunnerQuietStep DEF StepQuiet, AloneInv, QuietInv, RowQuiet
  <2>2. plan[t].state \in Active \/ DepsDone(t) BY <1>1, <2>1, ActiveByClaim
  <2>3. plan[x].state = "done" BY <2>2 DEF DependentsWait, DepsDone
  <2> QED BY <1>1, <2>1, <2>3, ActiveByClaim
<1>4. CASE (\E m \in markers : CollectMarker(m)) \/ (\E y \in Tasks : Age(y))
  <2>1. plan[t].state \in Active BY <1>1, <1>4, OtherRows DEF Active
  <2>2. plan[x].state = "done" BY <2>1 DEF DependentsWait, DepsDone
  <2> QED BY <1>1, <1>4, <2>2, OtherRows DEF InWork
<1> QED BY <1>2, <1>3, <1>4, NoOperator DEF Next

\* A task that is worked on, reviewed or landed rests on finished work only:
\* the check every claim makes once is never overtaken.
THEOREM DependentsWaitCorrect == ASSUME Quiet PROVE Spec => []DependentsWait
<1>1. Alone /\ NoRepairs BY DEF Quiet
<1>2. Init => DependentsWait BY DEF Init, Added, Active, DependentsWait
<1>3. AloneInv /\ DependentsWait /\ [Next]_vars => DependentsWait'
  BY <1>1, DependentsStep
<1> QED BY <1>1, <1>2, <1>3, AloneInvCorrect, PTL DEF Spec

=============================================================================
